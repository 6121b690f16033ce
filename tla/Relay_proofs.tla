---------------------------- MODULE Relay_proofs ----------------------------
(***************************************************************************)
(* For any handles, packets, addresses and clocks: the relay keeps its     *)
(* types, the conjuncts of RelayInv!IInv are inductive, the safety         *)
(* properties follow, and the relay implements the abstract repeater.      *)
(***************************************************************************)
EXTENDS RelayInv, TLAPS

\* Zenon tries every step; SMT is named where arithmetic, or what only it knows
\* of functions and records, is needed.
USE ZenonT(40)
----------------------------------------------------------------------------
(* Types *)

\* Reduction modulo a clock's width yields a natural number.
LEMMA ModNat == ASSUME NEW x \in Int, NEW k \in Nat \ {0} PROVE x % k \in Nat
  BY SMT

\* The contents standing for a freed node are well typed.
LEMMA BlankType == Blank \in Contents
<1>1. (CHOOSE i \in Identities : TRUE) \in Identities
  BY IdentitiesAssumption
<1>. QED
  BY <1>1, PacketAssumption DEF Blank, Contents

\* The initial state has its type.
LEMMA TypeInit == Init => TypeOK
<1>. SUFFICES ASSUME Init PROVE TypeOK
  OBVIOUS
<1>1. lastCleanup \in Nat
  BY SMT, ModNat, ClockAssumption DEF Init
<1>2. mem \in [Addrs -> Contents]
  BY BlankType DEF Init
<1>3. connections \in [Handles -> [present : BOOLEAN, connected : BOOLEAN,
                                  characteristic : BOOLEAN, seen : Nat]]
  BY DEF Init, NoConnection
<1>4. /\ handed \in [Packets -> [Handles -> Nat]]
      /\ from \in [Addrs -> Handles \cup {NoLink}]
      /\ current \in Packets
  BY DEF Init, Packets
<1>5. pc \in MainStates /\ life_check \in BOOLEAN /\ raced \in BOOLEAN
  BY DEF Init, MainStates
<1>6. /\ live = {} /\ sent = {} /\ broadcast = {} /\ targeted = {} /\ todo = {}
      /\ toRemove = {}
      /\ offset = 0 /\ uptime = 0 /\ announceTs = 0 /\ cursor = 0 /\ begin = NotAsked
      /\ cleanupNow = 0
  BY DEF Init
<1>. QED
  BY <1>1, <1>2, <1>3, <1>4, <1>5, <1>6 DEF TypeOK

\* Storing and queueing a packet keeps the types of what it changes.
LEMMA StoreType ==
  ASSUME TypeOK, NEW id \in Identities, NEW ttl \in Ttls \cup {OwnTtl}, NEW ts \in Nat,
         NEW senders \in SUBSET (Handles \cup NoEntry), NEW origin \in Handles \cup {NoLink},
         StoreAndBroadcast(id, ttl, ts, senders, origin)
  PROVE  /\ live' \subseteq Addrs
         /\ mem' \in [Addrs -> Contents]
         /\ sent' \subseteq Packets \X (Handles \cup NoEntry)
         /\ broadcast' \subseteq Addrs
         /\ handed' \in [Packets -> [Handles -> Nat]]
         /\ from' \in [Addrs -> Handles \cup {NoLink}]
         /\ raced' \in BOOLEAN
<1>1. PICK a \in Addrs \ live : StoreAt(a, id, ttl, ts, senders, origin)
  BY DEF StoreAndBroadcast
<1>2. [id |-> id, ttl |-> ttl, ts |-> ts] \in Contents
  BY DEF Contents
<1>. QED
  BY <1>1, <1>2 DEF StoreAt, TypeOK, Packets

\* getTimeMs yields a natural number.
LEMMA NowType == TypeOK => Now \in Nat
  BY SMT, ModNat, ClockAssumption DEF TypeOK, Now

\* What a packet's walk over the connections begins with: what the view kept, its
\* end, or a connection that is available.
LEMMA BeginCases ==
  ASSUME NEW b \in Begin
  PROVE  \/ b = begin /\ begin # NotAsked
         \/ b = End
         \/ b \in Handles /\ Available(b)
  BY DEF Begin, IsFirstAvailable

\* NotAsked and End stand for no connection.
LEMMA NoHandles == NotAsked \notin Handles /\ End \notin Handles
  BY SMT, HandlesAssumption DEF NotAsked, End

\* Every step of a callback or of main keeps the types.
LEMMA TypeNext == TypeOK /\ [Next]_vars => TypeOK'
<1>. SUFFICES ASSUME TypeOK, [Next]_vars
              PROVE  TypeOK'
  OBVIOUS
<1>. USE DEF MainStates
<1>1. ASSUME NEW h \in Handles, NEW id \in Received, NEW ttl \in Ttls,
             NEW c \in {h, StackCopy}, ProcessWrite(h, c, id, ttl)
      PROVE  TypeOK'
  <2>1. offset' \in Nat
    BY SMT, <1>1, ModNat, NowType, ClockAssumption, PacketAssumption
    DEF TypeOK, ProcessWrite, UpdatedOffset
  <2>2. TsOf[id] \in Nat /\ id \in Identities
    BY PacketAssumption DEF Received, Identities
  <2>3. CASE Stored(id) \/ (id \in PassAlongs /\ ttl < 1)
    BY <1>1, <2>1, <2>3 DEF ProcessWrite, TypeOK, mainVars
  <2>4. CASE StoreAndBroadcast(id, ttl, TsOf[id], {c}, IF c = h THEN h ELSE NoLink)
    <3>1. /\ {c} \in SUBSET (Handles \cup NoEntry)
          /\ (IF c = h THEN h ELSE NoLink) \in Handles \cup {NoLink}
      BY DEF NoEntry
    <3>. QED
      BY <1>1, <2>1, <2>2, <2>4, <3>1, StoreType DEF ProcessWrite, TypeOK, mainVars
  <2>. QED
    BY <1>1, <2>3, <2>4 DEF ProcessWrite
<1>2. ASSUME NEW h \in Handles, NEW isNeighbour \in BOOLEAN, ReportConnection(h, isNeighbour)
      PROVE  TypeOK'
  BY <1>2 DEF ReportConnection, TypeOK, mainVars, Packets
<1>3. ASSUME NEW h \in Handles, LearnCharacteristic(h)
      PROVE  TypeOK'
  BY <1>3 DEF LearnCharacteristic, TypeOK, mainVars, history
<1>4. ASSUME NEW h \in Handles, ReportDisconnection(h)
      PROVE  TypeOK'
  BY <1>4 DEF ReportDisconnection, TypeOK, mainVars
<1>5. CASE GpioFall
  BY <1>5 DEF GpioFall, TypeOK, mainVars, history
<1>6. CASE HandlePinActivity
  <2>1. CASE life_check
    <3>1. PICK id \in OwnMessages : StoreAndBroadcast(id, OwnTtl, Now, {}, NoLink)
      BY <1>6, <2>1 DEF HandlePinActivity
    <3>2. id \in Identities
      BY DEF Identities
    <3>. QED
      BY <1>6, <3>1, <3>2, StoreType, NowType DEF HandlePinActivity, TypeOK
  <2>2. CASE ~life_check
    BY <1>6, <2>2 DEF HandlePinActivity, TypeOK
  <2>. QED
    BY <2>1, <2>2
<1>7. CASE AnnounceToConnections
  BY <1>7, NowType DEF AnnounceToConnections, TypeOK, callbackVars, history, NotAnnounced
<1>8. CASE AnnounceNotDue \/ SendPackets
  BY <1>8 DEF AnnounceNotDue, SendPackets, TypeOK, callbackVars, history
<1>9. ASSUME NEW h \in Handles, SendTargeted(h) \/ SendBroadcast(h)
      PROVE  TypeOK'
  <2>1. PICK p \in Packets : HandOver(p, h) /\ pc' \in MainStates
    BY <1>9 DEF SendTargeted, SendBroadcast, Packets, TypeOK
  <2>2. handed' \in [Packets -> [Handles -> Nat]]
    BY SMT, <2>1 DEF HandOver, TypeOK
  <2>. QED
    BY <2>1, <2>2 DEF HandOver, TypeOK, callbackVars
<1>10. ASSUME NEW h \in Handles, SkipConnection(h)
       PROVE  TypeOK'
  BY <1>10 DEF SkipConnection, TypeOK, callbackVars, history
<1>11. CASE RecordTargeted \/ RecordBroadcast
  BY SMT, <1>11 DEF RecordTargeted, RecordBroadcast, TypeOK, history, NoEntry, StackCopy
<1>12. CASE EndTargeted \/ EndPacket \/ EndBroadcast
  BY <1>12 DEF EndTargeted, EndPacket, EndBroadcast, TypeOK, callbackVars, history, Packets
<1>13. ASSUME NEW p \in Addrs, NextPacket(p)
       PROVE  TypeOK'
  BY <1>13, BeginCases DEF NextPacket, TypeOK, callbackVars, history, Packets
<1>14. CASE CleanupNotDue \/ CleanupLists
  BY <1>14 DEF CleanupNotDue, CleanupLists, TypeOK, callbackVars, history
<1>15. CASE CleanupSent
  BY SMT, <1>15, NowType DEF CleanupSent, TypeOK, Packets
<1>16. CASE CleanupConnections
  <2>1. sent' \subseteq Packets \X (Handles \cup NoEntry)
    BY SMT, <1>16 DEF CleanupConnections, PointerAfter, TypeOK, NoEntry
  <2>2. connections' \in [Handles -> [present : BOOLEAN, connected : BOOLEAN,
                                      characteristic : BOOLEAN, seen : Nat]]
    BY <1>16 DEF CleanupConnections, NoConnection, TypeOK
  <2>. QED
    BY <1>16, <2>1, <2>2 DEF CleanupConnections, TypeOK
<1>17. CASE CleanupStore
  BY SMT, <1>17, BlankType, ModNat, ClockAssumption DEF CleanupStore, TypeOK
<1>18. CASE Tick
  BY SMT, <1>18 DEF Tick, TypeOK, callbackVars, mainVars, history
<1>19. CASE UNCHANGED vars
  BY <1>19 DEF vars, TypeOK, callbackVars, mainVars, history
<1>. QED
  BY <1>1, <1>2, <1>3, <1>4, <1>5, <1>6, <1>7, <1>8, <1>9, <1>10, <1>11, <1>12,
     <1>13, <1>14, <1>15, <1>16, <1>17, <1>18, <1>19
  DEF Next, Callback, Main, AttWrite, Notification

\* The tracker's state and main's locals always have their types.
THEOREM TypeCorrect == Spec => []TypeOK
  BY TypeInit, TypeNext, PTL DEF Spec
\* processWrite either leaves the stores and lists alone or stores one packet in a
\* free node.
LEMMA WriteCases ==
  ASSUME NEW h \in Handles, NEW c, NEW id, NEW ttl, ProcessWrite(h, c, id, ttl)
  PROVE  /\ connections[h].connected
         /\ UNCHANGED <<connections, uptime, mainVars>>
         /\ \/ UNCHANGED <<live, mem, sent, broadcast, handed, from, raced>>
            \/ \E a \in Addrs \ live :
                 StoreAt(a, id, ttl, TsOf[id], {c}, IF c = h THEN h ELSE NoLink)
  BY DEF ProcessWrite, StoreAndBroadcast

\* handlePinActivity either leaves the stores and lists alone or stores one message
\* in a free node.
LEMMA PinCases ==
  ASSUME HandlePinActivity
  PROVE  /\ pc = "pin" /\ pc' = "announce"
         /\ UNCHANGED <<connections, uptime, targeted, announceTs, lastCleanup,
                        todo, toRemove, current, cursor, begin, cleanupNow>>
         /\ \/ UNCHANGED <<live, mem, sent, broadcast, handed, from, raced>>
            \/ \E a \in Addrs \ live, id \in OwnMessages :
                 StoreAt(a, id, OwnTtl, Now, {}, NoLink)
  BY DEF HandlePinActivity, StoreAndBroadcast
----------------------------------------------------------------------------
(* The queue and the records *)

\* sendPackets' locals are in order at the start.
LEMMA PassInit == Init => PassInv
  BY SMT DEF Init, PassInv, InPass, InHand, NoConnection

\* Every step keeps sendPackets' locals in order.
LEMMA PassNext == TypeOK /\ PassInv /\ [Next]_vars => PassInv'
<1>. SUFFICES ASSUME TypeOK, PassInv, [Next]_vars
              PROVE  PassInv'
  OBVIOUS
<1>. USE DEF InPass, InHand
<1>1. ASSUME NEW h \in Handles, NEW id \in Received, NEW ttl \in Ttls,
             NEW c \in {h, StackCopy}, ProcessWrite(h, c, id, ttl)
      PROVE  PassInv'
  BY SMT, <1>1, WriteCases DEF PassInv, StoreAt, mainVars
<1>2. ASSUME NEW h \in Handles, NEW isNeighbour \in BOOLEAN, ReportConnection(h, isNeighbour)
      PROVE  PassInv'
  BY <1>2 DEF ReportConnection, PassInv, TypeOK, mainVars
<1>3. ASSUME NEW h \in Handles, LearnCharacteristic(h) \/ ReportDisconnection(h)
      PROVE  PassInv'
  <2>1. CASE LearnCharacteristic(h)
    BY <2>1 DEF LearnCharacteristic, PassInv, TypeOK, mainVars
  <2>2. CASE ReportDisconnection(h)
    BY <2>2 DEF ReportDisconnection, PassInv, TypeOK, mainVars
  <2>. QED
    BY <1>3, <2>1, <2>2
<1>4. CASE GpioFall \/ Tick \/ UNCHANGED vars
  BY <1>4 DEF GpioFall, Tick, vars, PassInv, callbackVars, mainVars
<1>5. CASE HandlePinActivity
  BY <1>5, PinCases DEF PassInv, StoreAt
<1>6. CASE AnnounceToConnections \/ AnnounceNotDue \/ SendPackets
  BY <1>6 DEF AnnounceToConnections, AnnounceNotDue, SendPackets, PassInv, callbackVars
<1>7. ASSUME NEW h \in Handles, SendTargeted(h)
      PROVE  PassInv'
  BY <1>7 DEF SendTargeted, HandOver, PassInv, callbackVars
<1>8. ASSUME NEW h \in Handles, SendBroadcast(h)
      PROVE  PassInv'
  BY <1>8 DEF SendBroadcast, NextAvailable, Available, HandOver, PassInv, callbackVars
<1>9. ASSUME NEW h \in Handles, SkipConnection(h)
      PROVE  PassInv'
  BY <1>9 DEF SkipConnection, PassInv, callbackVars
<1>10. CASE RecordTargeted \/ RecordBroadcast
  BY <1>10 DEF RecordTargeted, RecordBroadcast, PassInv
<1>11. CASE EndTargeted \/ EndPacket \/ EndBroadcast
  BY <1>11, NoHandles DEF EndTargeted, EndPacket, EndBroadcast, PassInv, callbackVars
<1>12. ASSUME NEW p \in Addrs, NextPacket(p)
       PROVE  PassInv'
  <2>1. begin' \in Handles => connections[begin'].present
    BY <1>12, BeginCases, NoHandles DEF NextPacket, PassInv, Available
  <2>. QED
    BY <1>12, <2>1 DEF NextPacket, PassInv, callbackVars
<1>13. CASE CleanupNotDue \/ CleanupSent \/ CleanupLists
  BY <1>13 DEF CleanupNotDue, CleanupSent, CleanupLists, PassInv, callbackVars
<1>14. CASE CleanupConnections
  BY <1>14 DEF CleanupConnections, NoConnection, PassInv, TypeOK
<1>15. CASE CleanupStore
  BY <1>15 DEF CleanupStore, PassInv
<1>. QED
  BY <1>1, <1>2, <1>3, <1>4, <1>5, <1>6, <1>7, <1>8, <1>9, <1>10, <1>11, <1>12,
     <1>13, <1>14, <1>15
  DEF Next, Callback, Main, AttWrite, Notification

\* LiveInv holds initially: nothing is queued.
LEMMA LiveInit == Init => LiveInv
  BY DEF Init, LiveInv, InPass, InCleanup

\* Every step keeps LiveInv; it is the end of a pass that brings the whole list
\* down to what is stored.
LEMMA LiveNext == TypeOK /\ PassInv /\ LiveInv /\ [Next]_vars => LiveInv'
<1>. SUFFICES ASSUME TypeOK, PassInv, LiveInv, [Next]_vars
              PROVE  LiveInv'
  OBVIOUS
<1>. USE DEF InPass, InHand, InCleanup
<1>1. ASSUME NEW h \in Handles, NEW id \in Received, NEW ttl \in Ttls,
             NEW c \in {h, StackCopy}, ProcessWrite(h, c, id, ttl)
      PROVE  LiveInv'
  BY SMT, <1>1, WriteCases DEF LiveInv, StoreAt, mainVars
<1>2. ASSUME NEW h \in Handles, NEW isNeighbour \in BOOLEAN, ReportConnection(h, isNeighbour)
      PROVE  LiveInv'
  BY <1>2 DEF ReportConnection, LiveInv, mainVars
<1>3. ASSUME NEW h \in Handles, LearnCharacteristic(h) \/ ReportDisconnection(h)
      PROVE  LiveInv'
  BY <1>3 DEF LearnCharacteristic, ReportDisconnection, LiveInv, mainVars
<1>4. CASE GpioFall \/ Tick \/ UNCHANGED vars
  BY <1>4 DEF GpioFall, Tick, vars, LiveInv, callbackVars, mainVars
<1>5. CASE HandlePinActivity
  BY <1>5, PinCases DEF LiveInv, StoreAt
<1>6. CASE AnnounceToConnections \/ AnnounceNotDue \/ SendPackets
  BY <1>6 DEF AnnounceToConnections, AnnounceNotDue, SendPackets, LiveInv, callbackVars
<1>7. ASSUME NEW h \in Handles, SendTargeted(h) \/ SendBroadcast(h) \/ SkipConnection(h)
      PROVE  LiveInv'
  BY <1>7 DEF SendTargeted, SendBroadcast, SkipConnection, HandOver, LiveInv, callbackVars
<1>8. CASE RecordTargeted \/ RecordBroadcast
  BY <1>8 DEF RecordTargeted, RecordBroadcast, LiveInv
<1>9. CASE EndTargeted \/ EndPacket \/ EndBroadcast
  BY <1>9 DEF EndTargeted, EndPacket, EndBroadcast, LiveInv, callbackVars
<1>10. ASSUME NEW p \in Addrs, NextPacket(p)
       PROVE  LiveInv'
  BY <1>10 DEF NextPacket, LiveInv, callbackVars
<1>11. CASE CleanupNotDue \/ CleanupSent \/ CleanupLists \/ CleanupConnections
  BY <1>11 DEF CleanupNotDue, CleanupSent, CleanupLists, CleanupConnections, LiveInv, callbackVars
<1>12. CASE CleanupStore
  BY <1>12 DEF CleanupStore, LiveInv
<1>. QED
  BY <1>1, <1>2, <1>3, <1>4, <1>5, <1>6, <1>7, <1>8, <1>9, <1>10, <1>11, <1>12
  DEF Next, Callback, Main, AttWrite, Notification

\* Nothing is queued initially.
LEMMA QueueInit == Init => QueueInv /\ QueueSound
  BY DEF Init, QueueInv, QueueSound, Queued, InHand

\* Every step keeps the queued packets stored and with a hop left: cleanupStaleItems
\* takes a packet off the queue before it erases its node.
LEMMA QueueNext ==
  TypeOK /\ PassInv /\ QueueInv /\ QueueSound /\ [Next]_vars => QueueInv' /\ QueueSound'
<1>. SUFFICES ASSUME TypeOK, PassInv, QueueInv, QueueSound, [Next]_vars
              PROVE  QueueInv' /\ QueueSound'
  OBVIOUS
<1>. USE DEF InPass, InHand, Queued, PacketStale
<1>1. ASSUME NEW h \in Handles, NEW id \in Received, NEW ttl \in Ttls,
             NEW c \in {h, StackCopy}, ProcessWrite(h, c, id, ttl)
      PROVE  QueueInv' /\ QueueSound'
  <2>1. CASE UNCHANGED <<live, mem, sent, broadcast, handed, from, raced>>
    BY <1>1, <2>1, WriteCases DEF QueueInv, QueueSound, mainVars
  <2>2. ASSUME NEW a \in Addrs \ live,
               StoreAt(a, id, ttl, TsOf[id], {c}, IF c = h THEN h ELSE NoLink)
        PROVE  QueueInv' /\ QueueSound'
    BY SMT, <1>1, <2>2, WriteCases, PacketAssumption
    DEF QueueInv, QueueSound, StoreAt, mainVars, TypeOK, PassInv
  <2>. QED
    BY <1>1, <2>1, <2>2, WriteCases
<1>2. ASSUME NEW h \in Handles, NEW isNeighbour \in BOOLEAN, ReportConnection(h, isNeighbour)
      PROVE  QueueInv' /\ QueueSound'
  BY <1>2 DEF ReportConnection, QueueInv, QueueSound, mainVars
<1>3. ASSUME NEW h \in Handles, LearnCharacteristic(h) \/ ReportDisconnection(h)
      PROVE  QueueInv' /\ QueueSound'
  BY <1>3 DEF LearnCharacteristic, ReportDisconnection, QueueInv, QueueSound, mainVars, history
<1>4. CASE GpioFall \/ Tick \/ UNCHANGED vars
  BY <1>4 DEF GpioFall, Tick, vars, QueueInv, QueueSound, callbackVars, mainVars, history
<1>5. CASE HandlePinActivity
  <2>1. CASE UNCHANGED <<live, mem, sent, broadcast, handed, from, raced>>
    BY <1>5, <2>1, PinCases DEF QueueInv, QueueSound
  <2>2. ASSUME NEW a \in Addrs \ live, NEW id, StoreAt(a, id, OwnTtl, Now, {}, NoLink)
        PROVE  QueueInv' /\ QueueSound'
    BY SMT, <1>5, <2>2, PinCases, PacketAssumption
    DEF QueueInv, QueueSound, StoreAt, TypeOK, PassInv
  <2>. QED
    BY <1>5, <2>1, <2>2, PinCases
<1>6. CASE AnnounceToConnections \/ AnnounceNotDue \/ SendPackets
  BY <1>6
  DEF AnnounceToConnections, AnnounceNotDue, SendPackets, QueueInv, QueueSound,
      callbackVars, history
<1>7. ASSUME NEW h \in Handles, SendTargeted(h) \/ SendBroadcast(h) \/ SkipConnection(h)
      PROVE  QueueInv' /\ QueueSound'
  BY <1>7
  DEF SendTargeted, SendBroadcast, SkipConnection, HandOver, QueueInv, QueueSound,
      callbackVars, history
<1>8. CASE RecordTargeted \/ RecordBroadcast
  BY <1>8 DEF RecordTargeted, RecordBroadcast, QueueInv, QueueSound, history
<1>9. CASE EndTargeted \/ EndPacket \/ EndBroadcast
  BY <1>9 DEF EndTargeted, EndPacket, EndBroadcast, QueueInv, QueueSound, callbackVars, history
<1>10. ASSUME NEW p \in Addrs, NextPacket(p)
       PROVE  QueueInv' /\ QueueSound'
  BY <1>10 DEF NextPacket, QueueInv, QueueSound, callbackVars, history
<1>11. CASE CleanupNotDue \/ CleanupSent
  BY <1>11 DEF CleanupNotDue, CleanupSent, QueueInv, QueueSound, callbackVars, history
<1>12. CASE CleanupLists \/ CleanupConnections
  BY <1>12 DEF CleanupLists, CleanupConnections, QueueInv, QueueSound, PassInv, history
<1>13. CASE CleanupStore
  BY <1>13 DEF CleanupStore, QueueInv, QueueSound, PassInv, TypeOK
<1>. QED
  BY <1>1, <1>2, <1>3, <1>4, <1>5, <1>6, <1>7, <1>8, <1>9, <1>10, <1>11, <1>12, <1>13
  DEF Next, Callback, Main, AttWrite, Notification

\* Nothing is recorded or targeted initially.
LEMMA RecordsInit == Init => RecordsInv /\ RecordsSound
  BY DEF Init, RecordsInv, RecordsSound

\* Every step keeps records and targeted entries pointing at present connections:
\* cleanupStaleItems drops them before it erases the connection.
LEMMA RecordsNext ==
  TypeOK /\ PassInv /\ RecordsInv /\ RecordsSound /\ [Next]_vars => RecordsInv' /\ RecordsSound'
<1>. SUFFICES ASSUME TypeOK, PassInv, RecordsInv, RecordsSound, [Next]_vars
              PROVE  RecordsInv' /\ RecordsSound'
  OBVIOUS
<1>. USE DEF ConnectionStale
<1>0. StackCopy # Erased /\ StackCopy \notin Handles /\ Erased \notin Handles
  BY SMT, HandlesAssumption DEF StackCopy, Erased
<1>1. ASSUME NEW h \in Handles, NEW id \in Received, NEW ttl \in Ttls,
             NEW c \in {h, StackCopy}, ProcessWrite(h, c, id, ttl)
      PROVE  RecordsInv' /\ RecordsSound'
  <2>1. /\ \A r \in sent' : r \in sent \/ r[2] = c
        /\ raced' = FALSE => raced = FALSE
        /\ connections[h].connected
        /\ UNCHANGED <<connections, mainVars>>
    BY SMT, <1>1, WriteCases DEF StoreAt, TypeOK
  <2>. QED
    BY SMT, <1>0, <2>1 DEF RecordsInv, RecordsSound, mainVars, TypeOK
<1>2. ASSUME NEW h \in Handles, NEW isNeighbour \in BOOLEAN, ReportConnection(h, isNeighbour)
      PROVE  RecordsInv' /\ RecordsSound'
  BY <1>2 DEF ReportConnection, RecordsInv, RecordsSound, mainVars, TypeOK
<1>3. ASSUME NEW h \in Handles, LearnCharacteristic(h)
      PROVE  RecordsInv' /\ RecordsSound'
  BY <1>3 DEF LearnCharacteristic, RecordsInv, RecordsSound, mainVars, history, TypeOK
<1>4. ASSUME NEW h \in Handles, ReportDisconnection(h)
      PROVE  RecordsInv' /\ RecordsSound'
  BY <1>4 DEF ReportDisconnection, RecordsInv, RecordsSound, mainVars, TypeOK
<1>5. CASE GpioFall \/ Tick \/ UNCHANGED vars
  BY <1>5 DEF GpioFall, Tick, vars, RecordsInv, RecordsSound, callbackVars, mainVars, history
<1>6. CASE HandlePinActivity
  <2>1. /\ sent' = sent
        /\ raced' = FALSE => raced = FALSE
        /\ pc' = "announce"
        /\ UNCHANGED <<connections, targeted>>
    BY <1>6, PinCases DEF StoreAt, TypeOK
  <2>. QED
    BY SMT, <2>1 DEF RecordsInv, RecordsSound, TypeOK
<1>7. CASE AnnounceToConnections
  BY <1>7
  DEF AnnounceToConnections, NotAnnounced, Available, PassInv, RecordsInv, RecordsSound,
      callbackVars, history
<1>8. CASE AnnounceNotDue \/ SendPackets
  BY <1>8 DEF AnnounceNotDue, SendPackets, RecordsInv, RecordsSound, callbackVars, history
<1>9. ASSUME NEW h \in Handles, SendTargeted(h) \/ SendBroadcast(h) \/ SkipConnection(h)
      PROVE  RecordsInv' /\ RecordsSound'
  BY <1>9
  DEF SendTargeted, SendBroadcast, SkipConnection, HandOver, RecordsInv, RecordsSound,
      callbackVars, history
<1>10. CASE RecordTargeted \/ RecordBroadcast
  BY SMT, <1>0, <1>10
  DEF RecordTargeted, RecordBroadcast, RecordsInv, RecordsSound, PassInv, TypeOK, history
<1>11. CASE EndTargeted \/ EndPacket \/ EndBroadcast
  BY <1>11 DEF EndTargeted, EndPacket, EndBroadcast, RecordsInv, RecordsSound, callbackVars, history
<1>12. ASSUME NEW p \in Addrs, NextPacket(p)
       PROVE  RecordsInv' /\ RecordsSound'
  BY <1>12 DEF NextPacket, RecordsInv, RecordsSound, callbackVars, history
<1>13. CASE CleanupNotDue
  BY <1>13 DEF CleanupNotDue, RecordsInv, RecordsSound, callbackVars, history
<1>14. CASE CleanupSent
  BY <1>14 DEF CleanupSent, RecordStale, RecordsInv, RecordsSound
<1>15. CASE CleanupLists
  BY <1>15 DEF CleanupLists, RecordStale, RecordsInv, RecordsSound, TypeOK, history
<1>16. CASE CleanupConnections
  BY SMT, <1>0, <1>16
  DEF CleanupConnections, PointerAfter, NoConnection, RecordsInv, RecordsSound, TypeOK
<1>17. CASE CleanupStore
  BY <1>17 DEF CleanupStore, RecordsInv, RecordsSound
<1>. QED
  BY <1>1, <1>2, <1>3, <1>4, <1>5, <1>6, <1>7, <1>8, <1>9, <1>10, <1>11, <1>12,
     <1>13, <1>14, <1>15, <1>16, <1>17
  DEF Next, Callback, Main, AttWrite, Notification

----------------------------------------------------------------------------
(* No echo *)

\* Dividing a timestamp does not make it later.
LEMMA DivLe == ASSUME NEW x \in Nat, NEW k \in Nat \ {0} PROVE x \div k \in Nat /\ x \div k <= x
  BY SMT

\* No packet has come from a link initially.
LEMMA SenderInit == Init => SenderInv /\ NoEcho
  BY HandlesAssumption DEF Init, SenderInv, NoEcho, NoLink, Packets

\* Every step keeps a queued packet's record of the link it came from, so the walk
\* over the records always finds it.
LEMMA SenderNext ==
  TypeOK /\ PassInv /\ LiveInv /\ SenderInv /\ NoEcho /\ [Next]_vars => SenderInv' /\ NoEcho'
<1>. SUFFICES ASSUME TypeOK, PassInv, LiveInv, SenderInv, NoEcho, [Next]_vars
              PROVE  SenderInv' /\ NoEcho'
  OBVIOUS
<1>0. \A h \in Handles : h # NoLink /\ h \notin NoEntry
  BY SMT, HandlesAssumption DEF NoLink, NoEntry, StackCopy, Erased
<1>00. \A a \in Addrs : a # Announce /\ a \in Packets
  BY AddrsAssumption DEF Announce, Packets
<1>1. ASSUME NEW h \in Handles, NEW id \in Received, NEW ttl \in Ttls,
             NEW c \in {h, StackCopy}, ProcessWrite(h, c, id, ttl)
      PROVE  SenderInv' /\ NoEcho'
  <2>1. CASE UNCHANGED <<live, mem, sent, broadcast, handed, from, raced>>
    BY <1>1, <2>1, WriteCases DEF SenderInv, NoEcho, PacketStale, mainVars
  <2>2. ASSUME NEW a \in Addrs \ live,
               StoreAt(a, id, ttl, TsOf[id], {c}, IF c = h THEN h ELSE NoLink)
        PROVE  SenderInv' /\ NoEcho'
    <3>0. PICK origin \in {h, NoLink} :
            StoreAt(a, id, ttl, TsOf[id], {c}, origin) /\ (origin = h => c = h)
      <4>1. CASE c = h
        BY <2>2, <4>1
      <4>2. CASE c # h
        BY <2>2, <4>2, <1>0
      <4>. QED
        BY <4>1, <4>2
    <3>1. NoEcho'
      BY <3>0, <1>00 DEF NoEcho, StoreAt, TypeOK
    <3>2. SenderInv'
      <4>1. SUFFICES ASSUME NEW b \in broadcast', NEW g \in Handles,
                            from'[b] = g, connections'[g].connected \/ begin' = g
                     PROVE  \/ <<b, g>> \in sent'
                            \/ pc' = "cleanupLists" /\ PacketStale(b, cleanupNow)'
        BY DEF SenderInv
      <4>2. CASE b = a
        BY <3>0, <4>1, <4>2, <1>0 DEF StoreAt, TypeOK
      <4>3. CASE b # a
        BY SMT, <1>1, <3>0, <4>1, <4>3, WriteCases
        DEF StoreAt, TypeOK, SenderInv, PacketStale, mainVars
      <4>. QED
        BY <4>2, <4>3
    <3>. QED
      BY <3>1, <3>2
  <2>. QED
    BY <1>1, <2>1, <2>2, WriteCases
<1>2. ASSUME NEW h \in Handles, NEW isNeighbour \in BOOLEAN, ReportConnection(h, isNeighbour)
      PROVE  SenderInv' /\ NoEcho'
  <2>1. NoEcho'
    BY <1>2, <1>0, <1>00 DEF ReportConnection, NoEcho, TypeOK
  <2>2. SenderInv'
    BY <1>2, <1>0 DEF ReportConnection, SenderInv, TypeOK, mainVars, PacketStale
  <2>. QED
    BY <2>1, <2>2
<1>3. ASSUME NEW h \in Handles, LearnCharacteristic(h)
      PROVE  SenderInv' /\ NoEcho'
  BY <1>3 DEF LearnCharacteristic, SenderInv, NoEcho, TypeOK, mainVars, history, PacketStale
<1>4. ASSUME NEW h \in Handles, ReportDisconnection(h)
      PROVE  SenderInv' /\ NoEcho'
  BY <1>4, <1>00
  DEF ReportDisconnection, AnnouncedToConnection, SenderInv, NoEcho, TypeOK, mainVars, PacketStale
<1>5. CASE GpioFall \/ Tick \/ UNCHANGED vars
  BY <1>5
  DEF GpioFall, Tick, vars, SenderInv, NoEcho, callbackVars, mainVars, history, PacketStale
<1>6. CASE HandlePinActivity
  <2>1. CASE UNCHANGED <<live, mem, sent, broadcast, handed, from, raced>>
    BY <1>6, <2>1, PinCases DEF SenderInv, NoEcho, PacketStale
  <2>2. ASSUME NEW a \in Addrs \ live, NEW id, StoreAt(a, id, OwnTtl, Now, {}, NoLink)
        PROVE  SenderInv' /\ NoEcho'
    <3>1. /\ from' = [from EXCEPT ![a] = NoLink]
          /\ \A b \in Addrs : b # a => handed'[b] = handed[b]
          /\ broadcast' \subseteq broadcast \cup {a} /\ sent' = sent
          /\ pc = "pin" /\ connections' = connections /\ begin' = begin
      <4>1. pc = "pin" /\ connections' = connections /\ begin' = begin
        BY <1>6, PinCases
      <4>. QED
        BY <2>2, <4>1 DEF StoreAt, TypeOK, Packets
    <3>2. from'[a] = NoLink /\ \A b \in Addrs : b # a => from'[b] = from[b]
      BY <3>1, <1>00 DEF TypeOK
    <3>3. NoEcho'
      <4>1. SUFFICES ASSUME NEW b \in Addrs, NEW g \in Handles, from'[b] = g
                     PROVE  handed'[b][g] = 0
        BY DEF NoEcho
      <4>2. b # a
        BY <3>2, <4>1, <1>0
      <4>. QED
        BY SMT, <3>1, <3>2, <4>1, <4>2 DEF NoEcho
    <3>4. SenderInv'
      <4>1. SUFFICES ASSUME NEW b \in broadcast', NEW g \in Handles,
                            from'[b] = g, connections'[g].connected \/ begin' = g
                     PROVE  <<b, g>> \in sent'
        BY DEF SenderInv
      <4>2. b # a
        BY <3>2, <4>1, <1>0
      <4>3. b \in broadcast /\ b \in Addrs
        BY <3>1, <4>1, <4>2, <1>00 DEF TypeOK
      <4>. QED
        BY <3>1, <3>2, <4>1, <4>2, <4>3 DEF SenderInv
    <3>. QED
      BY <3>3, <3>4
  <2>. QED
    BY <1>6, <2>1, <2>2, PinCases
<1>7. CASE AnnounceToConnections \/ AnnounceNotDue \/ SendPackets
  BY <1>7
  DEF AnnounceToConnections, AnnounceNotDue, SendPackets, SenderInv, NoEcho, callbackVars, history
<1>8. ASSUME NEW h \in Handles, SendTargeted(h)
      PROVE  SenderInv' /\ NoEcho'
  <2>1. NoEcho'
    BY <1>8, <1>00 DEF SendTargeted, HandOver, NoEcho, TypeOK
  <2>. QED
    BY <1>8, <2>1 DEF SendTargeted, HandOver, SenderInv, callbackVars
<1>9. ASSUME NEW h \in Handles, SendBroadcast(h)
      PROVE  SenderInv' /\ NoEcho'
  <2>0. current \in broadcast
    BY <1>9 DEF SendBroadcast, PassInv, InHand
  <2>1. current \in broadcast /\ current \in Nat
    BY <2>0, AddrsAssumption DEF TypeOK
  <2>2. from[current] # h
    <3>1. SUFFICES ASSUME from[current] = h
                   PROVE  Blocked(current, h)
      BY <1>9 DEF SendBroadcast
    <3>2. <<current, h>> \in sent
      BY <1>9, <2>1, <3>1 DEF SendBroadcast, NextAvailable, Available, SenderInv
    <3>3. <<current, h>> \in Walked(current)
      BY SMT, <2>1, <3>2 DEF Walked
    <3>. QED
      BY <3>3 DEF Blocked
  <2>3. NoEcho'
    BY <1>9, <2>2, <1>00 DEF SendBroadcast, HandOver, NoEcho, TypeOK
  <2>. QED
    BY <1>9, <2>3 DEF SendBroadcast, HandOver, SenderInv, callbackVars
<1>10. ASSUME NEW h \in Handles, SkipConnection(h)
       PROVE  SenderInv' /\ NoEcho'
  BY <1>10 DEF SkipConnection, SenderInv, NoEcho, callbackVars, history, PacketStale
<1>11. CASE RecordTargeted \/ RecordBroadcast
  BY <1>11 DEF RecordTargeted, RecordBroadcast, SenderInv, NoEcho, history
<1>12. CASE EndTargeted \/ EndPacket \/ EndBroadcast
  BY <1>12, NoHandles
  DEF EndTargeted, EndPacket, EndBroadcast, SenderInv, NoEcho, callbackVars, history
<1>13. ASSUME NEW p \in Addrs, NextPacket(p)
       PROVE  SenderInv' /\ NoEcho'
  <2>1. \A h \in Handles : begin' = h => connections[h].connected \/ begin = h
    BY <1>13, BeginCases, NoHandles DEF NextPacket, Available
  <2>. QED
    BY <1>13, <2>1 DEF NextPacket, SenderInv, NoEcho, callbackVars, history
<1>14. CASE CleanupNotDue
  BY <1>14 DEF CleanupNotDue, SenderInv, NoEcho, callbackVars, history
<1>15. CASE CleanupSent
  <2>1. NoEcho'
    BY <1>15, <1>00 DEF CleanupSent, NoEcho, TypeOK
  <2>2. SenderInv'
    <3>0. \A h \in Handles : begin # h
      BY <1>15, NoHandles DEF CleanupSent, PassInv, InPass
    <3>1. SUFFICES ASSUME NEW a \in broadcast, NEW h \in Handles, <<a, h>> \in sent,
                          connections[h].connected, <<a, h>> \notin sent'
                   PROVE  PacketStale(a, Now)
      BY <1>15, <3>0 DEF CleanupSent, SenderInv, PacketStale
    <3>2. ~Dangling(<<a, h>>)
      BY <1>15, <1>0, <3>1 DEF CleanupSent, LiveInv, InCleanup, Dangling
    <3>3. RecordStale(<<a, h>>, Now)
      BY <1>15, <3>1, <3>2 DEF CleanupSent
    <3>4. mem[a].ts + TenMinutes < Now
      BY <1>00, <3>1, <3>3 DEF RecordStale, ConnectionStale, Timestamp, TypeOK
    <3>5. mem[a].ts \in Nat
      BY <3>1 DEF TypeOK, Contents
    <3>6. TimestampMs(mem[a].ts) \in Nat /\ TimestampMs(mem[a].ts) <= mem[a].ts
      BY <3>5, DivLe, ClockAssumption DEF TimestampMs
    <3>. QED
      BY SMT, <3>4, <3>5, <3>6, NowType, ClockAssumption DEF PacketStale
  <2>. QED
    BY <2>1, <2>2
<1>16. CASE CleanupLists
  BY <1>16 DEF CleanupLists, SenderInv, NoEcho, history
<1>17. CASE CleanupConnections
  <2>1. NoEcho'
    BY <1>17, <1>00 DEF CleanupConnections, NoEcho, TypeOK
  <2>2. SenderInv'
    <3>1. SUFFICES ASSUME NEW a \in broadcast, NEW h \in Handles,
                          from[a] = h, connections'[h].connected
                   PROVE  <<a, h>> \in sent'
      BY <1>17, NoHandles DEF CleanupConnections, SenderInv, PassInv, InPass
    <3>2. connections[h].connected /\ ~ConnectionStale(h, cleanupNow)
      BY <1>17, <3>1 DEF CleanupConnections, NoConnection, TypeOK
    <3>3. <<a, h>> \in sent
      BY <1>17, <3>1, <3>2 DEF CleanupConnections, SenderInv
    <3>. QED
      BY SMT, <1>17, <3>2, <3>3 DEF CleanupConnections, PointerAfter
  <2>. QED
    BY <2>1, <2>2
<1>18. CASE CleanupStore
  <2>1. NoEcho'
    BY <1>18, <1>0, <1>00 DEF CleanupStore, NoEcho, TypeOK
  <2>2. SenderInv'
    BY <1>18, <1>0 DEF CleanupStore, SenderInv, TypeOK
  <2>. QED
    BY <2>1, <2>2
<1>. QED
  BY <1>1, <1>2, <1>3, <1>4, <1>5, <1>6, <1>7, <1>8, <1>9, <1>10, <1>11, <1>12,
     <1>13, <1>14, <1>15, <1>16, <1>17, <1>18
  DEF Next, Callback, Main, AttWrite, Notification
----------------------------------------------------------------------------
(* At most once *)

\* Nothing was handed to a link initially.
LEMMA HandedInit == Init => HandedInv /\ AnnouncedInv /\ AtMostOnce
  BY SMT DEF Init, HandedInv, AnnouncedInv, AtMostOnce, Packets

\* A step that hands nothing over and keeps the pass's locals keeps HandedInv and
\* AtMostOnce.
LEMMA HandedKept ==
  ASSUME TypeOK, TypeOK', HandedInv, AtMostOnce,
         \A p \in Packets, g \in Handles : handed'[p][g] = 0 \/ handed'[p][g] = handed[p][g],
         \A a \in broadcast', g \in Handles : a \in broadcast \/ handed'[a][g] = 0,
         toRemove' = toRemove, cursor' = cursor, InHand' = InHand
  PROVE  HandedInv' /\ AtMostOnce'
<1>1. /\ handed \in [Packets -> [Handles -> Nat]]
      /\ handed' \in [Packets -> [Handles -> Nat]]
      /\ broadcast' \subseteq Packets
  BY DEF TypeOK, Packets
<1>2. HandedInv'
  BY SMT, <1>1 DEF HandedInv
<1>3. AtMostOnce'
  BY SMT, <1>1 DEF AtMostOnce
<1>. QED
  BY <1>2, <1>3

\* Every step keeps each packet handed at most once to a link: the pass visits each
\* queued packet once and each connection in ascending order of handles.
LEMMA HandedNext ==
  TypeOK /\ TypeOK' /\ PassInv /\ HandedInv /\ AnnouncedInv /\ AtMostOnce /\ [Next]_vars
    => HandedInv' /\ AnnouncedInv' /\ AtMostOnce'
<1>. SUFFICES ASSUME TypeOK, TypeOK', PassInv, HandedInv, AnnouncedInv, AtMostOnce, [Next]_vars
              PROVE  HandedInv' /\ AnnouncedInv' /\ AtMostOnce'
  OBVIOUS
<1>0. \A h \in Handles : h \in Nat /\ h # StackCopy
  BY HandlesAssumption DEF StackCopy
<1>00. Announce \in Packets /\ \A a \in Addrs : a # Announce /\ a \in Packets
  BY AddrsAssumption DEF Announce, Packets
<1>1. ASSUME NEW h \in Handles, NEW id \in Received, NEW ttl \in Ttls,
             NEW c \in {h, StackCopy}, ProcessWrite(h, c, id, ttl)
      PROVE  HandedInv' /\ AnnouncedInv' /\ AtMostOnce'
  <2>1. CASE UNCHANGED <<live, mem, sent, broadcast, handed, from, raced>>
    BY <1>1, <2>1, WriteCases DEF HandedInv, AnnouncedInv, AtMostOnce, InHand, RecordedFor, mainVars
  <2>2. ASSUME NEW a \in Addrs \ live,
               StoreAt(a, id, ttl, TsOf[id], {c}, IF c = h THEN h ELSE NoLink)
        PROVE  HandedInv' /\ AnnouncedInv' /\ AtMostOnce'
    <3>1. /\ sent \subseteq sent' /\ broadcast' \subseteq broadcast \cup {a}
          /\ \A p \in Packets, g \in Handles :
               handed'[p][g] = IF p = a THEN 0 ELSE handed[p][g]
      BY <2>2, <1>00 DEF StoreAt, TypeOK
    <3>0. toRemove' = toRemove /\ cursor' = cursor /\ pc' = pc /\ InHand' = InHand
      BY <1>1, WriteCases DEF mainVars, InHand
    <3>2. HandedInv' /\ AtMostOnce'
      BY <3>0, <3>1, <1>00, HandedKept DEF TypeOK
    <3>3. AnnouncedInv'
      BY <3>0, <3>1, <1>00 DEF AnnouncedInv, RecordedFor
    <3>. QED
      BY <3>2, <3>3
  <2>. QED
    BY <1>1, <2>1, <2>2, WriteCases
<1>2. ASSUME NEW h \in Handles, NEW isNeighbour \in BOOLEAN, ReportConnection(h, isNeighbour)
      PROVE  HandedInv' /\ AnnouncedInv' /\ AtMostOnce'
  <2>1. /\ \A p \in Packets, g \in Handles :
             handed'[p][g] = IF g = h THEN 0 ELSE handed[p][g]
        /\ sent' = sent /\ broadcast' = broadcast
        /\ toRemove' = toRemove /\ cursor' = cursor /\ pc' = pc /\ InHand' = InHand
    BY <1>2 DEF ReportConnection, TypeOK, mainVars, InHand
  <2>2. HandedInv' /\ AtMostOnce'
    BY <2>1, HandedKept
  <2>3. AnnouncedInv'
    BY SMT, <2>1, <1>00 DEF AnnouncedInv, RecordedFor
  <2>. QED
    BY <2>2, <2>3
<1>3. ASSUME NEW h \in Handles, LearnCharacteristic(h)
      PROVE  HandedInv' /\ AnnouncedInv' /\ AtMostOnce'
  BY <1>3 DEF LearnCharacteristic, HandedInv, AnnouncedInv, AtMostOnce, InHand, RecordedFor, mainVars, history
<1>4. ASSUME NEW h \in Handles, ReportDisconnection(h)
      PROVE  HandedInv' /\ AnnouncedInv' /\ AtMostOnce'
  BY <1>4, <1>0
  DEF ReportDisconnection, AnnouncedToConnection, HandedInv, AnnouncedInv, AtMostOnce, InHand,
      RecordedFor, mainVars
<1>5. CASE GpioFall \/ Tick \/ UNCHANGED vars
  BY <1>5
  DEF GpioFall, Tick, vars, HandedInv, AnnouncedInv, AtMostOnce, InHand, RecordedFor, callbackVars,
      mainVars, history
<1>6. CASE HandlePinActivity
  <2>1. CASE UNCHANGED <<live, mem, sent, broadcast, handed, from, raced>>
    BY <1>6, <2>1, PinCases DEF HandedInv, AnnouncedInv, AtMostOnce, InHand, RecordedFor
  <2>2. ASSUME NEW a \in Addrs \ live, NEW id, StoreAt(a, id, OwnTtl, Now, {}, NoLink)
        PROVE  HandedInv' /\ AnnouncedInv' /\ AtMostOnce'
    <3>1. /\ sent \subseteq sent' /\ broadcast' \subseteq broadcast \cup {a}
          /\ \A p \in Packets, g \in Handles :
               handed'[p][g] = IF p = a THEN 0 ELSE handed[p][g]
          /\ pc = "pin" /\ InHand' = InHand
          /\ toRemove' = toRemove /\ cursor' = cursor
      BY <1>6, <2>2, PinCases DEF StoreAt, TypeOK, InHand
    <3>2. HandedInv' /\ AtMostOnce'
      BY <3>1, <1>00, HandedKept DEF TypeOK
    <3>3. AnnouncedInv'
      BY <3>1, <1>00 DEF AnnouncedInv, RecordedFor
    <3>. QED
      BY <3>2, <3>3
  <2>. QED
    BY <1>6, <2>1, <2>2, PinCases
<1>7. CASE AnnounceToConnections \/ AnnounceNotDue \/ SendPackets
  BY <1>7
  DEF AnnounceToConnections, AnnounceNotDue, SendPackets, HandedInv, AnnouncedInv, AtMostOnce,
      InHand, RecordedFor, callbackVars, history
<1>8. ASSUME NEW h \in Handles, SendTargeted(h)
      PROVE  HandedInv' /\ AnnouncedInv' /\ AtMostOnce'
  <2>1. handed[Announce][h] = 0
    BY SMT, <1>8, <1>00 DEF SendTargeted, AnnouncedInv, RecordedFor, TypeOK
  <2>2. /\ \A p \in Packets, g \in Handles :
             handed'[p][g] = IF p = Announce /\ g = h THEN 1 ELSE handed[p][g]
        /\ pc = "targeted" /\ pc' = "targetedSent" /\ cursor' = h
        /\ sent' = sent /\ broadcast' = broadcast /\ toRemove' = toRemove
        /\ InHand = {}
    BY SMT, <1>8, <1>00, <2>1 DEF SendTargeted, HandOver, TypeOK, callbackVars, InHand
  <2>3. HandedInv'
    BY <2>2, <1>00 DEF HandedInv, TypeOK
  <2>4. AnnouncedInv'
    BY <2>2, <1>00 DEF AnnouncedInv, RecordedFor
  <2>5. AtMostOnce'
    <3>1. SUFFICES ASSUME NEW p \in Packets, NEW g \in Handles
                   PROVE  handed'[p][g] <= 1
      BY DEF AtMostOnce
    <3>2. handed[p][g] <= 1
      BY <3>1 DEF AtMostOnce
    <3>3. handed'[p][g] = 1 \/ handed'[p][g] = handed[p][g]
      BY <2>2, <3>1
    <3>. QED
      BY SMT, <3>2, <3>3
  <2>. QED
    BY <2>3, <2>4, <2>5
<1>9. ASSUME NEW h \in Handles, SendBroadcast(h)
      PROVE  HandedInv' /\ AnnouncedInv' /\ AtMostOnce'
  <2>1. current \in broadcast /\ current \in Addrs /\ current \notin toRemove
    BY <1>9 DEF SendBroadcast, PassInv, InHand, TypeOK
  <2>2. cursor < h /\ cursor \in Nat
    BY SMT, <1>9, HandlesAssumption DEF SendBroadcast, NextAvailable, TypeOK
  <2>3. handed[current][h] = 0
    BY SMT, <1>9, <1>0, <1>00, <2>1, <2>2 DEF SendBroadcast, HandedInv, InHand, TypeOK
  <2>4. /\ \A p \in Packets, g \in Handles :
             handed'[p][g] = IF p = current /\ g = h THEN 1 ELSE handed[p][g]
        /\ pc = "broadcast" /\ pc' = "broadcastSent" /\ current' = current /\ cursor' = h
        /\ UNCHANGED <<sent, broadcast, toRemove>>
    BY SMT, <1>9, <1>00, <2>1, <2>3 DEF SendBroadcast, HandOver, TypeOK, callbackVars
  <2>5. HandedInv'
    BY SMT, <2>1, <2>2, <2>4, <1>0, <1>00 DEF HandedInv, InHand, TypeOK
  <2>6. AnnouncedInv'
    <3>1. \A g \in Handles : handed'[Announce][g] = handed[Announce][g]
      BY <2>1, <2>4, <1>00
    <3>. QED
      BY <2>4, <3>1 DEF AnnouncedInv, RecordedFor
  <2>7. AtMostOnce'
    BY SMT, <2>4 DEF AtMostOnce
  <2>. QED
    BY <2>5, <2>6, <2>7
<1>10. ASSUME NEW h \in Handles, SkipConnection(h)
       PROVE  HandedInv' /\ AnnouncedInv' /\ AtMostOnce'
  <2>1. cursor < h /\ cursor \in Nat
    BY SMT, <1>10, HandlesAssumption DEF SkipConnection, NextAvailable, TypeOK
  <2>2. /\ cursor' = h /\ pc' = pc
        /\ UNCHANGED <<sent, broadcast, handed, toRemove, current>>
    BY <1>10 DEF SkipConnection, callbackVars, history
  <2>3. HandedInv'
    <3>1. SUFFICES ASSUME NEW b \in broadcast, NEW g \in Handles, handed[b][g] > 0
                   PROVE  b \in toRemove \/ (b \in InHand /\ g <= h)
      BY <2>2 DEF HandedInv, InHand
    <3>2. b \in toRemove \/ (b \in InHand /\ g <= cursor)
      BY <3>1 DEF HandedInv
    <3>. QED
      BY SMT, <3>2, <2>1, <1>0
  <2>4. AnnouncedInv' /\ AtMostOnce'
    BY <1>10, <2>2 DEF SkipConnection, AnnouncedInv, AtMostOnce, RecordedFor
  <2>. QED
    BY <2>3, <2>4
<1>11. CASE RecordTargeted
  BY <1>11 DEF RecordTargeted, PassInv, HandedInv, AnnouncedInv, AtMostOnce, InHand, RecordedFor, history
<1>12. CASE RecordBroadcast
  BY <1>12 DEF RecordBroadcast, HandedInv, AnnouncedInv, AtMostOnce, InHand, RecordedFor, history
<1>13. CASE EndTargeted
  BY <1>13, <1>00
  DEF EndTargeted, PassInv, InPass, HandedInv, AnnouncedInv, AtMostOnce, InHand, RecordedFor,
      TypeOK, callbackVars, history
<1>14. CASE EndPacket \/ EndBroadcast
  BY <1>14
  DEF EndPacket, EndBroadcast, HandedInv, AnnouncedInv, AtMostOnce, InHand, RecordedFor, callbackVars, history
<1>15. ASSUME NEW p \in Addrs, NextPacket(p)
       PROVE  HandedInv' /\ AnnouncedInv' /\ AtMostOnce'
  BY <1>15
  DEF NextPacket, PassInv, HandedInv, AnnouncedInv, AtMostOnce, InHand, RecordedFor, callbackVars,
      history
<1>16. CASE CleanupNotDue \/ CleanupLists
  BY <1>16
  DEF CleanupNotDue, CleanupLists, HandedInv, AnnouncedInv, AtMostOnce, InHand, RecordedFor,
      callbackVars, history
<1>17. CASE CleanupSent
  <2>1. /\ \A p \in Packets, g \in Handles : handed'[p][g] = 0 \/ handed'[p][g] = handed[p][g]
        /\ \A g \in Handles : handed'[Announce][g] > 0 /\ RecordedFor(Announce, g)
                                => <<Announce, g>> \in sent'
        /\ pc = "cleanup" /\ InHand' = InHand
        /\ broadcast' = broadcast /\ toRemove' = toRemove /\ cursor' = cursor
    BY SMT, <1>17, <1>00 DEF CleanupSent, TypeOK, InHand, RecordedFor
  <2>2. HandedInv' /\ AtMostOnce'
    BY <2>1, HandedKept
  <2>3. AnnouncedInv'
    <3>1. \A g \in Handles : handed[Announce][g] \in Nat /\ handed'[Announce][g] \in Nat
      BY SMT, <1>00 DEF TypeOK
    <3>. QED
      BY SMT, <2>1, <3>1, <1>00 DEF AnnouncedInv, RecordedFor
  <2>. QED
    BY <2>2, <2>3
<1>18. CASE CleanupConnections
  <2>1. /\ \A p \in Packets, g \in Handles :
             handed'[p][g] = IF ConnectionStale(g, cleanupNow) THEN 0 ELSE handed[p][g]
        /\ pc = "cleanupConnections" /\ InHand' = InHand
        /\ broadcast' = broadcast /\ toRemove' = toRemove /\ cursor' = cursor
    BY <1>18 DEF CleanupConnections, InHand
  <2>0. ASSUME NEW g \in Handles, RecordedFor(Announce, g), ~ConnectionStale(g, cleanupNow)
        PROVE  <<Announce, g>> \in sent'
    BY SMT, <1>18, <2>0 DEF CleanupConnections, PointerAfter, RecordedFor
  <2>2. HandedInv' /\ AtMostOnce'
    BY <2>1, HandedKept
  <2>3. AnnouncedInv'
    <3>1. \A g \in Handles : handed[Announce][g] \in Nat /\ handed'[Announce][g] \in Nat
      BY SMT, <1>00 DEF TypeOK
    <3>. QED
      BY SMT, <2>0, <2>1, <3>1, <1>00 DEF AnnouncedInv, RecordedFor
  <2>. QED
    BY <2>2, <2>3
<1>19. CASE CleanupStore
  <2>1. /\ \A p \in Packets, g \in Handles : handed'[p][g] = 0 \/ handed'[p][g] = handed[p][g]
        /\ \A g \in Handles : handed'[Announce][g] = handed[Announce][g]
        /\ pc = "cleanupStore" /\ InHand' = InHand /\ sent' = sent
        /\ broadcast' = broadcast /\ toRemove' = toRemove /\ cursor' = cursor
    BY <1>19, <1>00 DEF CleanupStore, TypeOK, InHand
  <2>2. HandedInv' /\ AtMostOnce'
    BY <2>1, HandedKept
  <2>3. AnnouncedInv'
    BY <2>1, <1>00 DEF AnnouncedInv, RecordedFor
  <2>. QED
    BY <2>2, <2>3
<1>. QED
  BY <1>1, <1>2, <1>3, <1>4, <1>5, <1>6, <1>7, <1>8, <1>9, <1>10, <1>11, <1>12,
     <1>13, <1>14, <1>15, <1>16, <1>17, <1>18, <1>19
  DEF Next, Callback, Main, AttWrite, Notification
----------------------------------------------------------------------------
(* The theorems *)

\* The conjunction of the invariants above holds initially.
LEMMA IInvInit == Init => IInv
  BY TypeInit, PassInit, LiveInit, QueueInit, RecordsInit, SenderInit, HandedInit DEF IInv

\* The conjunction of the invariants above is inductive.
LEMMA IInvNext == IInv /\ [Next]_vars => IInv'
  BY TypeNext, PassNext, LiveNext, QueueNext, RecordsNext, SenderNext, HandedNext DEF IInv

\* The inductive invariant holds in every state main and the callbacks reach.
THEOREM Invariance == Spec => []IInv
  BY IInvInit, IInvNext, PTL DEF Spec

\* Unless a callback raced with cleanupStaleItems, every packet sendPackets will
\* dereference is stored and has a hop left.
THEOREM QueueCorrect == Spec => []QueueSound
<1>1. IInv => QueueSound
  BY DEF IInv
<1>. QED
  BY <1>1, Invariance, PTL

\* Unless a callback raced with cleanupStaleItems, no sent record and no targeted
\* entry points at an erased connection.
THEOREM RecordsCorrect == Spec => []RecordsSound
<1>1. IInv => RecordsSound
  BY DEF IInv
<1>. QED
  BY <1>1, Invariance, PTL

\* sendPackets never hands a packet back to the open link whose write stored it.
THEOREM NoEchoCorrect == Spec => []NoEcho
<1>1. IInv => NoEcho
  BY DEF IInv
<1>. QED
  BY <1>1, Invariance, PTL

\* sendPackets hands a stored packet to a link at most once.
THEOREM AtMostOnceCorrect == Spec => []AtMostOnce
<1>1. IInv => AtMostOnce
  BY DEF IInv
<1>. QED
  BY <1>1, Invariance, PTL

-----------------------------------------------------------------------------
(* The relay implements the repeater *)

\* The relay's stores, as the repeater sees them
Store == {Entry(a) : a \in live}

\* Updating the links a stored packet was handed to.
LEMMA EntryHanded ==
  ASSUME NEW a, NEW links
  PROVE  /\ Entry(a).handed = {h \in Handles : handed[a][h] > 0}
         /\ [Entry(a) EXCEPT !.handed = links]
              = [id |-> mem[a].id, from |-> from[a], handed |-> links]
<1>1. Entry(a).handed = {h \in Handles : handed[a][h] > 0}
  BY DEF Entry
<1>2. [Entry(a) EXCEPT !.handed = links]
        = [id |-> mem[a].id, from |-> from[a], handed |-> links]
  <2>1. ASSUME NEW id, NEW origin, NEW old
        PROVE  [[id |-> id, from |-> origin, handed |-> old] EXCEPT !.handed = links]
                 = [id |-> id, from |-> origin, handed |-> links]
    BY SMT
  <2>2. PICK old : Entry(a) = [id |-> mem[a].id, from |-> from[a], handed |-> old]
    BY DEF Entry
  <2> QED BY SMT, <2>1, <2>2
<1> QED BY <1>1, <1>2

\* A step that leaves the stored packets and their histories alone is no step of
\* the repeater.
LEMMA StoreKept ==
  ASSUME UNCHANGED <<live, mem, from>>, \A a \in live : handed'[a] = handed[a]
  PROVE  Store' = Store
  BY SMT DEF Store, Entry

\* What StoreAt does to the nodes
LEMMA StoreAtNodes ==
  ASSUME TypeOK, NEW a \in Addrs \ live, NEW id, NEW ttl, NEW ts, NEW senders, NEW origin,
         StoreAt(a, id, ttl, ts, senders, origin)
  PROVE  /\ live' = live \cup {a}
         /\ mem'[a].id = id /\ from'[a] = origin /\ \A h \in Handles : handed'[a][h] = 0
         /\ \A b \in live : mem'[b] = mem[b] /\ from'[b] = from[b] /\ handed'[b] = handed[b]
<1>1. a \in DOMAIN handed /\ live \subseteq Packets /\ live \subseteq Addrs
  BY DEF TypeOK, Packets
<1>2. live' = live \cup {a} /\ mem'[a].id = id /\ from'[a] = origin
  BY DEF StoreAt, TypeOK
<1>3. \A h \in Handles : handed'[a][h] = 0
  BY <1>1 DEF StoreAt, TypeOK
<1>4. \A b \in live : mem'[b] = mem[b] /\ from'[b] = from[b] /\ handed'[b] = handed[b]
  BY <1>1 DEF StoreAt, TypeOK
<1> QED BY <1>2, <1>3, <1>4

\* storeMessageAndReturnIfNew and storePacketAndReturnIfNew of a new identity take it
LEMMA StoreTakes ==
  ASSUME TypeOK, NEW a \in Addrs \ live, NEW id \in Identities, ~Stored(id), NEW ttl, NEW ts,
         NEW senders, NEW origin \in Handles \cup {NoLink},
         StoreAt(a, id, ttl, ts, senders, origin)
  PROVE  Abstract!Next
<1>1. Store' = Store \cup {[id |-> id, from |-> origin, handed |-> {}]}
  <2>1. Entry(a)' = [id |-> id, from |-> origin, handed |-> {}]
    <3>1. mem'[a].id = id /\ from'[a] = origin /\ \A h \in Handles : handed'[a][h] = 0
      BY StoreAtNodes
    <3>2. {h \in Handles : handed'[a][h] > 0} = {}
      BY SMT, <3>1
    <3> QED BY <3>1, <3>2 DEF Entry
  <2>2. \A b \in live : Entry(b)' = Entry(b)
    BY StoreAtNodes DEF Entry
  <2>3. Store' = {Entry(b)' : b \in live \cup {a}}
    BY StoreAtNodes DEF Store
  <2> QED BY <2>1, <2>2, <2>3 DEF Store
<1>2. \A e \in Store : e.id # id
  <2>1. \A b \in live : Entry(b).id = mem[b].id
    BY DEF Entry
  <2>2. \A b \in live : mem[b].id # id
    BY DEF Stored
  <2> QED BY <2>1, <2>2 DEF Store
<1>3. Abstract!Take(id, origin)
  BY <1>1, <1>2 DEF Abstract!Take, Abstract!Knows, Abstract!NewEntry, Store
<1> DEFINE new == [id |-> id, from |-> origin, handed |-> {}]
<1>4. new \in Store' /\ new.id = id /\ new.from = origin
  BY <1>1
<1> HIDE DEF new
<1> QED BY <1>3, <1>4 DEF Abstract!Next, Store

\* Every message and packet is stored once: a callback or main stores what is not
\* stored yet.
LEMMA OneEachNext ==
  TypeOK /\ OneEach /\ [Next]_vars => OneEach'
<1> SUFFICES ASSUME TypeOK, OneEach, [Next]_vars
             PROVE  OneEach'
  OBVIOUS
<1>1. ASSUME NEW a \in Addrs \ live, NEW id, ~Stored(id), NEW ttl, NEW ts, NEW senders,
             NEW origin, StoreAt(a, id, ttl, ts, senders, origin)
      PROVE  OneEach'
  <2>1. /\ live' = live \cup {a} /\ mem'[a].id = id
        /\ \A b \in live : mem'[b] = mem[b]
    BY <1>1, StoreAtNodes
  <2>2. \A b \in live : mem[b].id # id
    BY <1>1 DEF Stored
  <2> QED BY SMT, <2>1, <2>2 DEF OneEach
<1>2. CASE UNCHANGED <<live, mem>>
  BY <1>2 DEF OneEach
<1>3. CASE CleanupStore
  <2>1. live' \subseteq live /\ live' \subseteq Addrs
    BY <1>3 DEF CleanupStore, TypeOK
  <2>2. \A a \in live' : mem'[a] = mem[a]
    BY <1>3, <2>1 DEF CleanupStore
  <2> QED BY <2>1, <2>2 DEF OneEach
<1>4. ASSUME NEW h \in Handles, NEW c, NEW id, NEW ttl, ProcessWrite(h, c, id, ttl)
      PROVE  OneEach'
  <2>1. \/ UNCHANGED <<live, mem>>
        \/ /\ ~Stored(id)
           /\ \E a \in Addrs \ live :
                StoreAt(a, id, ttl, TsOf[id], {c}, IF c = h THEN h ELSE NoLink)
    BY <1>4 DEF ProcessWrite, StoreAndBroadcast
  <2> QED BY <1>1, <1>2, <2>1
<1>5. CASE HandlePinActivity
  <2>1. \/ UNCHANGED <<live, mem>>
        \/ \E id \in OwnMessages, a \in Addrs \ live :
             ~Stored(id) /\ StoreAt(a, id, OwnTtl, Now, {}, NoLink)
    BY <1>5 DEF HandlePinActivity, StoreAndBroadcast
  <2> QED BY <1>1, <1>2, <2>1
<1>6. \/ UNCHANGED <<live, mem>>
      \/ CleanupStore
      \/ \E h \in Handles, c \in Handles \cup {StackCopy}, id \in Received, ttl \in Ttls :
           ProcessWrite(h, c, id, ttl)
      \/ HandlePinActivity
  <2>1. CASE Callback
    BY <2>1
    DEF Callback, AttWrite, Notification, ReportConnection, LearnCharacteristic,
        ReportDisconnection, GpioFall
  <2>2. CASE Main
    BY <2>2
    DEF Main, AnnounceToConnections, AnnounceNotDue, SendPackets, SendTargeted, SendBroadcast,
        SkipConnection, HandOver, RecordTargeted, EndTargeted, NextPacket, RecordBroadcast,
        EndPacket, EndBroadcast, CleanupNotDue, CleanupSent, CleanupLists, CleanupConnections,
        callbackVars
  <2>3. CASE Tick \/ UNCHANGED vars
    BY <2>3 DEF Tick, vars, callbackVars
  <2> QED BY <2>1, <2>2, <2>3 DEF Next
<1> QED BY <1>2, <1>3, <1>4, <1>5, <1>6

\* The conjuncts behind the refinement hold in every reachable state.
LEMMA RefinementInvariant == Spec => [](IInv /\ OneEach)
<1>1. Init => OneEach
  BY DEF Init, OneEach
<1>2. IInv => TypeOK
  BY DEF IInv
<1> QED BY <1>1, <1>2, IInvInit, IInvNext, OneEachNext, PTL DEF Spec

\* sendPackets hands over a packet that the link has not had and did not send us;
\* a node that is no longer stored is none of the repeater's.
LEMMA HandOverHands ==
  ASSUME TypeOK, OneEach, NoEcho', AtMostOnce', NEW h \in Handles, NEW p \in Packets,
         HandOver(p, h)
  PROVE  Abstract!Next \/ Store' = Store
<1>1. UNCHANGED <<live, mem, from>> /\ live \subseteq Addrs /\ live \subseteq Packets
  BY DEF HandOver, callbackVars, TypeOK, Packets
<1>2. /\ \A q \in Packets, g \in Handles :
           handed'[q][g] = IF q = p /\ g = h THEN handed[q][g] + 1 ELSE handed[q][g]
      /\ \A q \in Packets : q # p => handed'[q] = handed[q]
      /\ \A q \in Packets, g \in Handles : handed[q][g] \in Nat
  BY DEF HandOver, TypeOK
<1>3. CASE p \notin live
  BY <1>1, <1>2, <1>3, StoreKept
<1>4. CASE p \in live
  <2>1. handed'[p][h] <= 1 /\ (from[p] = h => handed'[p][h] = 0)
    BY <1>1, <1>4 DEF NoEcho, AtMostOnce
  <2>2. handed[p][h] = 0 /\ from[p] # h /\ handed'[p][h] = 1
    BY SMT, <1>1, <1>2, <1>4, <2>1
  <2>3. Entry(p)' = [Entry(p) EXCEPT !.handed = @ \cup {h}]
    <3>1. {g \in Handles : handed'[p][g] > 0} = {g \in Handles : handed[p][g] > 0} \cup {h}
      BY SMT, <1>1, <1>2, <1>4, <2>2
    <3>2. Entry(p)' = [id |-> mem[p].id, from |-> from[p],
                       handed |-> {g \in Handles : handed'[p][g] > 0}]
      BY <1>1 DEF Entry
    <3>3. [Entry(p) EXCEPT !.handed = @ \cup {h}]
            = [id |-> mem[p].id, from |-> from[p],
               handed |-> {g \in Handles : handed[p][g] > 0} \cup {h}]
      BY EntryHanded
    <3> QED BY <3>1, <3>2, <3>3
  <2>4. \A b \in live : b # p => Entry(b)' = Entry(b) /\ Entry(b) # Entry(p)
    <3> SUFFICES ASSUME NEW b \in live, b # p
                 PROVE  Entry(b)' = Entry(b) /\ Entry(b) # Entry(p)
      OBVIOUS
    <3>1. Entry(b)' = Entry(b)
      BY <1>1, <1>2 DEF Entry
    <3>2. mem[b].id # mem[p].id
      BY <1>4 DEF OneEach
    <3>3. Entry(b).id # Entry(p).id
      BY <3>2 DEF Entry
    <3> QED BY <3>1, <3>3
  <2>5. Store' = (Store \ {Entry(p)}) \cup {[Entry(p) EXCEPT !.handed = @ \cup {h}]}
    <3>1. Store' = {Entry(b)' : b \in live}
      BY <1>1 DEF Store
    <3> QED BY <1>4, <2>3, <2>4, <3>1 DEF Store
  <2>6. h # Entry(p).from /\ h \notin Entry(p).handed
    BY SMT, <2>2 DEF Entry
  <2>7. Abstract!HandOver(Entry(p), h)
    BY <2>5, <2>6 DEF Abstract!HandOver, Store
  <2>8. Entry(p) \in Store
    BY <1>4 DEF Store
  <2> QED BY <2>7, <2>8 DEF Abstract!Next, Store
<1> QED BY <1>3, <1>4

\* reportConnection starts the handle's history anew.
LEMMA ConnectionConnects ==
  ASSUME TypeOK, NEW h \in Handles, NEW isNeighbour, ReportConnection(h, isNeighbour)
  PROVE  Abstract!Next
<1> DEFINE After(e) == [id |-> e.id, from |-> IF e.from = h THEN NoLink ELSE e.from,
                        handed |-> e.handed \ {h}]
<1>1. live' = live /\ live \subseteq Addrs /\ live \subseteq Packets
  BY DEF ReportConnection, TypeOK, Packets
<1>2. \A a \in live : Entry(a)' = After(Entry(a))
  <2> SUFFICES ASSUME NEW a \in live
               PROVE  Entry(a)' = After(Entry(a))
    OBVIOUS
  <2>1. /\ mem'[a].id = mem[a].id
        /\ from'[a] = IF from[a] = h THEN NoLink ELSE from[a]
    BY <1>1 DEF ReportConnection
  <2>2. \A g \in Handles : handed'[a][g] = IF g = h THEN 0 ELSE handed[a][g]
    BY <1>1 DEF ReportConnection, TypeOK
  <2>3. {g \in Handles : handed'[a][g] > 0} = {g \in Handles : handed[a][g] > 0} \ {h}
    BY SMT, <2>2
  <2> QED BY <2>1, <2>3 DEF Entry
<1>3. Store' = {After(e) : e \in Store}
  BY <1>1, <1>2 DEF Store
<1>4. Abstract!Connect(h)
  BY <1>3 DEF Abstract!Connect, Store
<1> QED BY <1>4 DEF Abstract!Next

\* cleanupStaleItems forgets the connections it erases, all at once.
LEMMA CleanupForgetsLinks ==
  ASSUME TypeOK, CleanupConnections
  PROVE  Abstract!Next
<1> DEFINE gone == {h \in Handles : ConnectionStale(h, cleanupNow)}
           After(e) == [e EXCEPT !.handed = @ \ gone]
<1>1. live' = live /\ live \subseteq Addrs /\ live \subseteq Packets
  BY DEF CleanupConnections, TypeOK, Packets
<1>2. \A a \in live : Entry(a)' = After(Entry(a))
  <2> SUFFICES ASSUME NEW a \in live
               PROVE  Entry(a)' = After(Entry(a))
    OBVIOUS
  <2>1. mem'[a].id = mem[a].id /\ from'[a] = from[a]
    BY <1>1 DEF CleanupConnections
  <2>2. \A g \in Handles : handed'[a][g] = IF g \in gone THEN 0 ELSE handed[a][g]
    BY <1>1 DEF CleanupConnections, TypeOK
  <2>3. {g \in Handles : handed'[a][g] > 0} = {g \in Handles : handed[a][g] > 0} \ gone
    BY SMT, <2>2
  <2>4. Entry(a)' = [id |-> mem[a].id, from |-> from[a],
                     handed |-> {g \in Handles : handed[a][g] > 0} \ gone]
    BY <2>1, <2>3 DEF Entry
  <2>5. After(Entry(a)) = [id |-> mem[a].id, from |-> from[a],
                           handed |-> {g \in Handles : handed[a][g] > 0} \ gone]
    BY EntryHanded
  <2> QED BY <2>4, <2>5
<1>3. Store' = {After(e) : e \in Store}
  BY SMT, <1>1, <1>2 DEF Store
<1>4. Abstract!ForgetLinks(gone)
  BY <1>3 DEF Abstract!ForgetLinks, Store
<1>5. gone \in SUBSET Handles
  OBVIOUS
<1> QED BY <1>4, <1>5 DEF Abstract!Next

\* cleanupStaleItems forgets the messages and packets it erases.
LEMMA CleanupForgets ==
  ASSUME TypeOK, OneEach, CleanupStore
  PROVE  Abstract!Next
<1> DEFINE old == {Entry(a) : a \in live \ live'}
<1>1. live' \subseteq live /\ live \subseteq Addrs /\ live \subseteq Packets
  BY DEF CleanupStore, TypeOK, Packets
<1>2. \A a \in live' : Entry(a)' = Entry(a)
  <2> SUFFICES ASSUME NEW a \in live'
               PROVE  Entry(a)' = Entry(a)
    OBVIOUS
  <2>1. mem'[a] = mem[a] /\ from'[a] = from[a] /\ handed'[a] = handed[a]
    BY <1>1 DEF CleanupStore
  <2> QED BY <2>1 DEF Entry
<1>3. \A a \in live', b \in live \ live' : Entry(a) # Entry(b)
  <2> SUFFICES ASSUME NEW a \in live', NEW b \in live \ live'
               PROVE  Entry(a) # Entry(b)
    OBVIOUS
  <2>1. Entry(a).id # Entry(b).id
    BY <1>1 DEF OneEach, Entry
  <2> QED BY <2>1
<1>4. Store' = Store \ old
  <2>1. Store' = {Entry(a) : a \in live'}
    BY <1>2 DEF Store
  <2> QED BY <1>1, <1>3, <2>1 DEF Store
<1>5. Abstract!Forget(old)
  BY <1>4 DEF Abstract!Forget, Store
<1>6. old \in SUBSET Store
  BY <1>1 DEF Store
<1> QED BY <1>5, <1>6 DEF Abstract!Next, Store

\* Every step of the relay is a step of the repeater or none.
LEMMA StepRefines ==
  ASSUME IInv, IInv', OneEach, [Next]_vars
  PROVE  Abstract!Next \/ Store' = Store
<1>1. TypeOK /\ NoEcho' /\ AtMostOnce' /\ live \subseteq Packets
  BY DEF IInv, TypeOK, Packets
<1>2. ASSUME NEW h \in Handles, NEW c \in Handles \cup {StackCopy}, NEW id \in Received, NEW ttl \in Ttls,
             ProcessWrite(h, c, id, ttl)
      PROVE  Abstract!Next \/ Store' = Store
  <2>1. \/ UNCHANGED <<live, mem, handed, from>>
        \/ /\ ~Stored(id)
           /\ \E a \in Addrs \ live :
                StoreAt(a, id, ttl, TsOf[id], {c}, IF c = h THEN h ELSE NoLink)
    BY <1>2 DEF ProcessWrite, StoreAndBroadcast
  <2>2. id \in Identities /\ (IF c = h THEN h ELSE NoLink) \in Handles \cup {NoLink}
    BY DEF Received, Identities
  <2> QED BY <1>1, <2>1, <2>2, StoreTakes, StoreKept
<1>3. CASE HandlePinActivity
  <2>1. \/ UNCHANGED <<live, mem, handed, from>>
        \/ \E id \in OwnMessages, a \in Addrs \ live :
             ~Stored(id) /\ StoreAt(a, id, OwnTtl, Now, {}, NoLink)
    BY <1>3 DEF HandlePinActivity, StoreAndBroadcast
  <2>2. OwnMessages \subseteq Identities /\ NoLink \in Handles \cup {NoLink}
    BY DEF Identities
  <2> QED BY <1>1, <2>1, <2>2, StoreTakes, StoreKept
<1>4. ASSUME NEW h \in Handles, NEW p \in Packets, HandOver(p, h)
      PROVE  Abstract!Next \/ Store' = Store
  BY <1>1, <1>4, HandOverHands
<1>5. CASE CleanupSent
  <2>1. UNCHANGED <<live, mem, from>>
    BY <1>5 DEF CleanupSent
  <2>2. \A a \in live : handed'[a] = handed[a]
    <3>1. \A a \in Addrs : a # Announce /\ a \in Packets
      BY AddrsAssumption DEF Announce, Packets
    <3> QED BY <1>1, <1>5, <3>1 DEF CleanupSent, TypeOK
  <2> QED BY <2>1, <2>2, StoreKept
<1>6. CASE CleanupConnections
  BY <1>1, <1>6, CleanupForgetsLinks
<1>7. CASE CleanupStore
  BY <1>1, <1>7, CleanupForgets
<1>8. ASSUME NEW h \in Handles, NEW isNeighbour \in BOOLEAN, ReportConnection(h, isNeighbour)
      PROVE  Abstract!Next
  BY <1>1, <1>8, ConnectionConnects
<1>9. CASE UNCHANGED <<live, mem, handed, from>>
  BY <1>9, StoreKept
<1>10. \/ UNCHANGED <<live, mem, handed, from>>
       \/ \E h \in Handles, c \in Handles \cup {StackCopy}, id \in Received, ttl \in Ttls :
            ProcessWrite(h, c, id, ttl)
       \/ HandlePinActivity \/ CleanupSent \/ CleanupConnections \/ CleanupStore
       \/ \E h \in Handles, p \in Packets : HandOver(p, h)
       \/ \E h \in Handles, isNeighbour \in BOOLEAN : ReportConnection(h, isNeighbour)
  <2>1. CASE Callback
    BY <2>1
    DEF Callback, AttWrite, Notification, LearnCharacteristic, ReportDisconnection, GpioFall, history
  <2>2. CASE Main
    <3>1. Announce \in Packets /\ current \in Packets
      BY <1>1 DEF TypeOK, Packets
    <3> QED BY <2>2, <3>1
      DEF Main, AnnounceToConnections, AnnounceNotDue, SendPackets, SendTargeted, SendBroadcast,
          SkipConnection, RecordTargeted, EndTargeted, NextPacket, RecordBroadcast, EndPacket,
          EndBroadcast, CleanupNotDue, CleanupLists, callbackVars, history
  <2>3. CASE Tick \/ UNCHANGED vars
    BY <2>3 DEF Tick, vars, callbackVars, history
  <2> QED BY <2>1, <2>2, <2>3 DEF Next
<1> QED BY <1>2, <1>3, <1>4, <1>5, <1>6, <1>7, <1>8, <1>9, <1>10

\* The relay implements the repeater: whatever interleaving of callbacks, sending
\* and cleanups, it takes each packet once, hands it to no link twice and not to the
\* one it came over, and forgets it whole.
THEOREM RelayRefines == Spec => KeepsPromise
<1>1. Init => Abstract!Init
  BY DEF Init, Abstract!Init
<1>2. IInv /\ IInv' /\ OneEach /\ [Next]_vars => [Abstract!Next]_({Entry(a) : a \in live})
  BY StepRefines DEF Store
<1> QED BY <1>1, <1>2, RefinementInvariant, PTL DEF Spec, KeepsPromise, Abstract!Spec
=============================================================================
