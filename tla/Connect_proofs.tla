--------------------------- MODULE Connect_proofs ---------------------------
(***************************************************************************)
(* Connect is type correct, and a flag that shuts main's gate has work under *)
(* way that will clear it, but for the named cases, for any set of nodes     *)
(* and handles.                                                             *)
(***************************************************************************)
EXTENDS Connect, TLAPS

\* main holds a neighbour from its pick to the end of its attempt.
TypeInv ==
  /\ TypeOK
  /\ pc \in {"check", "connect", "started"} => picked \in Peers

\* The initial state has its type.
LEMMA TypeInit == Init => TypeInv
<1> SUFFICES ASSUME Init PROVE TypeInv
  OBVIOUS
<1>1. conn \in [Connections -> Conns]
  BY DEF Init, Blank, Conns
<1>2. query \in [Handles -> {"none", "services", "characteristics"}]
  BY DEF Init
<1>3. TypeOK
  BY <1>1, <1>2 DEF Init, TypeOK
<1> QED
  BY <1>3 DEF Init, TypeInv

\* reportConnection keeps the types of what it changes.
LEMMA ReportTypes ==
  ASSUME TypeOK, NEW h \in Connections, NEW p \in Peers \cup {NoPeer, Junk},
         ReportConnection(h, p)
  PROVE  /\ conn' \in [Connections -> Conns]
         /\ neighbours' \subseteq Peers
         /\ freed' \in BOOLEAN
<1>1. conn' \in [Connections -> Conns]
  <2> DEFINE c == IF p \in neighbours THEN Blank ELSE conn[h]
  <2>1. c \in Conns
    BY DEF Blank, Conns, TypeOK
  <2> HIDE DEF c
  <2>2. [c EXCEPT !.connected = TRUE, !.peer = p] \in Conns
    BY <2>1 DEF Conns
  <2>3. conn' = [conn EXCEPT ![h] = [c EXCEPT !.connected = TRUE, !.peer = p]]
    BY DEF ReportConnection, c
  <2> QED
    BY <2>2, <2>3 DEF TypeOK
<1>2. neighbours' \subseteq Peers /\ freed' \in BOOLEAN
  BY DEF ReportConnection, TypeOK
<1> QED
  BY <1>1, <1>2

\* An event keeps the types.
LEMMA EventTypes == TypeOK /\ Event => TypeOK'
<1> SUFFICES ASSUME TypeOK, Event PROVE TypeOK'
  OBVIOUS
<1> USE DEF TypeOK, gateFlags, stack, locals, history
<1>1. ASSUME NEW p \in Peers, AdvertisingReport(p) PROVE TypeOK'
  BY <1>1 DEF AdvertisingReport
<1>2. ASSUME NEW h \in Handles, NEW p \in Peers, NEW accepted \in BOOLEAN,
             ConnectionComplete(h, p, accepted)
      PROVE  TypeOK'
  <2>1. ReportConnection(h, p) /\ h \in Connections
    BY <1>2 DEF ConnectionComplete, Connections
  <2>2. conn' \in [Connections -> Conns] /\ neighbours' \subseteq Peers /\ freed' \in BOOLEAN
    BY <2>1, ReportTypes
  <2>3. query' \in [Handles -> {"none", "services", "characteristics"}]
    BY <1>2 DEF ConnectionComplete
  <2>4. attempt' \in Peers \cup {NoPeer, Junk} /\ failed' \subseteq Handles
        /\ stranded' \subseteq {"attempt", "discovery"}
    BY <1>2 DEF ConnectionComplete
  <2> QED
    BY <1>2, <2>2, <2>3, <2>4 DEF ConnectionComplete
<1>failed. ASSUME NEW p \in Peers \cup {NoPeer, Junk}, ConnectionFailed(p) PROVE TypeOK'
  <2>1. ReportConnection(NoHandle, p) /\ NoHandle \in Connections
    BY <1>failed DEF ConnectionFailed, Connections
  <2>2. conn' \in [Connections -> Conns] /\ neighbours' \subseteq Peers /\ freed' \in BOOLEAN
    BY <2>1, ReportTypes
  <2>3. stranded' \subseteq {"attempt", "discovery"} /\ drops' \in Nat
    BY <1>failed DEF ConnectionFailed
  <2> QED
    BY <1>failed, <2>2, <2>3 DEF ConnectionFailed
<1>update. ASSUME NEW h \in Handles, NEW c \in Conns, conn' = [conn EXCEPT ![h] = c]
      PROVE  conn' \in [Connections -> Conns]
  BY <1>update
<1>fields. ASSUME NEW h \in Handles
      PROVE  /\ [conn[h] EXCEPT !.mtu = TRUE] \in Conns
             /\ [conn[h] EXCEPT !.service = TRUE] \in Conns
             /\ [conn[h] EXCEPT !.characteristic = TRUE] \in Conns
             /\ [conn[h] EXCEPT !.connected = FALSE] \in Conns
  <2>1. conn[h] \in Conns
    BY DEF Connections
  <2> QED
    BY <2>1 DEF Conns
<1>3. ASSUME NEW h \in Handles, MtuEvent(h) PROVE TypeOK'
  <2>1. conn' \in [Connections -> Conns]
    BY <1>update, <1>fields, <1>3 DEF MtuEvent
  <2> QED
    BY <1>3, <2>1 DEF MtuEvent, QueryEvent
<1>4. ASSUME NEW h \in Handles, ServiceResult(h) PROVE TypeOK'
  <2>1. conn' \in [Connections -> Conns]
    BY <1>update, <1>fields, <1>4 DEF ServiceResult, WithService
  <2> QED
    BY <1>4, <2>1 DEF ServiceResult, QueryEvent
<1>5. ASSUME NEW h \in Handles, CharacteristicResult(h) PROVE TypeOK'
  <2>1. conn' \in [Connections -> Conns]
    BY <1>update, <1>fields, <1>5 DEF CharacteristicResult, WithCharacteristic
  <2> QED
    BY <1>5, <2>1 DEF CharacteristicResult, QueryEvent
<1>6. ASSUME NEW h \in Handles, Subscribe(h) PROVE TypeOK'
  <2>1. conn' \in [Connections -> Conns]
    BY <1>update, <1>fields, <1>6 DEF Subscribe
  <2> QED
    BY <1>6, <2>1 DEF Subscribe
<1>7. ASSUME NEW h \in Handles, Disconnection(h) PROVE TypeOK'
  <2>1. conn' \in [Connections -> Conns]
    BY <1>update, <1>fields, <1>7 DEF Disconnection
  <2>2. query' \in [Handles -> {"none", "services", "characteristics"}] /\ drops' \in Nat
    BY <1>7 DEF Disconnection
  <2>3. discover_primary_services' \in BOOLEAN
        /\ discover_characteristics_for_service' \in BOOLEAN
        /\ stranded' \subseteq {"attempt", "discovery"}
    BY <1>7 DEF Disconnection, QueryCompleteFlags, NeedsCharacteristics, StrandedBy,
       Connections
  <2> QED
    BY <1>7, <2>1, <2>2, <2>3 DEF Disconnection
<1>8. ASSUME NEW h \in Handles, QueryEnds(h) PROVE TypeOK'
  <2>1. PICK status \in {"ok", "error"}, accepted \in BOOLEAN :
          QueryComplete(h, status, accepted)
    BY <1>8 DEF QueryEnds
  <2>2. discover_primary_services' \in BOOLEAN
        /\ discover_characteristics_for_service' \in BOOLEAN
    BY <2>1 DEF QueryComplete, QueryCompleteFlags, NeedsCharacteristics, Connections
  <2>3. query' \in [Handles -> {"none", "services", "characteristics"}]
        /\ failed' \subseteq Handles
        /\ stranded' \subseteq {"attempt", "discovery"}
    BY <2>1 DEF QueryComplete, StrandedBy
  <2> QED
    BY <2>1, <2>2, <2>3 DEF QueryComplete
<1>9. CASE StopScan
  BY <1>9 DEF StopScan
<1>10. CASE LearnTime
  BY <1>10 DEF LearnTime
<1>11. CASE Settle
  BY <1>11 DEF Settle
<1> QED
  BY <1>1, <1>2, <1>failed, <1>3, <1>4, <1>5, <1>6, <1>7, <1>8, <1>9, <1>10, <1>11 DEF Event

\* A step of main keeps the types.
LEMMA MainTypes == TypeInv /\ Main => TypeInv'
<1> SUFFICES ASSUME TypeInv, Main PROVE TypeInv'
  OBVIOUS
<1> USE DEF TypeInv, TypeOK, gateFlags, stack, locals, history
<1>1. CASE Gate
  BY <1>1 DEF Gate
<1>2. CASE Pick
  BY <1>2 DEF Pick, NoPeer
<1>3. CASE Check
  BY <1>3 DEF Check
<1>4. CASE GapConnect
  <2>1. HeldAddress \subseteq Peers \cup {Junk}
    BY <1>4 DEF HeldAddress, GapConnect
  <2> QED
    BY <1>4, <2>1 DEF GapConnect
<1>5. CASE ConnectionStarted
  BY <1>5 DEF ConnectionStarted
<1>6. CASE Duplicate
  BY <1>6 DEF Duplicate
<1>7. CASE RestOfLoop
  <2>1. conn' \in [Connections -> Conns]
    BY <1>7 DEF RestOfLoop, Blank, Conns
  <2> QED
    BY <1>7, <2>1 DEF RestOfLoop, StartScanning
<1> QED
  BY <1>1, <1>2, <1>3, <1>4, <1>5, <1>6, <1>7 DEF Main

\* An event does not move main.
LEMMA EventFrame == Event => UNCHANGED <<pc, picked>>
  BY DEF Event, AdvertisingReport, ConnectionComplete, ConnectionFailed, MtuEvent,
     ServiceResult, CharacteristicResult, QueryEvent, Subscribe, Disconnection,
     QueryEnds, QueryComplete, StopScan, LearnTime, Settle, locals

\* Every step keeps the types.
LEMMA TypeNext == TypeInv /\ [Next]_vars => TypeInv'
<1> SUFFICES ASSUME TypeInv, [Next]_vars PROVE TypeInv'
  OBVIOUS
<1>1. CASE Event
  BY <1>1, EventTypes, EventFrame DEF TypeInv
<1>2. CASE Main
  BY <1>2, MainTypes
<1>3. CASE UNCHANGED vars
  BY <1>3 DEF vars, gateFlags, stack, locals, history, TypeInv, TypeOK
<1> QED
  BY <1>1, <1>2, <1>3 DEF Next

\* The gate's flags, the tracker's connections and main's locals keep their
\* types in every run of scanning, connecting and discovery.
THEOREM TypeCorrect == Spec => []TypeOK
<1>1. TypeInv => TypeOK
  BY DEF TypeInv
<1> QED
  BY TypeInit, TypeNext, <1>1, PTL DEF Spec
----------------------------------------------------------------------------
(* The flags of the gate *)

\* The end of a query leaves a discovery flag set only with another query under
\* way, or stranded.
LEMMA QueryEndFlags ==
  ASSUME TypeOK, FlagsHaveWork, NEW h \in Handles, NEW useless \in BOOLEAN,
         QueryCompleteFlags(h), stranded' = StrandedBy(h, useless),
         NeedsCharacteristics(h) /\ ~useless => query'[h] # "none",
         UNCHANGED <<connection_in_progress, attempt>>
  PROVE  FlagsHaveWork'
<1>1. connection_in_progress' => attempt' # NoPeer \/ "attempt" \in stranded'
  BY DEF FlagsHaveWork, StrandedBy
<1>2. ~discover_primary_services'
      /\ discover_characteristics_for_service' = NeedsCharacteristics(h)
  BY DEF QueryCompleteFlags
<1>3. NeedsCharacteristics(h) /\ useless => "discovery" \in stranded'
  BY DEF StrandedBy
<1> QED
  BY <1>1, <1>2, <1>3 DEF FlagsHaveWork

\* Every step keeps it: each handler that sets a flag asks for the work first or
\* next, and each end of the work clears the flag.
LEMMA FlagsNext == TypeOK /\ FlagsHaveWork /\ [Next]_vars => FlagsHaveWork'
<1> SUFFICES ASSUME TypeOK, FlagsHaveWork, [Next]_vars PROVE FlagsHaveWork'
  OBVIOUS
<1> USE DEF gateFlags, stack, locals, history
<1>1. ASSUME UNCHANGED <<connection_in_progress, discover_primary_services, query,
                        discover_characteristics_for_service, attempt, stranded>>
      PROVE  FlagsHaveWork'
  BY <1>1 DEF FlagsHaveWork
<1>2. ASSUME NEW h \in Handles, NEW p \in Peers, NEW accepted \in BOOLEAN,
             ConnectionComplete(h, p, accepted)
      PROVE  FlagsHaveWork'
  <2>1. ~connection_in_progress'
    BY <1>2 DEF ConnectionComplete
  <2>2. CASE accepted
    <3>1. query'[h] = "services"
      BY <1>2, <2>2 DEF ConnectionComplete, TypeOK
    <3> QED
      BY <2>1, <3>1 DEF FlagsHaveWork
  <2>3. CASE ~accepted
    BY <1>2, <2>1, <2>3 DEF ConnectionComplete, FlagsHaveWork
  <2> QED
    BY <2>2, <2>3
<1>3. ASSUME NEW p, ConnectionFailed(p) PROVE FlagsHaveWork'
  BY <1>3 DEF ConnectionFailed, FlagsHaveWork
<1>4. ASSUME NEW h \in Handles, QueryEnds(h) PROVE FlagsHaveWork'
  <2>1. PICK status \in {"ok", "error"}, accepted \in BOOLEAN :
          QueryComplete(h, status, accepted)
    BY <1>4 DEF QueryEnds
  <2>2. NeedsCharacteristics(h) /\ accepted => query'[h] # "none"
    BY <2>1 DEF QueryComplete, TypeOK
  <2> QED
    BY <2>1, <2>2, QueryEndFlags DEF QueryComplete
<1>5. ASSUME NEW h \in Handles, Disconnection(h) PROVE FlagsHaveWork'
  <2>1. CASE query[h] # "none"
    BY <1>5, <2>1, QueryEndFlags DEF Disconnection
  <2>2. CASE query[h] = "none"
    <3>1. \A g \in Handles : query'[g] = query[g]
      BY <1>5, <2>2 DEF Disconnection, TypeOK
    <3> QED
      BY <1>5, <2>2, <3>1 DEF Disconnection, FlagsHaveWork
  <2> QED
    BY <2>1, <2>2
<1>6. CASE GapConnect
  <2>2. attempt # NoPeer => attempt' # NoPeer
    BY <1>6 DEF GapConnect
  <2>3. UNCHANGED <<connection_in_progress, discover_primary_services, query,
                    discover_characteristics_for_service, stranded>>
    BY <1>6 DEF GapConnect
  <2> QED
    BY <2>2, <2>3 DEF FlagsHaveWork
<1>7. CASE ConnectionStarted
  BY <1>7 DEF ConnectionStarted, FlagsHaveWork
<1>8. CASE \/ \E p \in Peers : AdvertisingReport(p)
           \/ \E h \in Handles : \/ MtuEvent(h) \/ ServiceResult(h)
                                 \/ CharacteristicResult(h) \/ Subscribe(h)
           \/ StopScan \/ LearnTime \/ Settle
           \/ Gate \/ Pick \/ Check \/ Duplicate \/ RestOfLoop \/ UNCHANGED vars
  BY <1>1, <1>8 DEF AdvertisingReport, MtuEvent, ServiceResult, CharacteristicResult,
     QueryEvent, Subscribe, StopScan, LearnTime, Settle, Gate, Pick, Check, Duplicate,
     RestOfLoop, vars
<1> QED
  BY <1>2, <1>3, <1>4, <1>5, <1>6, <1>7, <1>8 DEF Next, Main, Event

\* A flag that keeps main from connect_to_first_neighbour stands for an attempt or
\* a query that is under way, or is one of the named cases: there is no other way
\* for the handlers of connections, queries and disconnections and main's own
\* steps to leave a flag set, for any number of nodes and links.
THEOREM FlagsCorrect == Spec => []FlagsHaveWork
<1>1. Init => FlagsHaveWork
  BY DEF Init, FlagsHaveWork
<1> QED
  BY TypeCorrect, FlagsNext, <1>1, PTL DEF Spec
============================================================================
