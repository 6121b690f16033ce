--------------------------- MODULE PeerMap_proofs ---------------------------
(***************************************************************************)
(* What handle_peer_map holds, for any number of handles and devices.       *)
(***************************************************************************)
EXTENDS PeerMap, TLAPS

\* gap_disconnect is only called with a handle that was found.
MapInv == TypeOK /\ MapOnlyLive /\ (pc = "drop" => duplicate \in Handles)

LEMMA InvInit == Init => MapInv
BY ConstantsAssumption DEF Init, MapInv, TypeOK, MapOnlyLive

LEMMA InvNext == MapInv /\ [Next]_vars => MapInv'
<1> SUFFICES ASSUME MapInv, [Next]_vars PROVE MapInv'
  OBVIOUS
<1> USE ConstantsAssumption DEF MapInv, TypeOK, MapOnlyLive
<1>1. ASSUME NEW h \in Handles, NEW d \in Devices, ReportConnection(h, d)
      PROVE  MapInv'
  <2>1. link' \in [Handles -> Devices \cup {NoDevice}] /\ since' \in [Handles -> Nat]
    BY <1>1 DEF ReportConnection
  <2> QED
    BY <1>1, <2>1 DEF ReportConnection
<1>2. ASSUME NEW h \in Handles, ReportDisconnection(h) PROVE MapInv'
  BY <1>2 DEF ReportDisconnection
<1>3. ASSUME NEW h \in Handles, NEW d \in Devices, NEW ttl \in 0..MaxTtl,
             Announce(h, d, ttl)
      PROVE  MapInv'
  <2>1. max_ttl' \in [Devices -> 0..MaxTtl]
    BY <1>3 DEF Announce
  <2>2. handle_peer_map' \in [Handles -> Devices \cup {NoDevice}]
    BY <1>3 DEF Announce
  <2>3. MapOnlyLive'
    BY <1>3 DEF Announce
  <2> QED
    BY <1>3, <2>1, <2>2, <2>3 DEF Announce
<1>4. CASE Arrive
  BY <1>4 DEF Arrive
<1>5. CASE GetAnyDuplicateHandle
  BY <1>5 DEF GetAnyDuplicateHandle, Earlier
<1>6. CASE GapDisconnect
  BY <1>6 DEF GapDisconnect
<1>7. CASE UNCHANGED vars
  BY <1>7 DEF vars
<1> QED
  BY <1>1, <1>2, <1>3, <1>4, <1>5, <1>6, <1>7 DEF Next, Main, Event

\* The map, the peers and main's local keep their types.
THEOREM TypeCorrect == Spec => []TypeOK
<1>1. MapInv => TypeOK
  BY DEF MapInv
<1> QED
  BY InvInit, InvNext, <1>1, PTL DEF Spec

\* handle_peer_map never holds a handle whose link is down.
THEOREM LiveCorrect == Spec => []MapOnlyLive
<1>1. MapInv => MapOnlyLive
  BY DEF MapInv
<1> QED
  BY InvInit, InvNext, <1>1, PTL DEF Spec
============================================================================
