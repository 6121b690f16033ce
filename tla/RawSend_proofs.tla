--------------------------- MODULE RawSend_proofs ---------------------------
(***************************************************************************)
(* The multimaps of raw packets keep their types, each key's packets are    *)
(* handed over in the order they were queued, and no wake-up of the link    *)
(* asked for last is lost, for any set of handles.                          *)
(***************************************************************************)
EXTENDS RawSend, TLAPS

\* Serial numbers are fresh, and name one entry
Numbered ==
  /\ \A e \in raw : e.serial <= serial
  /\ pc = "emplace" => current.serial = serial + 1
  /\ \A g \in given : g.entry.serial <= serial
  /\ \A e, f \in raw : e.serial = f.serial => e = f

IInv == TypeOK /\ Numbered /\ InOrder

\* The initial state satisfies the invariant.
LEMMA InvInit == Init => IInv
  <1> SUFFICES ASSUME Init PROVE IInv
    OBVIOUS
  <1>0. NoLink \in Links
    BY RolesAssumption DEF NoLink, Links
  <1>1. TypeOK
    BY <1>0 DEF Init, TypeOK, NoHandle
  <1>2. Numbered /\ InOrder
    BY DEF Init, Numbered, InOrder
  <1> QED BY <1>1, <1>2 DEF IInv

\* Every step of main, of the send callbacks and of the links preserves it.
LEMMA InvNext == IInv /\ [Next]_vars => IInv'
  <1> SUFFICES ASSUME IInv, [Next]_vars PROVE IInv'
    OBVIOUS
  <1> USE DEF IInv
  <1>0. ASSUME NEW h \in Handles, NEW fits \in BOOLEAN, SendPacketToConnection(h, fits)
        PROVE IInv'
    <2>1. current' \in Entries /\ current'.serial = serial + 1
      BY <1>0 DEF SendPacketToConnection, TypeOK, Links, Entries
    <2>2. TypeOK'
      BY <1>0, <2>1 DEF SendPacketToConnection, TypeOK
    <2> QED BY <1>0, <2>1, <2>2 DEF SendPacketToConnection, Numbered, InOrder
  <1>1. CASE Emplace
    <2>1. /\ current \in Entries /\ raw' = raw \cup {current} /\ serial' = serial + 1
          /\ given' = given /\ pc' = "context" /\ current.serial = serial + 1
      BY <1>1 DEF Emplace, TypeOK, Numbered
    <2>2. TypeOK'
      BY <1>1, <2>1 DEF Emplace, TypeOK
    <2>4. \A e \in raw : e.serial \in Nat /\ e.serial <= serial
      BY DEF TypeOK, Entries, Numbered
    <2>5. \A g \in given : g.entry.serial \in Nat /\ g.entry.serial <= serial
      BY DEF TypeOK, Entries, Numbered
    <2>6. serial \in Nat
      BY DEF TypeOK
    <2>7. Numbered'
      BY <2>1, <2>4, <2>5, <2>6 DEF Numbered
    <2>8. InOrder'
      BY <2>1, <2>5, <2>6 DEF InOrder
    <2> QED BY <2>2, <2>7, <2>8
  <1>2. CASE SetContext
    <2>1. current.role \in Roles /\ current.to \in Handles
      BY <1>2 DEF SetContext, TypeOK, Entries
    <2>2. TypeOK'
      BY <1>2, <2>1 DEF SetContext, TypeOK
    <2> QED BY <1>2, <2>2 DEF SetContext, Numbered, InOrder
  <1>3. CASE Request
    <2>1. current.role \in Roles /\ current.to \in Handles
      BY <1>3 DEF Request, TypeOK, Entries
    <2>2. TypeOK'
      BY <1>3, <2>1 DEF Request, Asked, TypeOK
    <2> QED BY <1>3, <2>2 DEF Request, Numbered, InOrder
  <1>4. ASSUME NEW r \in Roles, NEW over \in Handles, SendRawPacket(r, over)
        PROVE IInv'
    <2> DEFINE h == context[r]
    <2>1. h \in Handles
      BY <1>4 DEF SendRawPacket, TypeOK
    <2>2. ASSUME NEW left PROVE AskAgain(left, r, h, over) \in [Roles -> SUBSET Handles]
      BY <2>1 DEF AskAgain, TypeOK
    <2>3. UNCHANGED <<link, context, pc, current, serial>>
      BY <1>4 DEF SendRawPacket
    <2>4. CASE \E e \in raw, accepted \in BOOLEAN :
                 /\ IsFirst(e, r, h)
                 /\ raw' = Left(e, accepted, h)
                 /\ given' = IF accepted /\ link[h].connected
                             THEN given \cup {[entry |-> e, over |-> h,
                                               epoch |-> link[h].epoch]}
                             ELSE given
                 /\ requested' = AskAgain(raw', r, h, over)
      <3>1. PICK e \in raw, accepted \in BOOLEAN :
                 /\ IsFirst(e, r, h)
                 /\ raw' = Left(e, accepted, h)
                 /\ given' = IF accepted /\ link[h].connected
                             THEN given \cup {[entry |-> e, over |-> h,
                                               epoch |-> link[h].epoch]}
                             ELSE given
                 /\ requested' = AskAgain(raw', r, h, over)
        BY <2>4
      <3> DEFINE g == [entry |-> e, over |-> h, epoch |-> link[h].epoch]
      <3>2. g \in [entry : Entries, over : Handles, epoch : Nat] /\ g.entry = e
        BY <2>1 DEF TypeOK, Links
      <3>3. raw' \subseteq raw /\ given' \subseteq given \cup {g}
        BY <3>1 DEF Left
      <3>4. g \in given' => g \in given \/ raw' = raw \ {e}
        BY <3>1 DEF Left
      <3>6. requested' \in [Roles -> SUBSET Handles]
        BY <2>2, <3>1
      <3> HIDE DEF g, h
      <3>7. TypeOK'
        BY <2>3, <3>2, <3>3, <3>6 DEF TypeOK
      <3>8. Numbered'
        BY <2>3, <3>2, <3>3 DEF Numbered
      <3>9. ASSUME NEW k \in given', NEW f \in raw',
                   k.entry.role = f.role, k.entry.to = f.to
            PROVE k.entry.serial < f.serial
        <4>1. CASE k \in given
          BY <3>3, <3>9, <4>1 DEF InOrder
        <4>2. CASE k = g /\ g \notin given
          <5>1. f \in raw /\ f # e
            BY <3>3, <3>4, <3>9, <4>2
          <5>2. e.role = r /\ f.role = r /\ e.to = f.to
            BY <3>1, <3>2, <3>9, <4>2 DEF IsFirst
          <5>3. e.serial \in Nat /\ f.serial \in Nat /\ e.to \in Nat /\ h \in Nat
            BY <2>1, <5>1, HandlesAssumption DEF TypeOK, Entries
          <5>4. e.serial <= f.serial
            BY <3>1, <5>1, <5>2, <5>3 DEF IsFirst
          <5>5. e.serial # f.serial
            BY <5>1 DEF Numbered
          <5> QED BY <3>2, <4>2, <5>3, <5>4, <5>5
        <4> QED BY <3>3, <3>9, <4>1, <4>2
      <3>10. InOrder'
        BY <3>9 DEF InOrder
      <3> QED BY <3>7, <3>8, <3>10
    <2>5. CASE requested' = AskAgain(raw, r, h, over) /\ UNCHANGED <<raw, given>>
      <3>1. requested' \in [Roles -> SUBSET Handles]
        BY <2>2, <2>5
      <3> HIDE DEF h
      <3> QED BY <2>3, <2>5, <3>1 DEF TypeOK, Numbered, InOrder
    <2> QED BY <1>4, <2>4, <2>5 DEF SendRawPacket
  <1>5. ASSUME NEW h \in Handles, NEW r \in RolesOf[h], ReportConnection(h, r)
        PROVE IInv'
    <2>1. r \in Roles
      BY RolesAssumption
    <2>2. TypeOK'
      BY <1>5, <2>1 DEF ReportConnection, TypeOK, Links
    <2> QED BY <1>5, <2>2 DEF ReportConnection, Numbered, InOrder
  <1>6. ASSUME NEW h \in Handles, ReportDisconnection(h) PROVE IInv'
    <2>1. TypeOK'
      BY <1>6 DEF ReportDisconnection, TypeOK, Links
    <2> QED BY <1>6, <2>1 DEF ReportDisconnection, Numbered, InOrder
  <1>7. ASSUME NEW h \in Handles, CleanupStaleItems(h) PROVE IInv'
    <2>1. [NoLink EXCEPT !.epoch = link[h].epoch] \in Links
      BY RolesAssumption DEF NoLink, Links, TypeOK
    <2>2. TypeOK'
      BY <1>7, <2>1 DEF CleanupStaleItems, TypeOK
    <2> QED BY <1>7, <2>2 DEF CleanupStaleItems, Numbered, InOrder
  <1>8. CASE UNCHANGED vars
    BY <1>8 DEF vars, TypeOK, Numbered, InOrder
  <1> QED BY <1>0, <1>1, <1>2, <1>3, <1>4, <1>5, <1>6, <1>7, <1>8
          DEF Next, Main, Callback, CanSend

\* SendPacketToConnection, notifyRawPacket, writeRawPacket and the connection
\* events keep every variable in its type.
THEOREM TypeCorrect == Spec => []TypeOK
  <1>1. IInv => TypeOK
    BY DEF IInv
  <1> QED BY InvInit, InvNext, <1>1, PTL DEF Spec

\* The raw packets of one key are handed to the stack in the order they were
\* queued and each at most once, for any handles, roles and number of packets.
THEOREM OrderCorrect == Spec => []InOrder
  <1>1. IInv => InOrder
    BY DEF IInv
  <1> QED BY InvInit, InvNext, <1>1, PTL DEF Spec
----------------------------------------------------------------------------
(* Wake-ups *)

\* No raw packet was queued for a link that is still to come: a packet a former
\* link left behind never counts as one of the present link
NoneAhead ==
  /\ \A e \in raw : e.epoch <= link[e.to].epoch
  /\ pc # "idle" => current.epoch <= link[current.to].epoch

WakeInv == NoneAhead /\ WaitsForTurn

\* Every step keeps the wake-ups: the emplace makes main about to ask, the request
\* follows, and a callback asks again before it returns.
LEMMA WakeNext == TypeOK /\ WakeInv /\ [Next]_vars => WakeInv'
  <1> SUFFICES ASSUME TypeOK, WakeInv, [Next]_vars PROVE WakeInv'
    OBVIOUS
  <1> USE DEF WakeInv
  <1>0. /\ \A e \in raw : e.to \in Handles /\ e.epoch \in Nat
        /\ \A h \in Handles : link[h].epoch \in Nat
        /\ pc # "idle" => /\ current.to \in Handles /\ current.role \in Roles
                          /\ current.epoch \in Nat
    BY DEF TypeOK, Entries, Links
  <1>1. ASSUME NEW h \in Handles, NEW fits \in BOOLEAN, SendPacketToConnection(h, fits)
        PROVE WakeInv'
    <2>1. /\ pc = "idle" /\ current'.to = h /\ current'.epoch = link[h].epoch
          /\ UNCHANGED <<link, raw, context, requested>>
      BY <1>1 DEF SendPacketToConnection
    <2>2. NoneAhead'
      BY <1>0, <2>1 DEF NoneAhead
    <2>3. WaitsForTurn'
      BY <2>1 DEF WaitsForTurn, Pending
    <2> QED BY <2>2, <2>3
  <1>2. CASE Emplace
    <2>1. /\ pc = "emplace" /\ pc' = "context" /\ raw' = raw \cup {current}
          /\ UNCHANGED <<link, context, requested, current>>
      BY <1>2 DEF Emplace
    <2>2. NoneAhead'
      BY <1>0, <2>1 DEF NoneAhead
    <2>3. ASSUME NEW r \in Roles, NEW h \in Handles, context'[r] = h, link'[h].connected,
                 Pending(r, h)' # {}
          PROVE h \in requested'[r] \/ (current'.role = r /\ current'.to = h)
      <3>1. CASE current.role = r /\ current.to = h
        BY <2>1, <3>1
      <3>2. CASE ~(current.role = r /\ current.to = h)
        <4>1. Pending(r, h) # {}
          BY <2>1, <2>3, <3>2 DEF Pending
        <4> QED BY <2>1, <2>3, <4>1 DEF WaitsForTurn
      <3> QED BY <3>1, <3>2
    <2>4. WaitsForTurn'
      BY <2>1, <2>3 DEF WaitsForTurn
    <2> QED BY <2>2, <2>4
  <1>3. CASE SetContext
    <2>1. /\ pc = "context" /\ pc' = "request"
          /\ context' = [context EXCEPT ![current.role] = current.to]
          /\ UNCHANGED <<link, raw, requested, current>>
      BY <1>3 DEF SetContext
    <2>2. NoneAhead'
      BY <2>1 DEF NoneAhead
    <2>3. ASSUME NEW r \in Roles PROVE context'[r] = IF r = current.role THEN current.to
                                                     ELSE context[r]
      BY <2>1 DEF TypeOK
    <2>4. WaitsForTurn'
      BY <2>1, <2>3 DEF WaitsForTurn, Pending
    <2> QED BY <2>2, <2>4
  <1>4. CASE Request
    <2>1. /\ pc = "request" /\ pc' = "idle"
          /\ requested' = Asked(current.role, current.to)
          /\ UNCHANGED <<link, raw, context>>
      BY <1>4 DEF Request
    <2>2. NoneAhead'
      BY <2>1 DEF NoneAhead
    <2>3. /\ \A r \in Roles : requested[r] \subseteq requested'[r]
          /\ link[current.to].connected => current.to \in requested'[current.role]
      BY <1>0, <2>1 DEF Asked, TypeOK
    <2>4. WaitsForTurn'
      BY <2>1, <2>3 DEF WaitsForTurn, Pending
    <2> QED BY <2>2, <2>4
  <1>5. ASSUME NEW q \in Roles, NEW over \in Handles, SendRawPacket(q, over)
        PROVE WakeInv'
    <2>1. /\ raw' \subseteq raw
          /\ requested' = AskAgain(raw', q, context[q], over)
          /\ UNCHANGED <<link, context, pc, current>>
      BY <1>5 DEF SendRawPacket, Left
    <2>2. NoneAhead'
      BY <2>1 DEF NoneAhead
    <2>3. \A r \in Roles, h \in Handles : Pending(r, h)' \subseteq Pending(r, h)
      BY <2>1 DEF Pending
    <2>4. \A r \in Roles \ {q} : requested'[r] = requested[r]
      BY <2>1 DEF AskAgain, TypeOK
    <2>5. HasFirst(raw', q, context[q]) /\ link[context[q]].connected
            => context[q] \in requested'[q]
      BY <2>1 DEF AskAgain, TypeOK
    <2>6. \A h \in Handles : Pending(q, h)' # {} => HasFirst(raw', q, h)
      BY HandlesAssumption DEF Pending, HasFirst
    <2>7. WaitsForTurn'
      BY <2>1, <2>3, <2>4, <2>5, <2>6 DEF WaitsForTurn
    <2> QED BY <2>2, <2>7
  <1>6. ASSUME NEW g \in Handles, NEW r \in RolesOf[g], ReportConnection(g, r)
        PROVE WakeInv'
    <2>1. /\ UNCHANGED <<raw, context, requested, pc, current>>
          /\ link'[g].epoch = link[g].epoch + 1
          /\ \A h \in Handles \ {g} : link'[h] = link[h]
      BY <1>6 DEF ReportConnection, TypeOK
    <2>2. NoneAhead'
      BY <1>0, <2>1 DEF NoneAhead
    <2>3. \A q \in Roles : Pending(q, g)' = {}
      BY <1>0, <2>1 DEF Pending, NoneAhead
    <2>4. \A q \in Roles, h \in Handles \ {g} : Pending(q, h)' = Pending(q, h)
      BY <2>1 DEF Pending
    <2>5. WaitsForTurn'
      BY <2>1, <2>3, <2>4 DEF WaitsForTurn
    <2> QED BY <2>2, <2>5
  <1>7. ASSUME NEW g \in Handles, ReportDisconnection(g) \/ CleanupStaleItems(g)
        PROVE WakeInv'
    <2>1. /\ UNCHANGED <<raw, context, pc, current>>
          /\ ~link'[g].connected
          /\ \A h \in Handles : link'[h].epoch = link[h].epoch
          /\ \A h \in Handles \ {g} : link'[h] = link[h]
          /\ \A r \in Roles, h \in Handles \ {g} : h \in requested[r] => h \in requested'[r]
      <3>1. CASE ReportDisconnection(g)
        BY <3>1 DEF ReportDisconnection, TypeOK, Links
      <3>2. CASE CleanupStaleItems(g)
        BY <3>2 DEF CleanupStaleItems, NoLink, TypeOK, Links
      <3> QED BY <1>7, <3>1, <3>2
    <2>2. NoneAhead'
      BY <1>0, <2>1 DEF NoneAhead
    <2>3. \A r \in Roles, h \in Handles : Pending(r, h)' = Pending(r, h)
      BY <2>1 DEF Pending
    <2>4. WaitsForTurn'
      BY <2>1, <2>3 DEF WaitsForTurn
    <2> QED BY <2>2, <2>4
  <1>8. CASE UNCHANGED vars
    BY <1>8 DEF vars, NoneAhead, WaitsForTurn, Pending
  <1> QED BY <1>1, <1>2, <1>3, <1>4, <1>5, <1>6, <1>7, <1>8
          DEF Next, Main, Callback, CanSend

\* While the link SendPacketToConnection asked for last is up and has packets
\* queued, it has a turn coming, for any handles and roles, however the links
\* share a registration, come and go, and however often the stack refuses: the
\* order emplace, context, request and the new request at the end of
\* notifyRawPacket and writeRawPacket lose no wake-up.
THEOREM WakeupCorrect == Spec => []WaitsForTurn
  <1>1. Init => WakeInv
    BY DEF Init, WakeInv, NoneAhead, WaitsForTurn, Pending
  <1>2. WakeInv => WaitsForTurn
    BY DEF WakeInv
  <1> QED BY TypeCorrect, WakeNext, <1>1, <1>2, PTL DEF Spec
=============================================================================
