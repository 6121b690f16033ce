------------------------------ MODULE RawSend ------------------------------
(***************************************************************************)
(* The last step of sending: SendPacketToConnection puts the encoded packet *)
(* in raw_packet_to_notify or raw_packet_to_write, asks BTstack to call     *)
(* back when the link can take it, and notifyRawPacket or writeRawPacket    *)
(* then hands one packet of the multimap to the stack.                      *)
(*                                                                         *)
(* A link where the peer is the central (our role is slave) uses the notify *)
(* multimap, one we opened (master) the write multimap.  There is a single  *)
(* static btstack_context_callback_registration_t for each: its context is  *)
(* the handle of whoever asked last, while it may sit in the request lists  *)
(* of several links.                                                        *)
(*                                                                         *)
(* The callback runs in interrupt context and is one action.  main is       *)
(* preempted between its look at the connection's role, its emplace, its    *)
(* write of the context and its request.                                    *)
(*                                                                         *)
(* has_data_to_send is left out: only two assertions read it.               *)
(***************************************************************************)
EXTENDS Integers

CONSTANTS
  Handles,       \* connection handles, the keys of the multimaps
  Roles,         \* the roles a link may have
  RolesOf,       \* the roles each handle's links may have
  MaxPackets,    \* bound: packets SendPacketToConnection is called with
  MaxLinks       \* bound: links a handle stands for, one after the other

NoHandle == 0

ASSUME HandlesAssumption == Handles \subseteq Nat \ {0}
ASSUME RolesAssumption ==
  Roles # {} /\ RolesOf \in [Handles -> SUBSET Roles]
ASSUME BoundAssumption == MaxPackets \in Nat /\ MaxLinks \in Nat

VARIABLES
  link,          \* per handle: role, connected, entry kept, links so far
  raw,           \* the multimaps' entries
  context,       \* per role: the registration's context
  requested,     \* per role: links whose request list holds the registration
  pc, current,   \* main in SendPacketToConnection, and what it emplaces
  serial,        \* packets queued so far
  given          \* history: what was handed to the stack, and for which link

vars == <<link, raw, context, requested, pc, current, serial, given>>

Links == [role : Roles, connected : BOOLEAN, kept : BOOLEAN, epoch : Nat]

\* An entry of a multimap: its key, the link main had before it when it queued
\* the packet, and whether the link's MTU has room for it.  The test at the
\* start of SendPacketToConnection compares the packet with the whole MTU, of
\* which the stack takes three bytes for its own header
Entries == [role : Roles, to : Handles, serial : Nat, epoch : Nat, fits : BOOLEAN]

NoEntry == [role |-> CHOOSE r \in Roles : TRUE, to |-> NoHandle,
            serial |-> 0, epoch |-> 0, fits |-> TRUE]

NoLink == [role |-> CHOOSE r \in Roles : TRUE, connected |-> FALSE,
           kept |-> FALSE, epoch |-> 0]

Init ==
  /\ link = [h \in Handles |-> NoLink]
  /\ raw = {}
  /\ context = [r \in Roles |-> NoHandle]
  /\ requested = [r \in Roles |-> {}]
  /\ pc = "idle"
  /\ current = NoEntry
  /\ serial = 0
  /\ given = {}
----------------------------------------------------------------------------
(* SendPacketToConnection *)

\* Up to getRole.  main has the entry of a connection that is or was up: a
\* targeted packet may be for a link that has gone since
SendPacketToConnection(h, fits) ==
  /\ pc = "idle"
  /\ link[h].kept
  /\ serial < MaxPackets
  /\ current' = [role |-> link[h].role, to |-> h, serial |-> serial + 1,
                 epoch |-> link[h].epoch, fits |-> fits]
  /\ pc' = "emplace"
  /\ UNCHANGED <<link, raw, context, requested, serial, given>>

\* emplace in the multimap of that role
Emplace ==
  /\ pc = "emplace"
  /\ raw' = raw \cup {current}
  /\ serial' = serial + 1
  /\ pc' = "context"
  /\ UNCHANGED <<link, context, requested, current, given>>

\* Faulty variant: the context is the packet, not the handle
SetContext_Packet ==
  /\ pc = "context"
  /\ context' = [context EXCEPT ![current.role] = current.serial]
  /\ pc' = "request"
  /\ UNCHANGED <<link, raw, requested, current, serial, given>>

SetContext ==
  /\ pc = "context"
  /\ context' = [context EXCEPT ![current.role] = current.to]
  /\ pc' = "request"
  /\ UNCHANGED <<link, raw, requested, current, serial, given>>

\* What att_server_request_to_send_notification and
\* gatt_client_request_to_write_without_response do: refuse an unknown link,
\* otherwise put the registration in the link's list unless it is there
Asked(role, h) ==
  [requested EXCEPT ![role] = IF link[h].connected THEN @ \cup {h} ELSE @]

\* The request; its status only decides what is logged and returned, and both
\* callers ignore what is returned
Request ==
  /\ pc = "request"
  /\ requested' = Asked(current.role, current.to)
  /\ pc' = "idle"
  /\ UNCHANGED <<link, raw, context, current, serial, given>>
----------------------------------------------------------------------------
(* Callbacks *)

\* Faulty variant: takes the newest of equal keys
IsFirst_Newest(e, role, h) ==
  /\ e.role = role /\ e.to >= h
  /\ \A f \in raw : f.role = role /\ f.to >= h =>
       e.to < f.to \/ (e.to = f.to /\ e.serial >= f.serial)

\* e is equal_range(h).first, which is end() only when no key is h or above:
\* equal keys keep the order they were inserted in
IsFirst(e, role, h) ==
  /\ e.role = role /\ e.to >= h
  /\ \A f \in raw : f.role = role /\ f.to >= h =>
       e.to < f.to \/ (e.to = f.to /\ e.serial <= f.serial)

\* Faulty variant: looks for packets of this key only
HasFirst_ThisKey(entries, role, h) == \E e \in entries : e.role = role /\ e.to = h

HasFirst(entries, role, h) == \E e \in entries : e.role = role /\ e.to >= h

\* Faulty variant: asks again only after a packet was refused
AskAgain_IfRefused(left, role, h, over) ==
  LET others == [requested EXCEPT ![role] = @ \ {over}]
  IN  IF left = raw /\ HasFirst(left, role, h) /\ link[h].connected
      THEN [others EXCEPT ![role] = @ \cup {h}] ELSE others

\* Ask for another call unless nothing is left at or above this key.  The link
\* whose turn it was has left its list before the callback
AskAgain(left, role, h, over) ==
  LET others == [requested EXCEPT ![role] = @ \ {over}]
  IN  IF HasFirst(left, role, h) /\ link[h].connected
      THEN [others EXCEPT ![role] = @ \cup {h}] ELSE others

\* What is left of the multimap: the stack took the entry or does not know the
\* connection; kept after any other error
Left(e, accepted, h) == IF accepted \/ ~link[h].connected THEN raw \ {e} ELSE raw

\* notifyRawPacket or writeRawPacket, for the handle in the context, on the turn
\* of link over.  On its own turn the stack takes what the link has room for; it
\* may refuse what is too long whenever it is offered
SendRawPacket(role, over) ==
  LET h == context[role] IN
  /\ over \in requested[role]
  /\ h # NoHandle
  /\ \/ \E e \in raw, accepted \in BOOLEAN :
          /\ IsFirst(e, role, h)
          /\ h = over /\ e.fits => accepted
          /\ raw' = Left(e, accepted, h)
          /\ given' = IF accepted /\ link[h].connected
                      THEN given \cup {[entry |-> e, over |-> h,
                                        epoch |-> link[h].epoch]}
                      ELSE given
          /\ requested' = AskAgain(raw', role, h, over)
     \/ /\ ~HasFirst(raw, role, h)
        /\ requested' = AskAgain(raw, role, h, over)
        /\ UNCHANGED <<raw, given>>
  /\ UNCHANGED <<link, context, pc, current, serial>>

ReportConnection(h, role) ==
  /\ ~link[h].connected
  /\ link[h].epoch < MaxLinks
  /\ link' = [link EXCEPT ![h] =
       [role |-> role, connected |-> TRUE, kept |-> TRUE, epoch |-> @.epoch + 1]]
  /\ UNCHANGED <<raw, context, requested, pc, current, serial, given>>

\* reportDisconnection leaves the multimaps alone; BTstack frees the link's
\* request lists
ReportDisconnection(h) ==
  /\ link[h].connected
  /\ link' = [link EXCEPT ![h].connected = FALSE]
  /\ requested' = [r \in Roles |-> requested[r] \ {h}]
  /\ UNCHANGED <<raw, context, pc, current, serial, given>>

\* main's cleanupStaleItems erases the entry of a link that has gone, and what is
\* targeted at it, but not its raw packets.  The entry a callback's operator[]
\* makes in its place is nobody's to send to
CleanupStaleItems(h) ==
  /\ pc = "idle"
  /\ link[h].kept /\ ~link[h].connected
  /\ link' = [link EXCEPT ![h] = [NoLink EXCEPT !.epoch = link[h].epoch]]
  /\ UNCHANGED <<raw, context, requested, pc, current, serial, given>>
----------------------------------------------------------------------------
Main ==
  \/ \E h \in Handles, fits \in BOOLEAN : SendPacketToConnection(h, fits)
  \/ Emplace
  \/ SetContext
  \/ Request
  \/ \E h \in Handles : CleanupStaleItems(h)

CanSend == \E r \in Roles, h \in Handles : SendRawPacket(r, h)

Callback ==
  \/ CanSend
  \/ \E h \in Handles : \E r \in RolesOf[h] : ReportConnection(h, r)
  \/ \E h \in Handles : ReportDisconnection(h)

Next == Main \/ Callback

Spec == Init /\ [][Next]_vars

\* main goes on to its request, and BTstack gives every link that asked for it
\* a turn while it is up
FairSpec ==
  /\ Spec
  /\ WF_vars(Emplace \/ SetContext \/ Request)
  /\ \A r \in Roles, h \in Handles : WF_vars(SendRawPacket(r, h))
----------------------------------------------------------------------------
(* Properties *)

\* The multimaps, the registrations and main's locals have their types.
TypeOK ==
  /\ link \in [Handles -> Links]
  /\ raw \subseteq Entries
  /\ context \in [Roles -> Handles \cup {NoHandle}]
  /\ requested \in [Roles -> SUBSET Handles]
  /\ pc \in {"idle", "emplace", "context", "request"}
  /\ pc # "idle" => current \in Entries
  /\ serial \in Nat
  /\ given \subseteq [entry : Entries, over : Handles, epoch : Nat]

\* The raw packets of a key leave a multimap in the order they were queued, so
\* that none is handed over twice and fragments keep their order, whatever the
\* links do and however often the stack refuses one.
InOrder ==
  \A g \in given, e \in raw :
    g.entry.role = e.role /\ g.entry.to = e.to => g.entry.serial < e.serial

\* A raw packet is handed to the stack for the connection it was queued for.
RightConnection == \A g \in given : g.over = g.entry.to

\* What is queued in a role's multimap for the present link of h
Pending(role, h) ==
  {e \in raw : e.role = role /\ e.to = h /\ e.epoch = link[h].epoch}

\* No wake-up is lost for the link SendPacketToConnection asked for last: while
\* it is up and has packets queued, the registration is in its request list, or
\* main is about to put it there.  A turn of another link, a refusal and the
\* links of other handles coming and going do not take it out.
WaitsForTurn ==
  \A r \in Roles, h \in Handles :
    context[r] = h /\ link[h].connected /\ Pending(r, h) # {} =>
      \/ h \in requested[r]
      \/ pc \in {"context", "request"} /\ current.role = r /\ current.to = h

\* Everything the callback for h would come to: the entries from key h up
AtOrAbove(role, h) == {e \in raw : e.role = role /\ e.to >= h}

\* What the callback comes to first may be refused whenever it is offered
Clogged(role) == \E e \in raw : IsFirst(e, role, context[role]) /\ ~e.fits

\* Once main has stored its handle in the registration, the packets of a link,
\* and with them those of the same multimap under higher handles, leave the
\* multimap in the end.  Three things are excepted: the link the registration
\* names goes; a packet too long for the stack stands first; and main sends to a
\* link with a higher handle first, as the callback then passes over the packets
\* below it.
EventuallyGiven ==
  \A r \in Roles, h \in Handles :
    context[r] = h /\ link[h].connected /\ Pending(r, h) # {} ~>
      \/ AtOrAbove(r, h) = {}
      \/ \E c \in Handles : context[r] = c /\ ~link[c].connected
      \/ Clogged(r)
      \/ context[r] > h
============================================================================
