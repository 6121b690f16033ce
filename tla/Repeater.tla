------------------------------ MODULE Repeater ------------------------------
(***************************************************************************)
(* What one repeater promises: it takes a packet once, hands it to each    *)
(* link at most once, never to the link it was taken from, and forgets it  *)
(* whole.                                                                  *)
(***************************************************************************)
CONSTANTS
  Links,
  NoLink         \* the origin of a packet that came over no link of now

VARIABLE store   \* what is known of each packet: [id, from, handed],
                 \* id being what the repeater tells packets apart by

NewEntry(id, origin) == [id |-> id, from |-> origin, handed |-> {}]
Knows(id) == \E e \in store : e.id = id

Take(id, origin) ==
  /\ ~Knows(id)
  /\ store' = store \cup {NewEntry(id, origin)}

HandOver(e, l) ==
  /\ l # e.from
  /\ l \notin e.handed
  /\ store' = (store \ {e}) \cup {[e EXCEPT !.handed = @ \cup {l}]}

\* A peer connects, and has been handed nothing
Connect(l) ==
  store' = {[id |-> e.id,
             from |-> IF e.from = l THEN NoLink ELSE e.from,
             handed |-> e.handed \ {l}] : e \in store}

\* What is known of links that are gone is dropped
ForgetLinks(gone) ==
  store' = {[e EXCEPT !.handed = @ \ gone] : e \in store}

Forget(old) == store' = store \ old

Init == store = {}

Next ==
  \/ \E e \in store' : e.from \in Links \cup {NoLink} /\ Take(e.id, e.from)
  \/ \E e \in store, l \in Links : HandOver(e, l)
  \/ \E l \in Links : Connect(l)
  \/ \E gone \in SUBSET Links : ForgetLinks(gone)
  \/ \E old \in SUBSET store : Forget(old)

Spec == Init /\ [][Next]_store
============================================================================
