# A verification of bitchat-repeater

TLA+ models of the repeater's firmware (`src/`), checked with TLC on small
instances and, for the safety properties that matter most, proved with TLAPS for
every value of the constants. `PROJECT.json` maps each definition to the source
lines it translates and lists the runs, the findings, the hazards and the
theorems.

## The system

The repeater is one process on a Pico W with two actors.

* **Callbacks.** BTstack's packet handlers, the GATT server and client callbacks,
  the scan timer and the GPIO interrupt run in interrupt context, one after the
  other. Each runs to its end, so a callback is one action.
* **main.** One endless loop: life-check pin, announce, connect, send, RSSI, scan,
  cleanup, sleep. It takes no lock against the callbacks, so it can be preempted
  between any two operations on shared state; it is a program with a `pc`, one
  action per stretch between two points at which a callback can matter.

| Part | Source | State | Operations |
|---|---|---|---|
| Packet stores and send lists | `BLE/BleConnectionTracker` | `messages`, `packets`, the broadcast and targeted lists, the sent records | store if new, enqueue, `sendPackets`, `cleanupStaleItems` |
| Receiving | `Bitchat/ProtocolProcessor` | none | `processWrite` for each packet type |
| Announcing, clock | tracker | `announce`, `timestamp_offset_ms` | `announceToConnections`, `possiblyUpdateTimeOffset` |
| Raw send queues | tracker | two multimaps, two static registrations | `SendPacketToConnection`, `notifyRawPacket`, `writeRawPacket` |
| Connections | tracker, `BLE/BleConnection` | `connections` | `reportConnection`, `reportDisconnection` |
| Finding and connecting | `main.cpp`, tracker | `available_neighbours`, four flags | scan, `connect_to_first_neighbour`, GATT discovery |
| Peers and duplicates | tracker, `Bitchat/Peer` | `peers`, `handle_peer_map` | announces, `getAnyDuplicateHandle` |
| Main loop | `main.cpp` | timers, `global_activity` | announce, scan, cleanup, RSSI, sleep |
| Log buffer | `CircularBuffer` | `head`, `tail`, `maxed` | `write`, `consume_line`, `clear_if_empty` |
| Codec | `Bitchat/Binary*`, `ProtocolWriter`, `Message` | none | read and write packets |

What makes it hard to get right: packets and connections are referred to by raw
pointers from four containers while callbacks add to them and a cleanup erases
from them; handles are reused by the controller while records about them survive;
one check made by main is used after it was preempted; two discovery flags and
two send registrations are shared by all links.

## Modules

| Module | What it models |
|---|---|
| `Repeater` | what one repeater promises: an abstract specification |
| `Relay` | stores, send lists, sent records, announcing, the clock offset, cleanup; implements `Repeater` |
| `RelayInv` | the inductive invariant of `Relay` |
| `MCRelay` | instances of `Relay` |
| `Relay_proofs` | the proofs for `Relay`: types, queues and records, echo and repetition, the refinement |
| `RawSend`, `MCRawSend`, `RawSend_proofs` | the raw send queues and the can-send callbacks |
| `Connect`, `Connect_proofs` | scanning, the gate of flags, connecting and discovery |
| `PeerMap`, `PeerMap_proofs` | which device is behind a handle, and which duplicate is dropped |
| `LogQueue` | what the log buffer promises: an abstract queue of characters |
| `LogBuffer`, `MCLogBuffer`, `LogBuffer_proofs` | the circular log buffer and `printAvailableLogging`; implements `LogQueue` |
| `MainLoop`, `MainLoop_proofs` | main's timers in wrapping time, and the sleep on `__wfi` |
| `Codec`, `Codec_proofs` | reading and writing packets, as functions on sequences of bytes |
| `Mesh`, `MCMesh`, `Mesh_proofs` | a network of repeaters that read and write as `Codec` |

### Relay

`live` and `mem` are the nodes of the two `std::map`s `messages` and `packets`, by
address: the other containers hold addresses, and the multimap of sent records is
ordered by them, which the send loop depends on. `connections` is the map of that
name, and `sent`, `broadcast` and `targeted` the records and lists. A connection
pointer is a handle, `StackCopy` (the local copy that
`handle_gatt_client_value_update_event` passes on) or `Erased`; reading through
the last two gives an arbitrary handle. Callbacks are `AttWrite`, `Notification`,
`ReportConnection`, `LearnCharacteristic`, `ReportDisconnection` and `GpioFall`.
main goes through `HandlePinActivity`, `AnnounceToConnections`, the steps of
`sendPackets` (one per link visited, and the record of a send as a step of its
own, because the send sleeps for 20 ms in between) and the four erasures of
`cleanupStaleItems`. `begin` is what the filter view `available_connections` keeps:
the first available connection, or none, as of the first packet of a pass. Each
later packet of the pass starts from there, also if that link has gone or an
earlier one has come.

Abstractions:

* The identity of a packet is the message id, or the hash of a pass-along packet.
  Of the rest, the ttl and the timestamp are kept.
* `packets_peers_sent_list` is left out: it is written and never read.
* The broadcast vector is a set that is walked in any order, and what is pushed
  during the walk is left for the next one. The code pushes from interrupts during
  a range-for; if the push reallocates the vector the iterators dangle. That is
  assumed not to happen and is listed as a hazard.
* Only the announce is ever targeted, so `targeted` is the set of its handles. A
  second entry for the same handle is skipped by `packet_needed`.
* The several calls of `reportConnection` for one new link (HCI, GAP and ATT
  events) are one action, and so are those of `reportDisconnection`.
* `setupAnnounceIfNeeded` with `announceToConnections` is one step, and so is
  storing and enqueueing a packet.
* Our own life-check messages are always new: their id holds the time.
* Time is `uptime`, in ticks. The 64-bit and 32-bit clocks wrap at `Width64` and
  `Width32`. `raced` records that a callback changed what a running cleanup had
  still to erase.

`Abstract` maps the relay to `Repeater`: an entry of its store is a node with its
identity, the link whose write stored it (`from`) and the links it was handed to.
`from` is one link: a second one that writes a packet that is stored leaves no trace
in the code, and a notification only a record of the stack copy.

### RawSend

`SendPacketToConnection` in four steps (up to reading the role, emplace, set the
registration's context, request) against the callbacks. `raw` holds the entries of
both multimaps with their key and insertion order; `IsFirst` is what
`equal_range(handle).first` gives, which is another handle's packet when there is
none for this one. `requested` is BTstack's list of links waiting for a turn. An
entry and a link have an epoch, so that a handle's former link can be told from its
present one. A link that has gone keeps its entry of `connections` until a cleanup.

The stack may refuse a packet on the turn of another link, and one that does not
fit (`fits`) on any: the size test compares with the whole MTU, of which a packet
can fill all but three bytes. After an error other than an unknown connection the
code keeps the packet and asks again, so such a packet may stay for ever.

`has_data_to_send` is left out. Only the assertions in the callbacks read it, and
they can fail: for the packets of a handle's former link, after a cleanup, and when
`reportConnection` replaces the connection by a scanned neighbour's entry between
`setHasData` and the emplace.

### Connect

The flags have their names from `main.cpp`. `attempt` and `query` stand for
BTstack: the address being connected to and the GATT query of each link. main
takes a neighbour (`Pick`), checks it (`Check`), calls `gap_connect` and records
it (`ConnectionStarted`), with events in between. It holds a pointer to an entry
that a connection event may erase. Once it is `freed`, each read through it
(`HeldAddress`) gives the old bytes, nobody's address, or that of another neighbour
whose entry was given the memory.

The handler of a connection complete event does not look at its status. A failed
attempt (`ConnectionFailed`) is reported to the tracker as a connection under a
handle that is no link's, `NoHandle`; the entry stays there as connected. The
results of both discovery requests are ignored as well: `accepted` says whether the
stack took them. On a disconnection BTstack ends the outstanding query with an
error, and what its handler asks of the lost link is never answered. If BTstack did
not report that error the flag that is set would stay set as well.

Two history variables serve the properties: `failed` (a query of the link ended
in an error or was refused) and `stranded` (a flag was set for work that is over or
was never taken on).

Abstractions: a node's kind (repeater, random address) is fixed; the two seconds
after `gap_disconnect` are a flag that goes away (see Fairness); which link is a
duplicate is `PeerMap`'s business.

### PeerMap

A device announces itself with `MaxTtl`, and an announce that another device
relays has less, because `ProtocolWriter` and its counterparts write the ttl minus
one. Timestamps of connections are the order in which they were made.

### LogBuffer

`buffer`, `head`, `tail`, `maxed` and `will_clear_if_empty` are the members of
`CircularBuffer<char>`. On the Pico `GUARD_LOCK` is empty, so a callback may log
between any two accesses of main. A callback's `writeF` is one action. main's is
formatting, copying and moving the indices, and its copy loop may be interrupted
after any number of characters, any number of times (`MainInterrupted`,
`MainResumes`): it goes on behind the head as the callback left it, with what is then
in `printBuf`. `consume_line` and `clear_if_empty` are one action per shared variable
they load or store. What `strchr` finds behind the array is arbitrary. `consume`
and `consume_block`, which nothing in the firmware calls, are left out.

`torn` is a history variable. It is set where the code loses or repeats text, and
suspends the promise until the buffer is next cleared:

* a callback logs inside the loop of main's write or before it has moved the
  indices, or after `clear_if_empty` found the buffer empty;
* a callback fills the buffer up while `consume_line` holds a copy of the tail;
* `consume_line` takes a wrapped text in one of the two cases of `Misjudges`.

`writeF`'s static `printBuf` is modelled: a callback that logs after main has
formatted its text replaces it. The queue only asks that some text is put, so
`KeepsPromise` does not speak of this.

### MainLoop

One action per step of the loop, with `time_us_32()` as `now % Width` and
`global_activity` modulo `ActivityWidth`. The history variables `loopAt` and `stamp`
hold the true times, and `unseen` and `late` say whether main
missed a callback. Callbacks count and may queue something. The gate to connecting is
in `Connect`. The later timers
are tested in any order. `requestNextRssi` is left out.

### Codec and Mesh

`Codec` has one operator per function of the reader and the writer. A `uint64_t` is
the sequence of its `LongBytes` bytes, the lowest first: nothing is computed with it
here but its hexadecimal digits. A signature has `SignatureLength` bytes. The loops
over mentions are recursive functions. libdeflate is the constant
`Inflate`. What is read through a null pointer (a peer id that was not given, a
signature that was cut off) is a constant. The hash of a packet is taken to tell
its contents apart.

In `Mesh` one packet of a phone goes from repeater to repeater. Copies in the
`air` arrive in any order, cut short or whole, or are lost. A repeater may leave
links out of a pass, give the bytes to another link of the same role, and forget
any packet at any time: these are the liberties that `Relay` and `RawSend` show
the code to take. A hand-over is recorded for the link it was meant for, as the code
does, whichever link the bytes go over. `Mesh` is written from the same source as
`Relay`, at a coarser grain; that it allows all that `Relay` does is an argument made
here and not a theorem. Which end opened a link decides whether the other end's packets
come as notifications, whose origin is not recorded. Links do not come and go.

## Runs

Each run takes between ten seconds and two minutes.

| Run | Checks | Result |
|---|---|---|
| `relay_links` | `NoEcho`, `KeepsPromise` | a packet never goes back to the link whose write stored it, and the relay implements `Repeater` |
| `relay_live` | `TypeOK`, `AtMostOnce`, `NoEcho`, `QueueSound`, `RecordsSound`, `EventuallyDequeued`, `EventuallyAnnounced` | a link is handed a packet, or our announce, at most once, nor is a packet echoed to the link whose write stored it when packets go stale and are forgotten; after a cleanup every queued packet is stored and has a hop left, and no record or targeted entry points at an erased connection, unless a callback ran inside the cleanup; queues drain, and links are announced to |
| `raw_send` | `TypeOK`, `InOrder`, `WaitsForTurn`, `EventuallyGiven` | raw packets of a link keep their order; the link that was asked for last does not lose its wake-up, and what is queued under its handle or above leaves in the end |
| `connect` | `TypeOK`, `FlagsHaveWork`, `EventuallyUsable`, `GateReopens`, `FirstIsTried` | each flag that shuts the gate has work under way; discovery ends in a characteristic, also on a reused handle; the gate opens again; the first connectable neighbour is tried |
| `peer_map` | `TypeOK`, `MapOnlyLive`, `EventuallyOneLink` | the map holds live links, and duplicates do not stay |
| `log_buffer` | `TypeOK`, `Terminated`, `KeepsPromise` | indices stay inside, the text stays terminated, and the buffer implements `LogQueue` |
| `main_loop` | `TypeOK`, `SleepsOnlyWhenServed`, `TimersTimely`, `EventuallyServed` | timers fire when due across wraps, and main does not sleep on work unless it missed a callback |
| `mesh` | `TypeOK`, `HopLimit`, `Intact`, `HeldOnce`, `FloodEnds` | a packet arrives as it was sent, makes no more hops than allowed, is recognised when it comes around, and the flood ends |

Some of these properties carry an exception, because the code does not keep them
without it.

* `NoEcho` and the relay's `KeepsPromise`: only for the link whose write stored the
  packet. The code records a writer only when the packet is new, so a second link
  that writes it before its turn is handed it back; so is one that notified us of it,
  since its record is that of a copy.
* `QueueSound` and `RecordsSound`: not after a callback ran inside a cleanup.
  `RecordsSound` is about connections only. A record whose *packet* was freed may
  survive a cleanup, because the records are compared by undivided milliseconds
  (line 413) and the packets by milliseconds divided by 1000 (lines 435 and 439); and
  the record of a stack copy never pointed at an entry of `connections`.
* `WaitsForTurn` and `EventuallyGiven`: for the handle that the registration names
  last. The links of one role share the registration, and the packets of a handle
  below it wait until main next sends to that handle. `EventuallyGiven` also stops
  where a packet the stack may always refuse stands first, or the link goes.
* `FlagsHaveWork` and `GateReopens`: not after one of five things (`stranded`): a
  connection that completed before main set `connection_in_progress`; one that failed;
  a request for services or for characteristics that the stack refused; and one for
  the characteristics of a link that was lost. In each the flag stays set until
  the next link is made.
* `EventuallyUsable`: not if a query of the link fails or is refused. A characteristic
  kept from the handle's former link satisfies it.
* `FirstIsTried`: only the first connectable neighbour. Those behind it may wait for
  ever, for instance behind one that is linked and was seen by a scan again.
* `EventuallyAnnounced`: not after a jump of the clock took the time back, nor after
  such a race with a cleanup. The record it speaks of may be a former link's.
* `Terminated` and the log buffer's `KeepsPromise`: not while `torn`.
* `SleepsOnlyWhenServed` and `EventuallyServed`: not if a callback came between
  main's test and `__wfi`, or so many came that the counter is back where it was.
* `TimersTimely`: not for the first cleanup. Its stamp lies five minutes ahead, so
  the unsigned difference makes it due at once (the comment says 15 minutes). Nor is
  a timer sure to fire after main slept for a whole turn of the clock.
* `Intact`: not for the signature, for compressed packets and for encrypted
  messages, which `mesh_unchanged` is about, nor for cuts inside the header.
  `HeldOnce`: not for compressed packets, which lose two bytes at each hop after the
  first and so change their hash.

The other runs show a disagreement between the code and what a comment, an
assertion or the readme says; `PROJECT.json` quotes the lines.

| Run | Violated | In short |
|---|---|---|
| `relay_skipped` | `SkippedOnlyIfSeen` | records of other packets keep a packet from a link |
| `relay_fresh` | `CleanupKeepsFresh` | a millisecond time divided by 1000 makes every packet stale |
| `raw_right` | `RightConnection` | a callback sends another link's packet |
| `mesh_unchanged` | `PassedAlongUnchanged` | a packet is passed along decompressed but flagged as compressed, with a byte before its signature, or without its encrypted content |

Five weaknesses are in the models but not the subject of a run. The record of
our announce outlives its link, because `reportDisconnection` compares it with the
address of a copy. A link is available before its MTU is known, so the assertion in
`SendPacketToConnection` may fail. A neighbour that relays a device's announce
before the device connects is taken for an earlier link to it and dropped. A
neighbour that main holds while its entry is freed may turn into another one. The
raw packets of a lost link go to the handle's next one. They are listed among the
hazards.

### Bounds

Two handles are needed for everything that involves a second link (echo, skipped
packets) or a shared registration (`raw_send`, where each may be of either role), and
three for duplicates that do not include the first handle (`peer_map`); one is enough
for cleanup and announcing (`relay_live`). `connect` has one handle, which is lost and
reused, beside the one of failed attempts, and three nodes of different kinds.
`peer_map` numbers its handles from 4, so that no link count is a handle. One tick
is five minutes, so two ticks are the cleanup age and `Width32` = 14 ticks is the 71 minutes of a 32-bit microsecond
clock. Timestamps start at 40 and are divided by `MsPerSecond` = 4, so that the
quotient is well below the clock, as it is in reality. Ttls of the relay are 0 and 1: only
whether a hop is left matters to this node. `Addrs` has at least as many
addresses as there are identities, so a store always finds one; which one is
arbitrary. `MaxPackets`, `MaxLinks`, `MaxDrops` and `MaxUptime` bound counters.
`relay_live` has a cleanup age of one tick and an uptime of two, enough for a packet
to become stale and for a cleanup to follow another.
In `RawSend` all packets may be sent and all links used up, so its run does not
check deadlock.

`log_buffer` has six elements and lines of two characters, so that texts wrap and
overflow and a line can end in the first block, at its end or behind it.
`main_loop` has the announce and cleanup timers (the others differ in their period
only), a clock of four values, a counter of two, and ends after one and a half turns
(`MaxTime` = 6).
Its two-second and five-minute periods are both one tick there; the proofs have no
such restriction.

`mesh` is a ring of three repeaters, so a packet comes back over another path, and
a phone at one of them. Packets are written out byte by byte with two-byte longs.
They cover every optional member of a message, a signature, encryption,
compression and a type that is not passed along. Ttls of 3 let a packet go around;
encrypted and compressed ones have 2. With 3 for those too it passes as well
(289,863 states, 18 minutes). Links let through 12 bytes, which cuts after the
header, or all. **Cuts inside the header are not covered**: with the smallest MTU
of Bluetooth LE, 20 bytes of a packet arrive and the header is 22. The sender is
then read as 0, and a payload of at most six bytes would be taken from the sender's
bytes. With two-byte longs such a cut has other proportions, so it is not in the
instance. The flood may stop, so `mesh` does not check deadlock, and neither does
`main_loop`, which ends on the exit pin.

### Fairness

* main's steps are weakly fair: callbacks are short, and its loop blocks only on
  `__wfi`. `MainLoop` shows when main sleeps on work; the liveness properties of
  the other modules hold while interrupts keep coming to wake it. The announce timer is due every two seconds and main passes it every
  time, so `AnnounceToConnections` is strongly fair in `Relay`.
* BTstack gives a link that asked to send its turn, and then accepts a packet that
  the link has room for (`RawSend`).
* BTstack answers a GATT query or times it out, and the scan timer fires
  (`Connect`). Whether a connection attempt ever ends is *not* assumed.
* The two seconds after a disconnection are over in the end (`Connect`). main tests
  `disconnection_started_at < loopStart - two_seconds_in_us` in wrapping 32-bit times:
  the test is true at once in the first two seconds of a turn of the clock, and after
  a wrap it stays false until the clock has passed the stamp again, up to 71 minutes
  later. After a stamp from the last two seconds of a turn the test is true only in part
  of the first two seconds of a turn, so there main must come by at the right time.
* A link that `gap_disconnect` was called for goes (`PeerMap`). That main reaches
  the search for duplicates again and again is a premise of `EventuallyOneLink`,
  not a fairness condition, since the gate may stay closed in the cases that
  `GateReopens` excepts. `FirstIsTried` has the same premise, and that attempts end.
* main goes on unless it sleeps (`MainLoop`). No interrupt is assumed to come.
* What is in the air arrives or is lost, and a pass of `sendPackets` ends (`Mesh`);
  the latter is what `EventuallyDequeued` shows of `Relay`. That a packet reaches
  anybody is not assumed and not claimed.

## Proofs

All constants are arbitrary, under the `ASSUME`s of the modules: handles and
addresses are positive naturals, the kinds of packets are disjoint, times and
widths are naturals.

**Relay.** `TypeOK`, `QueueSound`, `RecordsSound`, `NoEcho` and `AtMostOnce` are
proved from `IInv` (module `RelayInv`). The properties speak of states between
main's steps, so the invariant has to say what each of main's locals means:

* `PassInv`: the packets a send pass has visited, holds and has still to visit are
  disjoint parts of the broadcast list. `LiveInv`: what arrived since is stored.
* `QueueInv`, `RecordsInv`: after each erasure of a cleanup, what the later ones
  will erase is no longer referred to, unless `raced`.
* `SenderInv`: a queued packet has a record of the open link whose write stored it,
  until the cleanup is about to take it off the queue. `NoEcho` follows, since a send
  needs the absence of a record. It also speaks of the link that `begin` keeps, which
  may be closed by the time a packet starts from it.
* `HandedInv`: a queued packet was handed only to links before the cursor of the
  current pass. `AnnouncedInv`: the announce was handed only to recorded links,
  but for the one in hand. `AtMostOnce` follows.

Each part is preserved action by action. `RelayRefines` proves `KeepsPromise`: the
invariant adds that no two nodes have one identity (`OneEach`), and every step is
then a step of `Repeater` or leaves its store alone.

**RawSend.** `TypeOK`, `InOrder` and `WaitsForTurn`. For the order the invariant adds
that serial numbers are unique and none exceeds the last one given out, so the entry
a callback takes is older than every one left with its key. For the wake-up
`NoneAhead` adds that no entry, and not the one main is about to queue, is of a later
link than the present one, so that a link starts with nothing queued for it.

**Connect.** `TypeOK` and `FlagsHaveWork`. For the types the invariant adds that main
holds a neighbour from its pick to the end of its attempt. `FlagsHaveWork` is then
inductive: each handler that sets a flag asks for its work or is one of the named
cases, and `QueryEndFlags` says that the end of a query, also by a lost link, leaves
a flag set only for another query or stranded.

**PeerMap.** `TypeOK` and `MapOnlyLive`. The invariant adds that `gap_disconnect` is
only reached with a handle that was found.

**LogBuffer.** `TypeOK`, `Terminated` and `KeepsPromise`, for every size that a
`uint16_t` holds and every line size and set of texts that are shorter. No text
contains the end item. For the first two the invariant `IInv` adds what main's locals
are at each step of a write. For the refinement `QueueInv` says, while nothing is torn:

* `maxed` is true exactly when the head is at `tail - 1`, except between
  `consume_line`'s stores, where it is false. Without this a write that starts there
  would pass the tail unnoticed: the loop of `write` looks for that position only
  ahead of what it writes. (With the tail at 0 a full buffer is not marked; there the
  loop's second test catches the write.)
* The head that `consume_line` copied is that of characters still in the buffer, and
  the tail it copied is the tail.
* Once `consume_line` has filled `line`, it is a line at the front of the buffer and
  `tail_copy` is the position behind it. A callback that then logs appends, if the
  text does not fill the buffer, so this stays true until the tail is stored.

`WritePuts` is about `write`: reading the buffer backwards from the new head gives the
text and then what was there, so the contents are the old ones and the text, less the
oldest characters if the buffer is full. `ConsumeLineTakes` is about `consume_line`:
each of its four ways to fill `line` yields a line at the front, given that the end
item stops `strchr` in the second block (`Terminated`) and that it does not misjudge
that block (`Misjudges`).

**MainLoop.** `TypeOK`, `SleepsOnlyWhenServed` and `TimersTimely`, for every width and
period. The invariant says that each stored time is the remainder
of the true time it stands for, that the counters differ by the callbacks main has
not seen, and that work which a pass has not served came with such a callback. The
lemmas before it are about differences of remainders.

**Codec.** `ReadPacketOf`: `processWrite` and `processMessage` read back what
`writePacket` writes. For packets of every type and length, with every combination
of optional members and any number of mentions, and whatever bytes follow, what is
read has the same identity and is written again as it was (`SamePacket`); of an
encrypted message the content is lost, as in the code (`Kept`). `ReadPacketCut`: a
packet that was cut anywhere inside its payload is not taken for one. A packet is
well formed (`WellFormedPacket`) if its parts fit their length bytes and its payload
the two bytes of its length. One lemma per operator says what it reads behind what
its counterpart wrote, given that the rest follows (`XOf`), and one that it is well
typed on any bytes (`XType`). Mentions are read and written by recursive functions,
and the provers have no induction. `Induction` is proved instead from the library's
theorem that `<` is well founded on the naturals, which speaks of sets: it applies to
the set of the numbers for which a fact holds. That the recursive functions exist and
satisfy their equations is proved in the same way from their finite iterations.

**Mesh.** `TypeOK`, `HopLimit`, `HeldOnce` and `Intact`, for every
network and set of packets. `TypeInv` gives the types of the packets as they are
read, from any bytes. `HopInv`: in every copy and every entry the ttl and the hops
made add up to the phone's ttl, and what is queued has a hop left. `DistinctInv`:
entries of one repeater differ in their identity, since a repeater stores nothing it
knows. `CarriedInv`:
there is one packet, the phone's, such that every copy is that packet as
`writePacket` writes it, and every entry is the same as it. `ReadPacketOf` hands this
on when a payload arrives whole, and `ReadPacketCut` when it was cut.

`HeldOnceCorrect` and `IntactCorrect` have two hypotheses, which the instance of
`mesh` satisfies. `WellFormedOriginals`: phones write well-formed packets, that is,
what a phone sends is some packet as the code's own writer lays it out.
`HeadersWhole`: links cut no header. Without it the properties fail, for the reason
given under Bounds. The other two theorems do without.

In the modules for `Relay`, `Codec` and `Mesh` Zenon is the default (`USE ZenonT(40)`),
and `SMT` is named where it is needed: translating for the SMT solver becomes slower
with every step of a module. `LogBuffer_proofs`, which is mostly arithmetic, gives SMT
more time instead (`USE SMTT(30)`).

**Model-checked only.** The liveness properties (`EventuallyDequeued`,
`EventuallyAnnounced`, `EventuallyGiven`, `EventuallyUsable`, `GateReopens`,
`FirstIsTried`, `EventuallyOneLink`, `EventuallyServed`, `FloodEnds`), since
temporal reasoning under fairness is beyond the provers used. Every other property
that a passing run checks is a theorem.

## Not modelled

* Advertising and attribute reads only call BTstack. Board setup is a sequence of
  SDK calls. libdeflate is external: only what the code does around it is modelled.
* `requestNextRssi`: nothing reads the values it asks for. Its static iterator
  outlives the entries that a cleanup erases; what it then reads depends on how the
  map's nodes lie in memory.
* The broadcast list as a vector: a push that reallocates it under the range-for
  leaves dangling iterators, whose effect depends on the allocator.
* Names and public keys of peers, which are only logged.
* The composition of `Relay` with `RawSend` in one state space is too large for
  TLC. `Mesh` stands in for it, with the liberties that either shows.
