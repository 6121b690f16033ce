------------------------------ MODULE MCRelay ------------------------------
(* Small instances of Relay.  One tick is five minutes, so 2^32 microseconds *)
(* are 14 ticks; the epoch is far enough from 0 for a timestamp read as      *)
(* seconds to look old, as 1.7 * 10^9 does beside 1.7 * 10^12.               *)
EXTENDS Relay

CONSTANTS m1, p1, own1

MCTsOf == [i \in Received |-> 40]
============================================================================
