---------------------------- MODULE MCAggregator ----------------------------
(* Aggregator on a ring of three slots, with one flow of each direction.   *)
EXTENDS Aggregator

CONSTANTS h1, h2, p1, p2, us, cn, https, video

Home(ip) == [ip |-> ip, home |-> TRUE, country |-> us]
Peer(ip, c) == [ip |-> ip, home |-> FALSE, country |-> c]
Flow(bytes, src, dst, service, app) ==
  [bytes |-> bytes, src |-> src, dst |-> dst, service |-> service, app |-> app]

MCFlows ==
  {Flow(1, Home(h1), Peer(p1, None), https, None),      \* out, country unknown
   Flow(1, Home(h1), Peer(p1, us), https, video),       \* out, the same peer
   Flow(1, Home(h2), Peer(p2, cn), None, video),        \* out, another peer
   Flow(2, Peer(p1, us), Home(h1), https, None),        \* in
   Flow(1, Home(h1), Home(h2), https, None),            \* internal
   Flow(1, Peer(p1, us), Peer(p2, cn), None, None),     \* transit
   Flow(0, Home(h1), Peer(p2, cn), https, None)}        \* no bytes
=============================================================================
