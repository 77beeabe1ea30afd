------------------------------ MODULE LiveFeed ------------------------------
(***************************************************************************)
(* crates/api/src/main.rs: one task bridges the Redis channel flows:live   *)
(* to a broadcast from which every WebSocket reads; on the way each flow   *)
(* is corrected and labelled from two maps that two other tasks reload     *)
(* from PostgreSQL, and recorded in the aggregator.                        *)
(*                                                                         *)
(* A message is its IP address (the end the maps are about), Garbage that  *)
(* is not JSON, or NotText that is not even a string; ip_geo and ip_app    *)
(* are the sets of the addresses they have a correction and an app for.    *)
(***************************************************************************)
EXTENDS Integers, Sequences, FiniteSets

CONSTANTS
  Ips, Garbage, NotText,
  NotLoaded,   \* a refresh task between two queries
  Idle,        \* the bridge between two messages
  Clients,     \* WebSocket connections
  Cap,         \* capacity of the broadcast (4096 in the code)
  MaxMsgs,     \* bound: messages published
  MaxEdits,    \* bound: changes of the tables
  MaxFails     \* bound: queries that fail, connections lost and messages not a string

ASSUME FeedAssumption ==
  /\ Cap \in Nat \ {0}
  /\ NotText \notin Ips \cup {Garbage}
  /\ Garbage \notin Ips \cup [ip : Ips, corrected : BOOLEAN, app : BOOLEAN]

\* What may come over the channel.
Payloads == Ips \cup {Garbage, NotText}

VARIABLES
  published, edits, fails,  \* the bounds' counters
  table,     \* PostgreSQL: ip_geo and ip_app
  map,       \* AppState.overrides and .apps
  fresh,     \* what a refresh task has loaded and not yet stored
  bridge,    \* "down", "up", or "ending": the connection is lost
  inbox,     \* messages on the bridge's connection
  work,      \* the message between the two reads of the maps
  out,       \* everything sent to the broadcast; it retains the last Cap
  counted,   \* what the aggregator recorded
  cursor,    \* client -> the next place of out it reads; 0 when not connected
  got        \* history: the places of out each client was sent

bounds == <<published, edits, fails>>
refresh == <<table, map, fresh>>
feed == <<out, counted>>
clients == <<cursor, got>>
vars == <<bounds, refresh, bridge, inbox, work, feed, clients>>

Maps == {"overrides", "apps"}

Init ==
  /\ published = 0 /\ edits = 0 /\ fails = 0
  /\ table \in [Maps -> SUBSET Ips]
  /\ map \in {f \in [Maps -> SUBSET Ips] : \A m \in Maps : f[m] \in {table[m], {}}}
  /\ fresh = [m \in Maps |-> NotLoaded]
  /\ bridge = "down" /\ inbox = <<>> /\ work = Idle
  /\ out = <<>> /\ counted = <<>>
  /\ cursor = [c \in Clients |-> 0] /\ got = [c \in Clients |-> <<>>]

----------------------------------------------------------------------------
(* Redis pub/sub: what is published while nobody is subscribed is gone.    *)

Publish(p) ==
  /\ published < MaxMsgs /\ published' = published + 1
  /\ fails' = (IF p = NotText THEN fails + 1 ELSE fails) /\ fails' <= MaxFails
  /\ inbox' = IF bridge = "up" THEN Append(inbox, p) ELSE inbox
  /\ UNCHANGED <<edits, refresh, bridge, work, feed, clients>>

Subscribe ==
  /\ bridge = "down"
  /\ bridge' = "up"
  /\ UNCHANGED <<bounds, refresh, inbox, work, feed, clients>>

\* The connection is lost, and with it some of what was on its way.
Disconnect ==
  /\ bridge = "up"
  /\ fails < MaxFails /\ fails' = fails + 1
  /\ bridge' = "ending"
  /\ \E n \in 0..Len(inbox) : inbox' = SubSeq(inbox, 1, n)
  /\ UNCHANGED <<published, edits, refresh, work, feed, clients>>

\* mutant: the bridge gives up when its stream ends
Ended_GiveUp ==
  /\ bridge = "ending" /\ inbox = <<>> /\ work = Idle
  /\ bridge' = "stopped"
  /\ UNCHANGED <<bounds, refresh, inbox, work, feed, clients>>

\* stream.next() returns None: sleep, then connect again.
Ended ==
  /\ bridge = "ending" /\ inbox = <<>> /\ work = Idle
  /\ bridge' = "down"
  /\ UNCHANGED <<bounds, refresh, inbox, work, feed, clients>>

----------------------------------------------------------------------------
(* The bridge, for each message.                                           *)

\* apply_overrides, under a read lock of its own.
Take ==
  /\ work = Idle /\ inbox # <<>> /\ Head(inbox) \in Ips
  /\ work' = [ip |-> Head(inbox), corrected |-> Head(inbox) \in map["overrides"]]
  /\ inbox' = Tail(inbox)
  /\ UNCHANGED <<bounds, refresh, bridge, feed, clients>>

Stamp(w) ==
  [ip |-> w.ip, corrected |-> w.corrected, app |-> w.ip \in map["apps"]]

Counted_Before(f) == [f EXCEPT !.app = FALSE]        \* mutant: record, then apply_apps
Counted(f) == f

\* apply_apps, under another; then the aggregator and the broadcast get it.
Send ==
  /\ work # Idle
  /\ out' = Append(out, Stamp(work))
  /\ counted' = Append(counted, Counted(Stamp(work)))
  /\ work' = Idle
  /\ UNCHANGED <<bounds, refresh, bridge, inbox, clients>>

\* What does not parse is sent on as it came, and not counted.
SendRaw ==
  /\ work = Idle /\ inbox # <<>> /\ Head(inbox) = Garbage
  /\ out' = Append(out, Garbage)
  /\ inbox' = Tail(inbox)
  /\ UNCHANGED <<bounds, refresh, bridge, work, counted, clients>>

\* What is not a string is passed over.
Drop ==
  /\ work = Idle /\ inbox # <<>> /\ Head(inbox) = NotText
  /\ inbox' = Tail(inbox)
  /\ UNCHANGED <<bounds, refresh, bridge, work, feed, clients>>

----------------------------------------------------------------------------
(* The WebSocket tasks.                                                    *)

\* The first place the broadcast still holds.
Oldest_OffByOne == Len(out) - Cap + 2                             \* mutant
Oldest == Len(out) - Cap + 1

Connect(c) ==
  /\ cursor[c] = 0
  /\ cursor' = [cursor EXCEPT ![c] = Len(out) + 1]
  /\ UNCHANGED <<bounds, refresh, bridge, inbox, work, feed, got>>

Forward(c) ==
  /\ cursor[c] # 0 /\ cursor[c] <= Len(out) /\ cursor[c] >= Oldest
  /\ got' = [got EXCEPT ![c] = Append(@, cursor[c])]
  /\ cursor' = [cursor EXCEPT ![c] = @ + 1]
  /\ UNCHANGED <<bounds, refresh, bridge, inbox, work, feed>>

\* mutant: the receiver stays where it was
Lagged_Stays(c) ==
  /\ cursor[c] # 0 /\ cursor[c] < Oldest
  /\ UNCHANGED vars

\* RecvError::Lagged: continue at the oldest message retained.
Lagged(c) ==
  /\ cursor[c] # 0 /\ cursor[c] < Oldest
  /\ cursor' = [cursor EXCEPT ![c] = Oldest]
  /\ UNCHANGED <<bounds, refresh, bridge, inbox, work, feed, got>>

\* Either task of the connection ends and aborts the other.
Leave(c) ==
  /\ cursor[c] # 0
  /\ cursor' = [cursor EXCEPT ![c] = 0]
  /\ got' = [got EXCEPT ![c] = <<>>]
  /\ UNCHANGED <<bounds, refresh, bridge, inbox, work, feed>>

----------------------------------------------------------------------------
(* The refresh tasks, every two minutes; geo-doctor and sni-sniff change   *)
(* the tables.                                                             *)

Load(m) ==
  /\ fresh[m] = NotLoaded
  /\ fresh' = [fresh EXCEPT ![m] = table[m]]
  /\ UNCHANGED <<bounds, table, map, bridge, inbox, work, feed, clients>>

\* The query fails: unwrap_or_default makes it an empty result.
LoadFails(m) ==
  /\ fresh[m] = NotLoaded
  /\ fails < MaxFails /\ fails' = fails + 1
  /\ fresh' = [fresh EXCEPT ![m] = {}]
  /\ UNCHANGED <<published, edits, table, map, bridge, inbox, work, feed, clients>>

Stored_Merged(m) == map[m] \cup fresh[m]    \* mutant: what was removed stays
Stored(m) == fresh[m]

Store(m) ==
  /\ fresh[m] # NotLoaded
  /\ map' = [map EXCEPT ![m] = Stored(m)]
  /\ fresh' = [fresh EXCEPT ![m] = NotLoaded]
  /\ UNCHANGED <<bounds, table, bridge, inbox, work, feed, clients>>

Edit(m) ==
  /\ edits < MaxEdits /\ edits' = edits + 1
  /\ \E S \in SUBSET Ips : table' = [table EXCEPT ![m] = S]
  /\ UNCHANGED <<published, fails, map, fresh, bridge, inbox, work, feed, clients>>

----------------------------------------------------------------------------
Bridge == Subscribe \/ Ended \/ Take \/ Send \/ SendRaw \/ Drop

Reload == \E m \in Maps : Load(m) \/ Store(m)

Next ==
  \/ \E p \in Payloads : Publish(p)
  \/ Disconnect
  \/ Bridge
  \/ \E c \in Clients : Connect(c) \/ Forward(c) \/ Lagged(c) \/ Leave(c)
  \/ Reload
  \/ \E m \in Maps : LoadFails(m) \/ Edit(m)

Spec == Init /\ [][Next]_vars

\* The tasks of the API run: the bridge, each reload and each socket.
Fairness ==
  /\ WF_vars(Subscribe) /\ WF_vars(Ended)
  /\ WF_vars(Take) /\ WF_vars(Send) /\ WF_vars(SendRaw) /\ WF_vars(Drop)
  /\ \A m \in Maps : WF_vars(Load(m)) /\ WF_vars(Store(m))
  /\ \A c \in Clients : WF_vars(Forward(c)) /\ WF_vars(Lagged(c))

FairSpec == Spec /\ Fairness

----------------------------------------------------------------------------
(* Properties.                                                             *)

\* The stores hold what they should and each cursor is within the broadcast.
TypeOK ==
  /\ table \in [Maps -> SUBSET Ips] /\ map \in [Maps -> SUBSET Ips]
  /\ bridge \in {"down", "up", "ending"}
  /\ bridge = "down" => inbox = <<>> /\ work = Idle
  /\ \A c \in Clients : cursor[c] \in 0..(Len(out) + 1)

\* The panels and the map agree: the aggregator has recorded exactly the
\* flows that were sent, in the same order with the same correction and the
\* same label (main.rs:309-321).
CountedIsSent ==
  LET flows == {k \in DOMAIN out : out[k] # Garbage}
      Place(k) == Cardinality({j \in flows : j <= k})
  IN  /\ Len(counted) = Cardinality(flows)
      /\ \A k \in flows : counted[Place(k)] = out[k]

\* A client is sent messages in order and none twice, and misses one only
\* when it had fallen Cap messages behind (main.rs:341-353).
MissesOnlyWhenLagging ==
  \A c \in Clients : \A k \in 2..Len(got[c]) :
    /\ got[c][k - 1] < got[c][k]
    /\ got[c][k] # got[c][k - 1] + 1 => Len(out) - got[c][k - 1] > Cap

\* A client that stays connected has been sent, or will be sent, the newest
\* message there is: lagging never wedges a connection (main.rs:350).
ClientsCatchUp ==
  \A c \in Clients :
    [](cursor[c] # 0 => <>(cursor[c] = 0 \/ cursor[c] = Len(out) + 1))

\* When the tables stay as they are the maps become equal to them, in spite
\* of failed queries; what was withdrawn goes too (main.rs:248-270).
MapsConverge == \A m \in Maps : \A S \in SUBSET Ips : <>[](table[m] = S) => <>[](map[m] = S)

\* The bridge subscribes again after it lost Redis (main.rs:296-330).
Resubscribes == []<>(bridge = "up")

\* "The map is the canonical truth applied at serve time" (main.rs:36-37): a
\* correction in the map, which PostgreSQL still has, stays in it.
CorrectionStays ==
  [][\A m \in Maps : map[m] \cap table[m] \subseteq map'[m]]_vars
=============================================================================
