--------------------------- MODULE SlidingWindow ---------------------------
(***************************************************************************)
(* What the aggregator promises: the buckets of the last N seconds by age, *)
(* the current second at age 0.  A flow goes into the current second; when *)
(* a second ends every bucket grows one second older and the oldest one is *)
(* forgotten.  How the buckets are stored is not said.                     *)
(***************************************************************************)
EXTENDS Buckets

CONSTANTS N, Flows

VARIABLE recent

Ages == 0..(N - 1)

Init == recent = [a \in Ages |-> EmptyBucket]

Record(f) == recent' = [recent EXCEPT ![0] = Folded(@, f)]

Tick == recent' = [a \in Ages |-> IF a = 0 THEN EmptyBucket ELSE recent[a - 1]]

Next == Tick \/ \E f \in Flows : Record(f)

Spec == Init /\ [][Next]_recent
=============================================================================
