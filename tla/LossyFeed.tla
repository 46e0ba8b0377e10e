----------------------------- MODULE LossyFeed -----------------------------
(***************************************************************************)
(* What StreamManager promises the readers of one IQ stream, without the   *)
(* ring, the locks or the threads: a feed of numbered chunks of which only *)
(* the newest are still held, and subscribers that move through it.  A     *)
(* subscriber never gets a chunk twice, never goes backwards, and misses a *)
(* chunk only when the feed has dropped it.                                *)
(***************************************************************************)
EXTENDS Integers

CONSTANT Subscribers

VARIABLES
    low,        \* number of the oldest chunk still held (high when none is)
    high,       \* number the next chunk will get
    position,   \* subscriber -> number of the next chunk it has not been given
    got         \* subscriber -> numbers of the chunks it was given

vars == <<low, high, position, got>>

Subscribed == DOMAIN position

TypeOK ==
    /\ low \in Nat /\ high \in Nat
    /\ \E S \in SUBSET Subscribers : position \in [S -> Nat]
    /\ got \in [Subscribers -> SUBSET Nat]

Init ==
    /\ low = 0 /\ high = 0
    /\ position = [s \in {} |-> 0]
    /\ got = [s \in Subscribers |-> {}]

\* The device delivers a chunk.
Publish ==
    /\ high' = high + 1
    /\ UNCHANGED <<low, position, got>>

\* The oldest chunk is dropped; a subscriber that still had to read it skips it.
Expire ==
    /\ low < high
    /\ low' = low + 1
    /\ position' = [s \in Subscribed |-> IF position[s] <= low THEN low + 1 ELSE position[s]]
    /\ UNCHANGED <<high, got>>

\* A retune: every chunk held is dropped and a number is left unused, so that
\* no subscriber is given a chunk from before the retune.
Flush ==
    /\ high' = high + 1 /\ low' = high + 1
    /\ position' = [s \in Subscribed |-> high + 1]
    /\ UNCHANGED got

Subscribe(s) ==
    /\ s \notin Subscribed
    /\ \E start \in {low, high} :
          position' = [x \in Subscribed \cup {s} |-> IF x = s THEN start ELSE position[x]]
    /\ got' = [got EXCEPT ![s] = {}]
    /\ UNCHANGED <<low, high>>

Unsubscribe(s) ==
    /\ s \in Subscribed
    /\ position' = [x \in Subscribed \ {s} |-> position[x]]
    /\ got' = [got EXCEPT ![s] = {}]
    /\ UNCHANGED <<low, high>>

\* s is given the chunks from its position up to last, none left out.
Deliver(s) ==
    /\ s \in Subscribed
    /\ \E last \in position[s] .. high - 1 :
          /\ position' = [position EXCEPT ![s] = last + 1]
          /\ got' = [got EXCEPT ![s] = @ \cup (position[s] .. last)]
    /\ UNCHANGED <<low, high>>

\* A first read that names no known subscriber both subscribes and is served.
SubscribeAndDeliver(s) ==
    /\ s \notin Subscribed
    /\ \E last \in low .. high - 1 :
          /\ position' = [x \in Subscribed \cup {s} |-> IF x = s THEN last + 1 ELSE position[x]]
          /\ got' = [got EXCEPT ![s] = low .. last]
    /\ UNCHANGED <<low, high>>

Next ==
    \/ Publish
    \/ Expire
    \/ Flush
    \/ \E s \in Subscribers :
          \/ Subscribe(s)
          \/ Unsubscribe(s)
          \/ Deliver(s)
          \/ SubscribeAndDeliver(s)

Spec == Init /\ [][Next]_vars
=============================================================================
