------------------------------ MODULE EventBus ------------------------------
(***************************************************************************)
(* The event bus (observa-bus/src/lib.rs): a tokio broadcast channel, that *)
(* is one ring of the last Capacity events shared by all receivers, each   *)
(* with a position of its own.                                             *)
(*                                                                         *)
(* Every Bus value, the original and each clone, keeps a receiver it never *)
(* reads, so that a publish cannot fail for want of receivers.  A stream   *)
(* (event_stream, sse_stream) is a receiver that skips the reports of lag. *)
(*                                                                         *)
(* The channel itself (send, recv, subscribe, drop) is tokio's: it is      *)
(* modelled from how Bus uses it.  tokio rounds the capacity up to a power *)
(* of two; Capacity is the rounded value (256 is one already).             *)
(***************************************************************************)
EXTENDS Integers, Sequences, FiniteSets

CONSTANTS
  Handles,    \* Bus values: the one of main and its clones
  Subs,       \* streams
  Events,     \* what is published
  Capacity,   \* of the ring
  MaxEvents   \* bound on the number of publishes

ASSUME BusAssumption ==
  /\ Capacity \in Nat \ {0}
  /\ MaxEvents \in Nat
  /\ IsFiniteSet(Handles)
  /\ IsFiniteSet(Subs)

VARIABLES
  handles,    \* the Bus values alive
  ring,       \* slot -> [pos, event]
  tail,       \* position of the next publish
  state,      \* stream -> "none", "live" or "ended"
  next,       \* stream -> position it reads next
  start,      \* history: stream -> the tail when it subscribed
  got,        \* history: stream -> positions it was given, in order
  missed      \* history: stream -> how many events its lag reports counted

vars == <<handles, ring, tail, state, next, start, got, missed>>
channelVars == <<handles, ring, tail>>
streamVars == <<state, next, start, got, missed>>

Slot(pos) == pos % Capacity
Live == {s \in Subs : state[s] = "live"}
Open == handles # {}

\* receivers of the channel: the streams and one for each Bus.
ReceiverCount == Cardinality(handles) + Cardinality(Live)

TypeOK ==
  /\ handles \subseteq Handles
  /\ tail \in 0..MaxEvents
  /\ ring \in [0..Capacity - 1 -> [pos : -Capacity..MaxEvents - 1, event : Events]]
  /\ state \in [Subs -> {"none", "live", "ended"}]
  /\ next \in [Subs -> 0..MaxEvents]
  /\ start \in [Subs -> 0..MaxEvents]
  /\ got \in [Subs -> Seq(0..MaxEvents - 1)]
  /\ missed \in [Subs -> 0..MaxEvents]

\* Bus::new().  An empty slot carries the position a full ring earlier.
Init ==
  /\ \E h \in Handles : handles = {h}
  /\ \E e \in Events : ring = [i \in 0..Capacity - 1 |-> [pos |-> i - Capacity, event |-> e]]
  /\ tail = 0
  /\ state = [s \in Subs |-> "none"]
  /\ next = [s \in Subs |-> 0]
  /\ start = [s \in Subs |-> 0]
  /\ got = [s \in Subs |-> <<>>]
  /\ missed = [s \in Subs |-> 0]

\* Clone for Bus: a sender and a receiver more.
Clone ==
  /\ Open
  /\ \E h \in Handles \ handles : handles' = handles \cup {h}
  /\ UNCHANGED <<ring, tail, streamVars>>

\* A Bus goes out of scope; the channel closes with the last one.
DropBus ==
  /\ \E h \in handles : handles' = handles \ {h}
  /\ UNCHANGED <<ring, tail, streamVars>>

\* publish(): send() overwrites the oldest slot.  It fails without receivers,
\* which cannot be: the Bus it is called on has one.
Publish ==
  /\ Open
  /\ tail < MaxEvents
  /\ ReceiverCount > 0
  /\ \E e \in Events : ring' = [ring EXCEPT ![Slot(tail)] = [pos |-> tail, event |-> e]]
  /\ tail' = tail + 1
  /\ UNCHANGED <<handles, streamVars>>

\* Mutant: the receiver starts with what the ring still holds.
SubscribeToPast(s) ==
  /\ Open
  /\ state[s] = "none"
  /\ state' = [state EXCEPT ![s] = "live"]
  /\ next' = [next EXCEPT ![s] = 0]
  /\ start' = [start EXCEPT ![s] = 0]
  /\ UNCHANGED <<got, missed, channelVars>>

\* subscribe(): a receiver of what is published from now on.
Subscribe(s) ==
  /\ Open
  /\ state[s] = "none"
  /\ state' = [state EXCEPT ![s] = "live"]
  /\ next' = [next EXCEPT ![s] = tail]
  /\ start' = [start EXCEPT ![s] = tail]
  /\ UNCHANGED <<got, missed, channelVars>>

\* The stream yields the event at its position.
RecvEvent(s) ==
  /\ state[s] = "live"
  /\ ring[Slot(next[s])].pos = next[s]
  /\ got' = [got EXCEPT ![s] = Append(@, next[s])]
  /\ next' = [next EXCEPT ![s] = @ + 1]
  /\ UNCHANGED <<state, start, missed, channelVars>>

\* Mutant: a lagging stream moves to the newest event.
RecvLaggedToTail(s) ==
  /\ state[s] = "live"
  /\ ring[Slot(next[s])].pos \notin {next[s], next[s] - Capacity}
  /\ next' = [next EXCEPT ![s] = tail]
  /\ missed' = [missed EXCEPT ![s] = @ + (tail - Capacity - next[s])]
  /\ UNCHANGED <<state, start, got, channelVars>>

\* Mutant: a lagging stream stays where it is.
RecvLaggedInPlace(s) ==
  /\ state[s] = "live"
  /\ ring[Slot(next[s])].pos \notin {next[s], next[s] - Capacity}
  /\ UNCHANGED vars

\* The slot has been overwritten: recv() reports how many events are lost and
\* moves to the oldest one kept; event_stream() logs that and goes on.
RecvLagged(s) ==
  /\ state[s] = "live"
  /\ ring[Slot(next[s])].pos \notin {next[s], next[s] - Capacity}
  /\ next' = [next EXCEPT ![s] = tail - Capacity]
  /\ missed' = [missed EXCEPT ![s] = @ + (tail - Capacity - next[s])]
  /\ UNCHANGED <<state, start, got, channelVars>>

\* Mutant: each stream holds a sender, so none of two can see the end.
RecvClosedLast(s) ==
  /\ state[s] = "live"
  /\ ring[Slot(next[s])].pos = next[s] - Capacity
  /\ ~Open
  /\ Live = {s}
  /\ state' = [state EXCEPT ![s] = "ended"]
  /\ UNCHANGED <<next, start, got, missed, channelVars>>

\* Nothing left to read and no Bus left: the stream ends.
RecvClosed(s) ==
  /\ state[s] = "live"
  /\ ring[Slot(next[s])].pos = next[s] - Capacity
  /\ ~Open
  /\ state' = [state EXCEPT ![s] = "ended"]
  /\ UNCHANGED <<next, start, got, missed, channelVars>>

\* The client disconnects and the stream is dropped.
Disconnect(s) ==
  /\ state[s] = "live"
  /\ state' = [state EXCEPT ![s] = "ended"]
  /\ UNCHANGED <<next, start, got, missed, channelVars>>

Poll(s) == RecvEvent(s) \/ RecvLagged(s) \/ RecvClosed(s)

Next ==
  \/ Clone
  \/ DropBus
  \/ Publish
  \/ \E s \in Subs : Subscribe(s) \/ Poll(s) \/ Disconnect(s)

Spec == Init /\ [][Next]_vars

\* A connected client's stream keeps being polled.
FairSpec == Spec /\ \A s \in Subs : WF_vars(Poll(s))

-----------------------------------------------------------------------------
(* Properties                                                              *)

\* Bus's doc: subscribers receive what is published after they subscribe, and
\* lose events only by lagging behind.  Up to where a stream has read, each
\* event was either given to it or counted in a lag report.
NothingLostQuietly ==
  \A s \in Subs : next[s] = start[s] + Len(got[s]) + missed[s]

\* event_stream()'s doc: the stream ends when the bus is dropped (with all of
\* its clones).
StreamEnds == \A s \in Subs : ~Open /\ state[s] = "live" ~> state[s] = "ended"

\* A stream that stays connected gets as far as the last event published.
CatchesUp == \A s \in Subs : \A p \in 1..MaxEvents :
  tail = p /\ state[s] = "live" ~> next[s] >= p \/ state[s] = "ended"

\* The events still ahead of a stream.
Ahead(s) ==
  IF state[s] # "live" THEN <<>>
  ELSE LET first == IF next[s] < tail - Capacity THEN tail - Capacity ELSE next[s]
       IN  [i \in 1..tail - first |-> ring[Slot(first + i - 1)].event]

\* The shared ring behaves as a bounded queue for each stream.
Promise == INSTANCE PubSub WITH
  open <- Open,
  queue <- [s \in Subs |-> Ahead(s)]

ImplementsPubSub == Promise!Spec
=============================================================================
