--------------------------- MODULE EventBusProofs ---------------------------
(* The shared ring loses nothing quietly and behaves as a queue for each    *)
(* stream, for any capacity, streams and number of events: proofs about     *)
(* EventBus.                                                                *)
EXTENDS EventBus, SequenceTheorems, TLAPS

\* The slots hold the last Capacity positions, each its own.
RingInv ==
  \A i \in 0..Capacity - 1 :
    ring[i].pos \in tail - Capacity..tail - 1 /\ Slot(ring[i].pos) = i

\* A stream reads between where it began and where the ring ends; one that never
\* began has been given nothing.
StreamsInv ==
  \A s \in Subs :
    /\ start[s] <= next[s] /\ next[s] <= tail
    /\ state[s] = "none" => start[s] = 0 /\ next[s] = 0

\* The inductive invariant.  What a slot's position tells a stream - read it, it is
\* lost, or there is nothing yet - rests on RingInv.
IInv == TypeOK /\ RingInv /\ StreamsInv /\ NothingLostQuietly

-----------------------------------------------------------------------------
(* Positions and slots                                                     *)

\* Two positions with one slot are the same or at least a ring apart.
LEMMA SlotDistance ==
  ASSUME NEW p \in Int, NEW q \in Int, Slot(p) = Slot(q), q <= p
  PROVE  p = q \/ p - q >= Capacity
<1> DEFINE k == p \div Capacity
           l == q \div Capacity
<1>1. k \in Int /\ l \in Int /\ p = Capacity * k + Slot(p) /\ q = Capacity * l + Slot(q)
  BY BusAssumption DEF Slot
<1> HIDE DEF k, l
<1>2. p - q = Capacity * (k - l) /\ k - l \in Int
  BY <1>1, BusAssumption DEF Slot
<1>3. CASE k - l >= 1
  BY <1>2, <1>3, BusAssumption
<1>4. CASE k - l = 0
  BY <1>2, <1>4, BusAssumption
<1>5. CASE k - l <= -1
  <2>1. Capacity * (k - l) <= -Capacity
    BY <1>2, <1>5, BusAssumption
  <2> QED BY <1>2, <2>1, BusAssumption
<1> QED BY <1>2, <1>3, <1>4, <1>5

\* The slot is the rest of the position.
LEMMA SlotIsRest ==
  ASSUME NEW p \in Int, NEW k \in Int, NEW r \in 0..Capacity - 1, p = Capacity * k + r
  PROVE  Slot(p) = r
<1> DEFINE l == p \div Capacity
<1>1. l \in Int /\ p = Capacity * l + Slot(p) /\ Slot(p) \in 0..Capacity - 1
  BY BusAssumption DEF Slot
<1>2. r - Slot(p) = Capacity * (l - k) /\ l - k \in Int
  <2>1. Capacity * (l - k) = Capacity * l - Capacity * k
    BY <1>1, BusAssumption
  <2> HIDE DEF l
  <2> QED BY <1>1, <2>1, BusAssumption
<1> HIDE DEF l
<1>3. l - k >= 1 => Capacity * (l - k) >= Capacity
  BY <1>2, BusAssumption
<1>4. l - k <= -1 => Capacity * (l - k) <= -Capacity
  BY <1>2, BusAssumption
<1>5. l - k = 0
  BY <1>1, <1>2, <1>3, <1>4, BusAssumption
<1>6. r - Slot(p) = Capacity * 0
  BY <1>2, <1>5
<1> QED BY <1>1, <1>6, BusAssumption

\* A position has a slot, and has it in common with the one a full ring before.
LEMMA SlotPeriod ==
  ASSUME NEW p \in Int
  PROVE  Slot(p) \in 0..Capacity - 1 /\ Slot(p - Capacity) = Slot(p)
<1> DEFINE k == p \div Capacity
           before == p - Capacity
           less == k - 1
<1>1. k \in Int /\ p = Capacity * k + Slot(p) /\ Slot(p) \in 0..Capacity - 1
  BY BusAssumption DEF Slot
<1>2. before = Capacity * less + Slot(p) /\ less \in Int /\ before \in Int
  <2> HIDE DEF k
  <2> QED BY <1>1, BusAssumption
<1> HIDE DEF k, before, less
<1>3. Slot(before) = Slot(p)
  BY <1>1, <1>2, SlotIsRest
<1> QED BY <1>1, <1>3 DEF before

\* The slot of a position not above the tail holds it if it is among the last Capacity,
\* the one a ring before it if it is the tail, and else a later one.
LEMMA SlotTells ==
  ASSUME IInv, NEW n \in Int, n <= tail
  PROVE  /\ n < tail /\ n >= tail - Capacity => ring[Slot(n)].pos = n
         /\ n = tail => ring[Slot(n)].pos = n - Capacity
         /\ n < tail - Capacity => ring[Slot(n)].pos \notin {n, n - Capacity}
<1> DEFINE q == ring[Slot(n)].pos
<1>1. Slot(n) \in 0..Capacity - 1 /\ tail \in Int
  <2>1. tail \in Int
    BY BusAssumption DEF IInv, TypeOK
  <2> QED BY <2>1, SlotPeriod
<1>2. q \in tail - Capacity..tail - 1 /\ Slot(q) = Slot(n)
  BY <1>1 DEF IInv, RingInv
<1>3. q \in Int /\ q - Capacity \in Int /\ n - Capacity \in Int /\ Capacity \in Nat \ {0}
  BY <1>1, <1>2, BusAssumption
<1> HIDE DEF q
<1>4. q < n => n - q >= Capacity
  BY <1>2, <1>3, SlotDistance
<1>5. n < q => q - n >= Capacity
  BY <1>2, <1>3, SlotDistance
<1>6. q = n \/ n - q >= Capacity \/ q - n >= Capacity
  BY <1>3, <1>4, <1>5
<1>7. /\ n < tail /\ n >= tail - Capacity => q = n
      /\ n = tail => q = n - Capacity
      /\ n < tail - Capacity => q \notin {n, n - Capacity}
  BY <1>1, <1>2, <1>3, <1>6
<1> QED BY <1>7 DEF q

-----------------------------------------------------------------------------
(* The invariant                                                           *)

\* A new channel: every slot carries the position a full ring earlier.
LEMMA InvInit == Init => IInv
<1> SUFFICES ASSUME Init PROVE IInv
  OBVIOUS
<1> USE BusAssumption DEF Init
<1>1. ring \in [0..Capacity - 1 -> [pos : -Capacity..MaxEvents - 1, event : Events]]
  OBVIOUS
<1>2. TypeOK
  BY <1>1 DEF TypeOK
<1>3. RingInv
  <2> SUFFICES ASSUME NEW i \in 0..Capacity - 1
               PROVE  ring[i].pos \in tail - Capacity..tail - 1 /\ Slot(ring[i].pos) = i
    BY DEF RingInv
  <2>1. ring[i].pos = i - Capacity
    OBVIOUS
  <2>2. Slot(i - Capacity) = Slot(i)
    BY SlotPeriod
  <2>3. Slot(i) = i
    <3> DEFINE none == 0
    <3>1. i = Capacity * none + i /\ i \in Int /\ none \in Int
      OBVIOUS
    <3> HIDE DEF none
    <3> QED BY <3>1, SlotIsRest
  <2> QED BY <2>1, <2>2, <2>3
<1>4. StreamsInv /\ NothingLostQuietly
  BY DEF StreamsInv, NothingLostQuietly
<1> QED BY <1>2, <1>3, <1>4 DEF IInv

\* A publish overwrites the position a full ring before its own, the oldest.
LEMMA PublishInv == IInv /\ Publish => IInv'
<1> SUFFICES ASSUME IInv, Publish PROVE IInv'
  OBVIOUS
<1>0. tail \in 0..MaxEvents /\ tail < MaxEvents /\ tail' = tail + 1
  BY DEF IInv, TypeOK, Publish
<1>1. PICK e \in Events : ring' = [ring EXCEPT ![Slot(tail)] = [pos |-> tail, event |-> e]]
  BY DEF Publish
<1>2. /\ UNCHANGED <<handles, state, next, start, got, missed>>
      /\ tail' \in 0..MaxEvents
  BY <1>0, BusAssumption DEF Publish, streamVars
<1>3. Slot(tail) \in 0..Capacity - 1 /\ tail \in Int /\ MaxEvents \in Nat /\ Capacity \in Nat \ {0}
  BY <1>0, SlotPeriod, BusAssumption
<1>4. /\ ring' \in [0..Capacity - 1 -> [pos : -Capacity..MaxEvents - 1, event : Events]]
      /\ ring'[Slot(tail)].pos = tail
      /\ \A i \in 0..Capacity - 1 : i # Slot(tail) => ring'[i] = ring[i]
  BY <1>0, <1>1, <1>3 DEF IInv, TypeOK
<1>5. TypeOK'
  BY <1>2, <1>4 DEF IInv, TypeOK
<1>6. RingInv'
  <2> SUFFICES ASSUME NEW i \in 0..Capacity - 1
               PROVE  ring'[i].pos \in tail' - Capacity..tail' - 1 /\ Slot(ring'[i].pos) = i
    BY DEF RingInv, Slot
  <2>1. CASE i = Slot(tail)
    BY <1>0, <1>3, <1>4, <2>1
  <2>2. CASE i # Slot(tail)
    <3>1. ring'[i].pos \in tail - Capacity..tail - 1 /\ Slot(ring'[i].pos) = i
      BY <1>4, <2>2 DEF IInv, RingInv
    <3>2. ring'[i].pos # tail - Capacity
      BY <1>3, <2>2, <3>1, SlotPeriod
    <3> QED BY <1>0, <1>3, <3>1, <3>2
  <2> QED BY <2>1, <2>2
<1>7. StreamsInv' /\ NothingLostQuietly'
  BY <1>0, <1>2, BusAssumption DEF IInv, TypeOK, StreamsInv, NothingLostQuietly
<1> QED BY <1>5, <1>6, <1>7 DEF IInv

\* A stream begins at the tail, is given an event, or learns how many it has lost.
LEMMA StreamInv ==
  ASSUME IInv, NEW s \in Subs, Subscribe(s) \/ RecvEvent(s) \/ RecvLagged(s)
  PROVE  IInv'
<1>0. /\ UNCHANGED <<handles, ring, tail>>
      /\ tail \in 0..MaxEvents /\ MaxEvents \in Nat /\ Capacity \in Nat \ {0}
      /\ next[s] \in Nat /\ start[s] \in Nat /\ missed[s] \in Nat
      /\ start[s] <= next[s] /\ next[s] <= tail
  BY BusAssumption DEF IInv, TypeOK, StreamsInv, Subscribe, RecvEvent, RecvLagged, channelVars
<1> DEFINE n == Len(got[s])
<1>5. n \in Nat /\ next[s] = start[s] + n + missed[s]
  <2>1. got[s] \in Seq(0..MaxEvents - 1)
    BY DEF IInv, TypeOK
  <2> QED BY <2>1 DEF IInv, NothingLostQuietly
<1> HIDE DEF n
<1>1. RingInv'
  BY <1>0 DEF IInv, RingInv
<1>2. CASE Subscribe(s)
  <2>1. /\ state' = [state EXCEPT ![s] = "live"]
        /\ next' = [next EXCEPT ![s] = tail] /\ start' = [start EXCEPT ![s] = tail]
        /\ UNCHANGED <<got, missed>> /\ state[s] = "none"
    BY <1>2 DEF Subscribe
  <2>2. start[s] = 0 /\ next[s] = 0 /\ Len(got[s]) = 0 /\ missed[s] = 0
    BY <1>0, <1>5, <2>1 DEF n, IInv, StreamsInv
  <2>3. TypeOK'
    BY <1>0, <2>1 DEF IInv, TypeOK
  <2>4. /\ next'[s] = tail /\ start'[s] = tail /\ state'[s] = "live"
        /\ \A x \in Subs \ {s} : /\ next'[x] = next[x] /\ start'[x] = start[x]
                                  /\ state'[x] = state[x]
    BY <2>1 DEF IInv, TypeOK
  <2>5. StreamsInv'
    BY <1>0, <2>4 DEF IInv, StreamsInv
  <2>6. NothingLostQuietly'
    BY <1>0, <2>1, <2>2, <2>4 DEF IInv, NothingLostQuietly
  <2> QED BY <1>1, <2>3, <2>5, <2>6 DEF IInv
<1>3. CASE RecvEvent(s)
  <2>1. /\ got' = [got EXCEPT ![s] = Append(@, next[s])]
        /\ next' = [next EXCEPT ![s] = @ + 1]
        /\ UNCHANGED <<state, start, missed>> /\ state[s] = "live"
        /\ ring[Slot(next[s])].pos = next[s]
    BY <1>3 DEF RecvEvent
  <2>2. next[s] < tail
    BY <1>0, <2>1, SlotTells
  <2>3. /\ Append(got[s], next[s]) \in Seq(0..MaxEvents - 1)
        /\ Len(Append(got[s], next[s])) = Len(got[s]) + 1
    <3>1. got[s] \in Seq(0..MaxEvents - 1) /\ next[s] \in 0..MaxEvents - 1
      BY <1>0, <2>2 DEF IInv, TypeOK
    <3> QED BY <3>1
  <2>4. next[s] + 1 \in 0..MaxEvents
    BY <1>0, <2>2
  <2>5. TypeOK'
    BY <1>0, <2>1, <2>3, <2>4 DEF IInv, TypeOK
  <2>6. /\ next'[s] = next[s] + 1 /\ got'[s] = Append(got[s], next[s])
        /\ \A x \in Subs \ {s} : next'[x] = next[x] /\ got'[x] = got[x]
    BY <2>1 DEF IInv, TypeOK
  <2>7. StreamsInv'
    BY <1>0, <2>1, <2>2, <2>6 DEF IInv, StreamsInv
  <2>8. NothingLostQuietly'
    <3>1. next'[s] = start'[s] + Len(got'[s]) + missed'[s]
      <4>1. Len(got'[s]) = n + 1 /\ start'[s] = start[s] /\ missed'[s] = missed[s]
        BY <2>1, <2>3, <2>6 DEF n
      <4>2. next[s] + 1 = start[s] + (n + 1) + missed[s]
        BY <1>0, <1>5
      <4> QED BY <2>6, <4>1, <4>2
    <3> QED BY <2>1, <2>6, <3>1 DEF IInv, NothingLostQuietly
  <2> QED BY <1>1, <2>5, <2>7, <2>8 DEF IInv
<1>4. CASE RecvLagged(s)
  <2>1. /\ next' = [next EXCEPT ![s] = tail - Capacity]
        /\ missed' = [missed EXCEPT ![s] = @ + (tail - Capacity - next[s])]
        /\ UNCHANGED <<state, start, got>> /\ state[s] = "live"
        /\ ring[Slot(next[s])].pos \notin {next[s], next[s] - Capacity}
    BY <1>4 DEF RecvLagged
  <2>2. next[s] < tail - Capacity
    BY <1>0, <2>1, SlotTells
  <2>3. /\ tail - Capacity \in 0..MaxEvents
        /\ missed[s] + (tail - Capacity - next[s]) \in 0..MaxEvents
    BY <1>0, <1>5, <2>2
  <2>4. TypeOK'
    BY <1>0, <2>1, <2>3 DEF IInv, TypeOK
  <2>5. /\ next'[s] = tail - Capacity /\ missed'[s] = missed[s] + (tail - Capacity - next[s])
        /\ \A x \in Subs \ {s} : next'[x] = next[x] /\ missed'[x] = missed[x]
    BY <2>1 DEF IInv, TypeOK
  <2>6. StreamsInv'
    BY <1>0, <2>1, <2>2, <2>5 DEF IInv, StreamsInv
  <2>7. NothingLostQuietly'
    <3>1. next'[s] = start'[s] + Len(got'[s]) + missed'[s]
      BY <1>0, <1>5, <2>1, <2>5 DEF n
    <3> QED BY <2>1, <2>5, <3>1 DEF IInv, NothingLostQuietly
  <2> QED BY <1>1, <2>4, <2>6, <2>7 DEF IInv
<1> QED BY <1>2, <1>3, <1>4

\* A Bus is cloned or dropped, a stream ends.
LEMMA EndInv ==
  ASSUME IInv, Clone \/ DropBus \/ \E s \in Subs : RecvClosed(s) \/ Disconnect(s)
  PROVE  IInv'
<1>1. UNCHANGED <<ring, tail, next, start, got, missed>>
  BY DEF Clone, DropBus, RecvClosed, Disconnect, streamVars, channelVars
<1>2. handles' \subseteq Handles /\ state' \in [Subs -> {"none", "live", "ended"}]
  BY DEF IInv, TypeOK, Clone, DropBus, RecvClosed, Disconnect, streamVars, channelVars
<1>3. \A s \in Subs : state'[s] = "none" => state[s] = "none"
  BY DEF IInv, TypeOK, Clone, DropBus, RecvClosed, Disconnect, streamVars
<1>4. TypeOK'
  BY <1>1, <1>2 DEF IInv, TypeOK
<1>5. RingInv' /\ StreamsInv' /\ NothingLostQuietly'
  BY <1>1, <1>3 DEF IInv, RingInv, StreamsInv, NothingLostQuietly
<1> QED BY <1>4, <1>5 DEF IInv

\* IInv holds in every reachable state.
THEOREM Inductive == Spec => []IInv
<1>1. IInv /\ [Next]_vars => IInv'
  <2> SUFFICES ASSUME IInv, [Next]_vars PROVE IInv'
    OBVIOUS
  <2>1. CASE Next
    BY <2>1, PublishInv, StreamInv, EndInv DEF Next, Poll
  <2>2. CASE UNCHANGED vars
    BY <2>2 DEF vars, IInv, TypeOK, RingInv, StreamsInv, NothingLostQuietly
  <2> QED BY <2>1, <2>2
<1> QED BY InvInit, <1>1, PTL DEF Spec

\* The state is of its type.
THEOREM TypeCorrect == Spec => []TypeOK
<1>1. IInv => TypeOK
  BY DEF IInv
<1> QED BY Inductive, <1>1, PTL

\* Up to where a stream has read, every event published since it began was given to it
\* or counted in one of its lag reports.
THEOREM LossIsReported == Spec => []NothingLostQuietly
<1>1. IInv => NothingLostQuietly
  BY DEF IInv
<1> QED BY Inductive, <1>1, PTL

-----------------------------------------------------------------------------
(* The ring implements a queue for each stream                             *)

\* A function on 1..n is a sequence of n elements.
LEMMA FunctionIsSeq ==
  ASSUME NEW n \in Nat, NEW S, NEW f \in [1..n -> S]
  PROVE  f \in Seq(S) /\ Len(f) = n
OBVIOUS

\* The position of the next event the ring still has for a stream that is at n, and the
\* events from there to the tail, for any ring and tail.
First(n, end) == IF n < end - Capacity THEN end - Capacity ELSE n
Kept(slots, n, end) == [i \in 1..end - First(n, end) |-> slots[Slot(First(n, end) + i - 1)].event]

LEMMA KeptIsSeq ==
  ASSUME NEW slots \in [0..Capacity - 1 -> [pos : Int, event : Events]],
         NEW end \in Nat, NEW n \in Nat, n <= end
  PROVE  /\ Kept(slots, n, end) \in Seq(Events)
         /\ Len(Kept(slots, n, end)) = end - First(n, end)
         /\ \A i \in 1..end - First(n, end) :
              Kept(slots, n, end)[i] = slots[Slot(First(n, end) + i - 1)].event
         /\ First(n, end) \in end - Capacity..end /\ First(n, end) \in Nat
<1>1. First(n, end) \in end - Capacity..end /\ First(n, end) \in Nat
  BY BusAssumption DEF First
<1>2. ASSUME NEW i \in 1..end - First(n, end)
      PROVE  slots[Slot(First(n, end) + i - 1)].event \in Events
  <2> DEFINE p == First(n, end) + i - 1
  <2>1. p \in Int
    BY <1>1
  <2> HIDE DEF p
  <2>2. Slot(p) \in 0..Capacity - 1
    BY <2>1, SlotPeriod
  <2>3. slots[Slot(p)].event \in Events
    BY <2>2
  <2> QED BY <2>3 DEF p
<1>3. end - First(n, end) \in Nat
  BY <1>1
<1>4. Kept(slots, n, end) \in [1..end - First(n, end) -> Events]
  BY <1>2 DEF Kept
<1>5. Kept(slots, n, end) \in Seq(Events) /\ Len(Kept(slots, n, end)) = end - First(n, end)
  BY <1>3, <1>4, FunctionIsSeq
<1> QED BY <1>1, <1>5 DEF Kept

\* What is ahead of the streams, in these words.
LEMMA AheadIsKept ==
  \A s \in Subs : /\ state[s] = "live" => Ahead(s) = Kept(ring, next[s], tail)
                  /\ state[s] # "live" => Ahead(s) = <<>>
                  /\ state'[s] = "live" => Ahead(s)' = Kept(ring', next'[s], tail')
                  /\ state'[s] # "live" => Ahead(s)' = <<>>
BY DEF Ahead, Kept, First, Slot

\* The types that Kept needs.
LEMMA KeptTypes ==
  IInv => /\ ring \in [0..Capacity - 1 -> [pos : Int, event : Events]]
          /\ tail \in Nat
          /\ Capacity \in Nat \ {0}
          /\ \A s \in Subs : next[s] \in Nat /\ next[s] <= tail
<1> SUFFICES ASSUME IInv
             PROVE  /\ ring \in [0..Capacity - 1 -> [pos : Int, event : Events]]
                    /\ tail \in Nat
                    /\ \A s \in Subs : next[s] \in Nat /\ next[s] <= tail
  BY BusAssumption
<1>1. -Capacity..MaxEvents - 1 \subseteq Int
  BY BusAssumption
<1>2. ring \in [0..Capacity - 1 -> [pos : -Capacity..MaxEvents - 1, event : Events]]
  BY DEF IInv, TypeOK
<1>3. ring \in [0..Capacity - 1 -> [pos : Int, event : Events]]
  BY <1>1, <1>2
<1> QED BY <1>3, BusAssumption DEF IInv, TypeOK, StreamsInv

\* A publish puts the event behind what is ahead of a live stream, and takes the oldest
\* away when there are Capacity already.
LEMMA PublishPushes ==
  ASSUME NEW slots \in [0..Capacity - 1 -> [pos : Int, event : Events]],
         NEW end \in Nat, NEW n \in Nat, n <= end, NEW e \in Events
  PROVE  Kept([slots EXCEPT ![Slot(end)] = [pos |-> end, event |-> e]], n, end + 1)
           = Promise!Pushed(Kept(slots, n, end), e)
<1> DEFINE last == end + 1
           f == First(n, end)
           g == First(n, last)
           new == [slots EXCEPT ![Slot(end)] = [pos |-> end, event |-> e]]
           q == Kept(slots, n, end)
           r == Kept(new, n, last)
<1>1. /\ Slot(end) \in 0..Capacity - 1
      /\ Capacity \in Nat \ {0}
  <2>1. end \in Int
    OBVIOUS
  <2> QED BY <2>1, SlotPeriod, BusAssumption
<1>2. /\ q \in Seq(Events) /\ Len(q) = end - f
      /\ \A i \in 1..end - f : q[i] = slots[Slot(f + i - 1)].event
      /\ f \in end - Capacity..end /\ f \in Nat
  BY KeptIsSeq
<1>3. /\ r \in Seq(Events) /\ Len(r) = last - g
      /\ \A i \in 1..last - g : r[i] = new[Slot(g + i - 1)].event
  <2>1. new \in [0..Capacity - 1 -> [pos : Int, event : Events]]
    BY <1>1
  <2>2. last \in Nat /\ n <= last
    OBVIOUS
  <2> HIDE DEF new, last
  <2> QED BY <2>1, <2>2, KeptIsSeq
<1>4. g = IF end - f < Capacity THEN f ELSE f + 1
  BY <1>1 DEF First
<1>5. /\ new[Slot(end)].event = e
      /\ \A p \in Nat : p < end /\ end - p < Capacity => new[Slot(p)] = slots[Slot(p)]
  <2>1. ASSUME NEW p \in Nat, p < end, end - p < Capacity PROVE Slot(p) # Slot(end)
    BY <1>1, <2>1, SlotDistance
  <2>2. ASSUME NEW p \in Nat PROVE Slot(p) \in 0..Capacity - 1
    <3>1. p \in Int
      OBVIOUS
    <3> QED BY <3>1, SlotPeriod
  <2> QED BY <1>1, <2>1, <2>2
<1>. last = end + 1
  OBVIOUS
<1> HIDE DEF q, r, f, g, new, last
<1>6. ASSUME end - f < Capacity PROVE r = Promise!Pushed(q, e)
  <2>1. Promise!Pushed(q, e) = Append(q, e)
    BY <1>2, <1>6 DEF Promise!Pushed
  <2>2. /\ g = f
        /\ Append(q, e) \in Seq(Events) /\ Len(Append(q, e)) = end - f + 1
        /\ Append(q, e)[end - f + 1] = e
        /\ \A i \in 1..end - f : Append(q, e)[i] = q[i]
    BY <1>2, <1>4, <1>6
  <2>3. ASSUME NEW i \in 1..end - f + 1 PROVE r[i] = Append(q, e)[i]
    <3>1. r[i] = new[Slot(f + i - 1)].event
      BY <1>2, <1>3, <2>2
    <3>2. CASE i = end - f + 1
      BY <1>2, <1>5, <2>2, <3>1, <3>2
    <3>3. CASE i \in 1..end - f
      <4>1. f + i - 1 \in Nat /\ f + i - 1 < end /\ end - (f + i - 1) < Capacity
        BY <1>1, <1>2, <1>6, <3>3
      <4>2. new[Slot(f + i - 1)] = slots[Slot(f + i - 1)]
        BY <1>5, <4>1
      <4> QED BY <1>2, <2>2, <3>1, <3>3, <4>2
    <3> QED BY <1>2, <3>2, <3>3
  <2>4. Len(r) = end - f + 1
    BY <1>2, <1>3, <2>2
  <2> QED BY <1>3, <2>1, <2>2, <2>3, <2>4, SeqEqual
<1>7. ASSUME end - f = Capacity PROVE r = Promise!Pushed(q, e)
  <2>1. q # <<>>
    BY <1>1, <1>2, <1>7
  <2>2. /\ Promise!Pushed(q, e) = Append(Tail(q), e)
        /\ Tail(q) \in Seq(Events) /\ Len(Tail(q)) = Capacity - 1
        /\ \A i \in 1..Capacity - 1 : Tail(q)[i] = q[i + 1]
    BY <1>1, <1>2, <1>7, <2>1, HeadTailProperties DEF Promise!Pushed
  <2>3. /\ g = f + 1
        /\ Append(Tail(q), e) \in Seq(Events) /\ Len(Append(Tail(q), e)) = Capacity
        /\ Append(Tail(q), e)[Capacity] = e
        /\ \A i \in 1..Capacity - 1 : Append(Tail(q), e)[i] = q[i + 1]
    BY <1>1, <1>4, <1>7, <2>2, AppendProperties
  <2>4. ASSUME NEW i \in 1..Capacity PROVE r[i] = Append(Tail(q), e)[i]
    <3>1. r[i] = new[Slot(f + i)].event
      <4>1. g + i - 1 = f + i /\ i \in 1..last - g
        BY <1>1, <1>2, <1>7, <2>3
      <4> QED BY <1>3, <4>1
    <3>2. CASE i = Capacity
      <4>1. f + i = end
        BY <1>2, <1>7, <3>2
      <4> QED BY <1>5, <2>3, <3>1, <3>2, <4>1
    <3>3. CASE i \in 1..Capacity - 1
      <4>1. f + i \in Nat /\ f + i < end /\ end - (f + i) < Capacity
        BY <1>1, <1>2, <1>7, <3>3
      <4>2. new[Slot(f + i)] = slots[Slot(f + i)]
        BY <1>5, <4>1
      <4>3. q[i + 1] = slots[Slot(f + i)].event
        <5>1. i + 1 \in 1..end - f /\ f + (i + 1) - 1 = f + i
          BY <1>1, <1>2, <1>7, <3>3
        <5> QED BY <1>2, <5>1
      <4> QED BY <2>3, <3>1, <3>3, <4>2, <4>3
    <3>4. i = Capacity \/ i \in 1..Capacity - 1
      BY <1>1
    <3> QED BY <3>2, <3>3, <3>4
  <2>5. Len(r) = Capacity
    BY <1>1, <1>2, <1>3, <1>7, <2>3
  <2> QED BY <1>3, <2>2, <2>3, <2>4, <2>5, SeqEqual
<1>8. end - f < Capacity \/ end - f = Capacity
  BY <1>1, <1>2
<1>9. r = Promise!Pushed(q, e)
  BY <1>6, <1>7, <1>8
<1> QED BY <1>9 DEF q, r, new, last

\* The queues of the promise.
Queues == [s \in Subs |-> Ahead(s)]

\* A publish is a publish of the promise.
LEMMA PublishStep == IInv /\ Publish => Promise!Publish
<1> SUFFICES ASSUME IInv, Publish PROVE Promise!Publish
  OBVIOUS
<1>1. PICK e \in Events : ring' = [ring EXCEPT ![Slot(tail)] = [pos |-> tail, event |-> e]]
  BY DEF Publish
<1>2. Open /\ Open' = Open /\ tail' = tail + 1 /\ state' = state /\ next' = next
  BY DEF Publish, Open, streamVars
<1>3. ASSUME NEW s \in Subs
      PROVE  Ahead(s)' = IF state[s] = "live" THEN Promise!Pushed(Ahead(s), e) ELSE Ahead(s)
  <2>1. CASE state[s] = "live"
    <3>1. /\ Ahead(s) = Kept(ring, next[s], tail)
          /\ Ahead(s)' = Kept(ring', next[s], tail + 1)
      BY <1>2, <2>1, AheadIsKept
    <3>2. Kept([ring EXCEPT ![Slot(tail)] = [pos |-> tail, event |-> e]], next[s], tail + 1)
            = Promise!Pushed(Kept(ring, next[s], tail), e)
      BY KeptTypes, PublishPushes
    <3> QED BY <1>1, <2>1, <3>1, <3>2
  <2>2. CASE state[s] # "live"
    BY <1>2, <2>2, AheadIsKept
  <2> QED BY <2>1, <2>2
<1>4. Queues' = [s \in Subs |-> IF state[s] = "live" THEN Promise!Pushed(Queues[s], e)
                                                   ELSE Queues[s]]
  BY <1>3 DEF Queues
<1> QED BY <1>2, <1>4 DEF Promise!Publish, Queues

\* A new stream has nothing ahead of it.
LEMMA SubscribeStep == ASSUME IInv, NEW s \in Subs, Subscribe(s) PROVE Promise!Subscribe(s)
<1>1. /\ Open /\ Open' = Open /\ ring' = ring /\ tail' = tail
      /\ state[s] = "none" /\ state' = [state EXCEPT ![s] = "live"]
      /\ next' = [next EXCEPT ![s] = tail]
  BY DEF Subscribe, channelVars, Open
<1>2. Ahead(s)' = <<>>
  <2>1. Ahead(s)' = Kept(ring, tail, tail)
    BY <1>1, AheadIsKept DEF IInv, TypeOK
  <2>2. Kept(ring, tail, tail) \in Seq(Events) /\ Len(Kept(ring, tail, tail)) = 0
    <3>1. First(tail, tail) = tail /\ tail - tail = 0 /\ tail <= tail
      BY KeptTypes DEF First
    <3> QED BY <3>1, KeptTypes, KeptIsSeq
  <2> QED BY <2>1, <2>2, EmptySeq
<1>3. \A x \in Subs : Ahead(x)' = Ahead(x)
  BY <1>1, <1>2, AheadIsKept DEF IInv, TypeOK
<1> QED BY <1>1, <1>3 DEF Promise!Subscribe

\* An event read is taken from the front of the queue.
LEMMA RecvEventStep == ASSUME IInv, NEW s \in Subs, RecvEvent(s) PROVE Promise!Deliver(s)
<1>1. /\ Open' = Open /\ ring' = ring /\ tail' = tail /\ state' = state
      /\ state[s] = "live" /\ next' = [next EXCEPT ![s] = @ + 1]
      /\ ring[Slot(next[s])].pos = next[s]
  BY DEF RecvEvent, channelVars, Open
<1> DEFINE n == next[s]
           m == next[s] + 1
           q == Kept(ring, n, tail)
           r == Kept(ring, m, tail)
<1>2. /\ n \in Nat /\ n < tail /\ n <= tail /\ tail \in Nat /\ m \in Nat /\ m <= tail
      /\ Capacity \in Nat \ {0}
  BY <1>1, KeptTypes, SlotTells
<1>3. n >= tail - Capacity
  BY <1>1, <1>2, SlotTells
<1>4. First(n, tail) = n /\ First(m, tail) = n + 1
  BY <1>2, <1>3 DEF First
<1> HIDE DEF n, m
<1>5. /\ q \in Seq(Events) /\ Len(q) = tail - n
      /\ \A i \in 1..tail - n : q[i] = ring[Slot(n + i - 1)].event
  <2>1. /\ q \in Seq(Events) /\ Len(q) = tail - First(n, tail)
        /\ \A i \in 1..tail - First(n, tail) : q[i] = ring[Slot(First(n, tail) + i - 1)].event
    BY <1>2, KeptTypes, KeptIsSeq
  <2> QED BY <1>4, <2>1
<1>6. /\ r \in Seq(Events) /\ Len(r) = tail - (n + 1)
      /\ \A i \in 1..tail - (n + 1) : r[i] = ring[Slot(n + 1 + i - 1)].event
  <2>1. /\ r \in Seq(Events) /\ Len(r) = tail - First(m, tail)
        /\ \A i \in 1..tail - First(m, tail) : r[i] = ring[Slot(First(m, tail) + i - 1)].event
    BY <1>2, KeptTypes, KeptIsSeq
  <2> QED BY <1>4, <2>1
<1>7. r = Tail(q) /\ q # <<>>
  <2> HIDE DEF q, r
  <2>1. q # <<>>
    BY <1>2, <1>5
  <2>2. /\ Tail(q) \in Seq(Events) /\ Len(Tail(q)) = tail - (n + 1)
        /\ \A i \in 1..tail - (n + 1) : Tail(q)[i] = q[i + 1]
    BY <1>2, <1>5, <2>1, HeadTailProperties
  <2>3. ASSUME NEW i \in 1..tail - (n + 1) PROVE r[i] = Tail(q)[i]
    <3>1. i + 1 \in 1..tail - n /\ n + (i + 1) - 1 = n + 1 + i - 1
      BY <1>2
    <3> QED BY <1>5, <1>6, <2>2, <3>1
  <2> QED BY <1>6, <2>1, <2>2, <2>3, SeqEqual
<1>8. Ahead(s) = q /\ Ahead(s)' = r
  BY <1>1, AheadIsKept DEF IInv, TypeOK, n, m
<1>9. \A x \in Subs \ {s} : Ahead(x)' = Ahead(x)
  BY <1>1, AheadIsKept DEF IInv, TypeOK
<1>10. Queues' = [Queues EXCEPT ![s] = Tail(@)] /\ Queues[s] # <<>>
  BY <1>7, <1>8, <1>9 DEF Queues
<1> QED BY <1>1, <1>10 DEF Promise!Deliver, Queues

\* Where a lag report moves a stream to is where its queue begins already.
LEMMA RecvLaggedStep == ASSUME IInv, NEW s \in Subs, RecvLagged(s) PROVE UNCHANGED Promise!vars
<1>1. /\ Open' = Open /\ ring' = ring /\ tail' = tail /\ state' = state
      /\ state[s] = "live" /\ next' = [next EXCEPT ![s] = tail - Capacity]
      /\ ring[Slot(next[s])].pos \notin {next[s], next[s] - Capacity}
  BY DEF RecvLagged, channelVars, Open
<1>2. next[s] < tail - Capacity
  BY <1>1, KeptTypes, SlotTells
<1>3. First(next[s], tail) = First(tail - Capacity, tail)
  BY <1>2, KeptTypes DEF First
<1>4. Kept(ring, next[s], tail) = Kept(ring, tail - Capacity, tail)
  BY <1>3 DEF Kept
<1>5. \A x \in Subs : Ahead(x)' = Ahead(x)
  BY <1>1, <1>4, AheadIsKept DEF IInv, TypeOK
<1> QED BY <1>1, <1>5 DEF Promise!vars

\* A stream ends when the channel is closed and it has had everything, or with its client.
LEMMA EndStep ==
  ASSUME IInv, NEW s \in Subs, RecvClosed(s) \/ Disconnect(s)
  PROVE  Promise!End(s) \/ Promise!Leave(s)
<1>1. /\ Open' = Open /\ ring' = ring /\ tail' = tail /\ next' = next
      /\ state[s] = "live" /\ state' = [state EXCEPT ![s] = "ended"]
  BY DEF RecvClosed, Disconnect, channelVars, Open
<1>2. Ahead(s)' = <<>> /\ \A x \in Subs \ {s} : Ahead(x)' = Ahead(x)
  BY <1>1, AheadIsKept DEF IInv, TypeOK
<1>3. Queues' = [Queues EXCEPT ![s] = <<>>]
  BY <1>2 DEF Queues
<1> QED BY <1>1, <1>3 DEF Promise!Leave, Queues

\* The number of Bus values does not matter, except that the last one closes the bus.
LEMMA HandlesStep ==
  IInv /\ (Clone \/ DropBus) => Promise!Close \/ UNCHANGED Promise!vars
<1> SUFFICES ASSUME IInv, Clone \/ DropBus PROVE Promise!Close \/ UNCHANGED Promise!vars
  OBVIOUS
<1>1. Open /\ UNCHANGED <<ring, tail, state, next>>
  BY DEF Clone, DropBus, Open, streamVars
<1>2. \A s \in Subs : Ahead(s)' = Ahead(s)
  BY <1>1, AheadIsKept
<1>3. Open' \in BOOLEAN
  BY DEF Open
<1> QED BY <1>1, <1>2, <1>3 DEF Promise!Close, Promise!vars, Open

\* The shared ring with its positions, lags and clones behaves as the bounded queue of
\* its own that each stream is promised.
THEOREM RingIsAQueueForEach == Spec => ImplementsPubSub
<1>1. Init => Promise!Init
  BY DEF Init, Promise!Init, Open, Ahead
<1>2. IInv /\ [Next]_vars => [Promise!Next]_(Promise!vars)
  <2> SUFFICES ASSUME IInv, [Next]_vars PROVE [Promise!Next]_(Promise!vars)
    OBVIOUS
  <2>1. CASE Publish
    BY <2>1, PublishStep DEF Promise!Next
  <2>2. CASE Clone \/ DropBus
    BY <2>2, HandlesStep DEF Promise!Next
  <2>3. ASSUME NEW s \in Subs, Subscribe(s) \/ Poll(s) \/ Disconnect(s)
        PROVE  [Promise!Next]_(Promise!vars)
    BY <2>3, SubscribeStep, RecvEventStep, RecvLaggedStep, EndStep DEF Poll, Promise!Next
  <2>4. CASE UNCHANGED vars
    <3>1. UNCHANGED <<handles, ring, tail, state, next>>
      BY <2>4 DEF vars
    <3>2. \A s \in Subs : Ahead(s)' = Ahead(s)
      BY <3>1, AheadIsKept
    <3> QED BY <3>1, <3>2 DEF Promise!vars, Open
  <2> QED BY <2>1, <2>2, <2>3, <2>4 DEF Next
<1> QED BY <1>1, <1>2, Inductive, PTL DEF Spec, ImplementsPubSub, Promise!Spec
=============================================================================
