------------------------------- MODULE PubSub -------------------------------
(***************************************************************************)
(* What observa-bus promises its subscribers, without its ring: each has a *)
(* queue of its own, of at most Capacity events, that receives everything  *)
(* published after it subscribed and discards its oldest event when full.  *)
(***************************************************************************)
EXTENDS Naturals, Sequences

CONSTANTS Subs, Events, Capacity

VARIABLES
  open,    \* the bus can still be published on
  queue,   \* the events each subscriber has before it
  state    \* of each subscriber: "none", "live" or "ended"

vars == <<open, queue, state>>

Init ==
  /\ open = TRUE
  /\ queue = [s \in Subs |-> <<>>]
  /\ state = [s \in Subs |-> "none"]

\* q with e behind it, without what no longer fits.
Pushed(q, e) == IF Len(q) < Capacity THEN Append(q, e) ELSE Append(Tail(q), e)

Publish ==
  /\ open
  /\ \E e \in Events :
       queue' = [s \in Subs |-> IF state[s] = "live" THEN Pushed(queue[s], e) ELSE queue[s]]
  /\ UNCHANGED <<open, state>>

Subscribe(s) ==
  /\ open
  /\ state[s] = "none"
  /\ state' = [state EXCEPT ![s] = "live"]
  /\ UNCHANGED <<open, queue>>

Deliver(s) ==
  /\ state[s] = "live"
  /\ queue[s] # <<>>
  /\ queue' = [queue EXCEPT ![s] = Tail(@)]
  /\ UNCHANGED <<open, state>>

\* The stream ends: the subscriber leaves, or the bus is closed and the
\* subscriber has had everything.
Leave(s) ==
  /\ state[s] = "live"
  /\ state' = [state EXCEPT ![s] = "ended"]
  /\ queue' = [queue EXCEPT ![s] = <<>>]
  /\ UNCHANGED open

End(s) ==
  /\ state[s] = "live"
  /\ ~open
  /\ queue[s] = <<>>
  /\ state' = [state EXCEPT ![s] = "ended"]
  /\ UNCHANGED <<open, queue>>

Close ==
  /\ open
  /\ open' = FALSE
  /\ UNCHANGED <<queue, state>>

Next ==
  \/ Publish
  \/ Close
  \/ \E s \in Subs : Subscribe(s) \/ Deliver(s) \/ Leave(s) \/ End(s)

Spec == Init /\ [][Next]_vars
=============================================================================
