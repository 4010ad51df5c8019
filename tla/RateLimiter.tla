---------------------------- MODULE RateLimiter -----------------------------
(***************************************************************************)
(* The fixed-window limiter of one endpoint                                *)
(* (observa-server/src/rate_limit.rs, AppState::rate_limiter): a map from  *)
(* client address to the start of its window and the count of requests let *)
(* through in it.  A request takes the time, then waits for the lock on    *)
(* the map; its decision uses the time it took before it waited.           *)
(***************************************************************************)
EXTENDS Integers, FiniteSets

CONSTANTS
  Requests,   \* the requests that arrive
  Ips, Ports, \* a client address is an IP address and a port
  Max,        \* requests let through per window
  Window,     \* its length, in ticks of the clock
  MaxDelay,   \* bound on the ticks a request waits for the lock
  MaxTime     \* bound on the clock

ASSUME LimiterAssumption ==
  /\ Max \in Nat
  /\ Window \in Nat
  /\ MaxDelay \in Nat
  /\ MaxTime \in Nat

VARIABLES
  clock,    \* the monotonic clock
  windows,  \* the map: a set of [addr, start, count], one per address
  waiting,  \* requests that have taken the time and wait for the lock
  granted,  \* history: requests let through, with the clock and their window
  refused   \* history: requests turned away, with the time they took

vars == <<clock, windows, waiting, granted, refused>>

Addrs == Ips \X Ports
Times == 0..MaxTime

Entry == [addr : Addrs, start : Times, count : Nat]
Waiting == [req : Requests, addr : Addrs, now : Times]
Grant == [req : Requests, addr : Addrs, at : Times, start : Times]
Refusal == [req : Requests, addr : Addrs, now : Times]

TypeOK ==
  /\ clock \in Times
  /\ windows \subseteq Entry
  /\ \A x, y \in windows : x.addr = y.addr => x = y
  /\ waiting \subseteq Waiting
  /\ granted \subseteq Grant
  /\ refused \subseteq Refusal

Init ==
  /\ clock = 0
  /\ windows = {}
  /\ waiting = {}
  /\ granted = {}
  /\ refused = {}

\* Time passes, but not while a request has waited MaxDelay for the lock.
Tick ==
  /\ clock < MaxTime
  /\ \A w \in waiting : clock - w.now < MaxDelay
  /\ clock' = clock + 1
  /\ UNCHANGED <<windows, waiting, granted, refused>>

Seen == {x.req : x \in waiting \cup granted \cup refused}

\* let now = Instant::now()
Arrive ==
  /\ \E r \in Requests \ Seen, a \in Addrs :
       waiting' = waiting \cup {[req |-> r, addr |-> a, now |-> clock]}
  /\ UNCHANGED <<clock, windows, granted, refused>>

\* Mutant: a time before the start of the window wraps around and ends it.
OpenWindowWraps(w, e) ==
  \/ /\ e \in windows
     /\ e.addr = w.addr
     /\ w.now \in e.start..e.start + Window
  \/ /\ \A x \in windows : x.addr = w.addr => w.now \notin x.start..x.start + Window
     /\ e = [addr |-> w.addr, start |-> w.now, count |-> 0]

\* Mutant: the count is never reset.
OpenWindowOnce(w, e) ==
  \/ e \in windows /\ e.addr = w.addr
  \/ /\ \A x \in windows : x.addr # w.addr
     /\ e = [addr |-> w.addr, start |-> w.now, count |-> 0]

\* The window request w is counted in: the one in the map unless there is
\* none or it is over.  A time before its start counts as no time since.
OpenWindow(w, e) ==
  \/ /\ e \in windows
     /\ e.addr = w.addr
     /\ w.now - e.start <= Window
  \/ /\ \A x \in windows : x.addr = w.addr => w.now - x.start > Window
     /\ e = [addr |-> w.addr, start |-> w.now, count |-> 0]

\* The map with e as the entry of its address.
Entered(e) == {x \in windows : x.addr # e.addr} \cup {e}

\* The lock is granted and the count is below max.
LetThrough ==
  \E w \in waiting :
    \E e \in windows \cup {[addr |-> w.addr, start |-> w.now, count |-> 0]} :
      /\ OpenWindow(w, e)
      /\ e.count < Max
      /\ windows' = Entered([e EXCEPT !.count = @ + 1])
      /\ granted' = granted \cup {[req |-> w.req, addr |-> w.addr, at |-> clock, start |-> e.start]}
      /\ waiting' = waiting \ {w}
      /\ UNCHANGED <<clock, refused>>

\* 429: the window is full.  A window just opened is kept, too.
TurnAway ==
  \E w \in waiting :
    \E e \in windows \cup {[addr |-> w.addr, start |-> w.now, count |-> 0]} :
      /\ OpenWindow(w, e)
      /\ e.count >= Max
      /\ windows' = Entered(e)
      /\ refused' = refused \cup {[req |-> w.req, addr |-> w.addr, now |-> w.now]}
      /\ waiting' = waiting \ {w}
      /\ UNCHANGED <<clock, granted>>

Next ==
  \/ Tick
  \/ Arrive
  \/ LetThrough
  \/ TurnAway

Spec == Init /\ [][Next]_vars

-----------------------------------------------------------------------------
(* Properties                                                              *)

\* No window of an address lets more than Max requests through, also when
\* requests with older times get the lock after younger ones.
WindowBound ==
  \A a \in Addrs, s \in Times :
    Cardinality({g \in granted : g.addr = a /\ g.start = s}) <= Max

\* Across the boundary of two windows an address gets at most twice Max within the
\* time of one, less what a request may wait for the lock: those let through late in
\* a window push it that far into the next.
SlidingBound ==
  \A a \in Addrs, t \in Times :
    Cardinality({g \in granted : g.addr = a /\ g.at \in t..t + Window + 1 - MaxDelay}) <= 2 * Max

\* A request is turned away only if Max others from its address have been
\* let through since one window before the time it took.
RefusedForCause ==
  \A r \in refused :
    Cardinality({g \in granted : g.addr = r.addr /\ g.at >= r.now - Window}) >= Max
=============================================================================
