------------------------- MODULE RateLimiterProofs --------------------------
(* The bounds of the limiter for any requests, addresses and limits: proofs *)
(* about RateLimiter.                                                       *)
EXTENDS RateLimiter, FiniteSetTheorems, TLAPS

GrantsIn(a, s) == {g \in granted : g.addr = a /\ g.start = s}

\* Times taken and window starts lie in the past, and a grant is made at or after
\* the start of its window.
PastInv ==
  /\ \A w \in waiting : w.now <= clock
  /\ \A e \in windows : e.start <= clock
  /\ \A g \in granted : g.start <= g.at

\* A request waits or has been let through, not both, and once.
RequestsInv ==
  /\ IsFiniteSet(granted)
  /\ \A x, y \in waiting : x.req = y.req => x = y
  /\ \A w \in waiting, g \in granted : w.req # g.req

\* The count of a window is the number of grants made in it, and never above Max.
CountInv ==
  \A e \in windows : e.count = Cardinality(GrantsIn(e.addr, e.start)) /\ e.count <= Max

\* An address has no grant in a window later than the one it has now.
LatestInv ==
  \A g \in granted : \E e \in windows : e.addr = g.addr /\ g.start <= e.start

\* Nobody waits for longer than MaxDelay, so that a window is over for its grants
\* that much later than for the times taken.
DelayInv ==
  /\ \A w \in waiting : clock - w.now <= MaxDelay
  /\ \A g \in granted : g.at - g.start <= Window + MaxDelay

\* The windows of an address in which grants have been made do not overlap.
ApartInv ==
  /\ \A g \in granted, e \in windows :
       g.addr = e.addr /\ g.start < e.start => e.start - g.start > Window
  /\ \A g, h \in granted :
       g.addr = h.addr /\ g.start < h.start => h.start - g.start > Window

\* The inductive invariant.  WindowBound alone is not: without LatestInv a window
\* might open at a time at which grants have been made before, and count them anew.
\* What it says of one window, DelayInv and ApartInv extend to any stretch of time.
IInv ==
  /\ TypeOK
  /\ DelayInv
  /\ ApartInv
  /\ PastInv
  /\ RequestsInv
  /\ CountInv
  /\ LatestInv
  /\ WindowBound
  /\ RefusedForCause

-----------------------------------------------------------------------------
(* The window a request is counted in                                      *)

\* The window is one of the request's address that started by now, at most one
\* Window before the time the request took; its count is that of its grants, and
\* no grant of the address was made in a later window.
LEMMA WindowOfRequest ==
  ASSUME IInv, NEW w \in waiting,
         NEW e \in windows \cup {[addr |-> w.addr, start |-> w.now, count |-> 0]},
         OpenWindow(w, e)
  PROVE  /\ e \in Entry /\ e.addr = w.addr
         /\ e.start <= clock
         /\ w.now - e.start <= Window
         /\ e.count = Cardinality(GrantsIn(e.addr, e.start))
         /\ e.count <= Max
         /\ \A g \in granted : g.addr = e.addr => g.start <= e.start
         /\ \A g \in granted : g.addr = e.addr /\ g.start < e.start => e.start - g.start > Window
<1> USE LimiterAssumption DEF IInv, TypeOK, Entry, Waiting, Grant, Times
<1>1. w.addr \in Addrs /\ w.now \in Nat /\ w.now <= clock
  BY DEF PastInv
<1>2. CASE e \in windows /\ e.addr = w.addr /\ w.now - e.start <= Window
  <2>1. \A g \in granted : g.addr = e.addr => g.start <= e.start
    BY <1>2 DEF LatestInv
  <2>2. \A g \in granted : g.addr = e.addr /\ g.start < e.start => e.start - g.start > Window
    BY <1>2 DEF ApartInv
  <2> QED BY <1>2, <2>1, <2>2 DEF PastInv, CountInv
<1>3. CASE /\ \A x \in windows : x.addr = w.addr => w.now - x.start > Window
           /\ e = [addr |-> w.addr, start |-> w.now, count |-> 0]
  <2>1. \A g \in granted : g.addr = w.addr => g.start < w.now /\ w.now - g.start > Window
    <3> SUFFICES ASSUME NEW g \in granted, g.addr = w.addr
                 PROVE  g.start < w.now /\ w.now - g.start > Window
      OBVIOUS
    <3>1. PICK x \in windows : x.addr = g.addr /\ g.start <= x.start
      BY DEF LatestInv
    <3>2. w.now - x.start > Window
      BY <3>1, <1>3
    <3> QED BY <3>1, <3>2, <1>1
  <2>2. GrantsIn(e.addr, e.start) = {}
    BY <1>1, <1>3, <2>1 DEF GrantsIn
  <2>3. Cardinality(GrantsIn(e.addr, e.start)) = 0
    BY <2>2, FS_EmptySet
  <2> QED BY <1>1, <1>3, <2>1, <2>3
<1> QED BY <1>2, <1>3 DEF OpenWindow

-----------------------------------------------------------------------------
(* The invariant                                                           *)

\* Nothing has been let through at the start.
LEMMA InvInit == Init => IInv
<1> SUFFICES ASSUME Init PROVE IInv
  OBVIOUS
<1> USE LimiterAssumption DEF Init
<1>1. TypeOK
  BY DEF TypeOK, Times
<1>2. PastInv /\ CountInv /\ LatestInv /\ RefusedForCause /\ DelayInv /\ ApartInv
  BY DEF PastInv, CountInv, LatestInv, RefusedForCause, DelayInv, ApartInv
<1>3. RequestsInv
  BY FS_EmptySet DEF RequestsInv
<1>4. WindowBound
  <2> SUFFICES ASSUME NEW a \in Addrs, NEW s \in Times
               PROVE  Cardinality({g \in granted : g.addr = a /\ g.start = s}) <= Max
    BY DEF WindowBound
  <2>1. {g \in granted : g.addr = a /\ g.start = s} = {}
    OBVIOUS
  <2> QED BY <2>1, FS_EmptySet
<1> QED BY <1>1, <1>2, <1>3, <1>4 DEF IInv

\* Time passing and a request arriving leave windows and grants alone.
LEMMA TickArriveInv == IInv /\ (Tick \/ Arrive) => IInv'
<1> SUFFICES ASSUME IInv, Tick \/ Arrive PROVE IInv'
  OBVIOUS
<1> USE LimiterAssumption DEF IInv
<1>1. UNCHANGED <<windows, granted, refused>>
  BY DEF Tick, Arrive
<1>2. TypeOK' /\ PastInv' /\ DelayInv'
  <2>1. CASE Tick
    BY <2>1 DEF Tick, TypeOK, PastInv, DelayInv, Times, Waiting, Entry
  <2>2. CASE Arrive
    <3>1. PICK r \in Requests \ Seen, a \in Addrs :
            waiting' = waiting \cup {[req |-> r, addr |-> a, now |-> clock]}
      BY <2>2 DEF Arrive
    <3> QED BY <3>1, <2>2 DEF Arrive, TypeOK, PastInv, DelayInv, Times, Waiting
  <2> QED BY <2>1, <2>2
<1>3. RequestsInv'
  <2>1. CASE Tick
    BY <2>1 DEF Tick, RequestsInv
  <2>2. CASE Arrive
    <3>1. PICK r \in Requests \ Seen, a \in Addrs :
            waiting' = waiting \cup {[req |-> r, addr |-> a, now |-> clock]}
      BY <2>2 DEF Arrive
    <3>2. \A x \in waiting \cup granted : x.req # r
      BY DEF Seen
    <3> QED BY <3>1, <3>2, <1>1 DEF RequestsInv
  <2> QED BY <2>1, <2>2
<1>4. CountInv' /\ LatestInv' /\ WindowBound' /\ RefusedForCause' /\ ApartInv'
  BY <1>1 DEF CountInv, ApartInv, LatestInv, WindowBound, RefusedForCause, GrantsIn
<1> QED BY <1>2, <1>3, <1>4

\* The map after a decision: the address of n has n, the others have what they had.
LEMMA EnteredMap ==
  ASSUME IInv, NEW n \in Entry, windows' = Entered(n)
  PROVE  /\ windows' \subseteq Entry
         /\ \A x, y \in windows' : x.addr = y.addr => x = y
         /\ \A x \in windows' : x = n \/ (x \in windows /\ x.addr # n.addr)
         /\ \A x \in windows : x.addr # n.addr => x \in windows'
         /\ n \in windows'
BY DEF IInv, TypeOK, Entered

\* A request is let through: its window gets one grant and one count more.
LEMMA LetThroughInv == IInv /\ LetThrough => IInv'
<1> SUFFICES ASSUME IInv, NEW w \in waiting,
                    NEW e \in windows \cup {[addr |-> w.addr, start |-> w.now, count |-> 0]},
                    OpenWindow(w, e), e.count < Max,
                    windows' = Entered([e EXCEPT !.count = @ + 1]),
                    granted' = granted \cup {[req |-> w.req, addr |-> w.addr, at |-> clock,
                                              start |-> e.start]},
                    waiting' = waiting \ {w},
                    UNCHANGED <<clock, refused>>
             PROVE  IInv'
  BY DEF LetThrough
<1> DEFINE n == [e EXCEPT !.count = @ + 1]
           g == [req |-> w.req, addr |-> w.addr, at |-> clock, start |-> e.start]
<1>1. /\ e \in Entry /\ e.addr = w.addr /\ e.start <= clock
      /\ e.count = Cardinality(GrantsIn(e.addr, e.start))
      /\ \A x \in granted : x.addr = e.addr => x.start <= e.start
      /\ \A x \in granted : x.addr = e.addr /\ x.start < e.start => e.start - x.start > Window
      /\ w.now - e.start <= Window
  BY WindowOfRequest
<1>2. n \in Entry /\ n.addr = e.addr /\ n.start = e.start /\ n.count = e.count + 1
  BY <1>1 DEF Entry
<1>3. /\ windows' \subseteq Entry
      /\ \A x, y \in windows' : x.addr = y.addr => x = y
      /\ \A x \in windows' : x = n \/ (x \in windows /\ x.addr # n.addr)
      /\ \A x \in windows : x.addr # n.addr => x \in windows'
      /\ n \in windows'
  <2> HIDE DEF n
  <2>1. windows' = Entered(n)
    BY DEF n
  <2> QED BY <1>2, <2>1, EnteredMap
<1>4. g \in Grant /\ g.addr = e.addr /\ g.start = e.start /\ g.at = clock /\ g.req = w.req
  BY <1>1 DEF IInv, TypeOK, Entry, Grant, Waiting
<1>5. granted' = granted \cup {g}
  OBVIOUS
<1>6. g \notin granted /\ IsFiniteSet(granted)
  BY <1>4 DEF IInv, RequestsInv
<1>15. g.at - g.start <= Window + MaxDelay
  <2>1. clock - w.now <= MaxDelay /\ clock \in Int /\ w.now \in Int /\ e.start \in Int
    BY <1>1 DEF IInv, TypeOK, DelayInv, Entry, Waiting, Times
  <2> QED BY <1>1, <1>4, <2>1, LimiterAssumption
<1> HIDE DEF n, g
<1>16. DelayInv'
  BY <1>5, <1>15 DEF IInv, DelayInv
<1>17. ApartInv'
  <2>1. \A x \in granted', y \in windows' :
          x.addr = y.addr /\ x.start < y.start => y.start - x.start > Window
    <3> SUFFICES ASSUME NEW x \in granted', NEW y \in windows', x.addr = y.addr, x.start < y.start
                 PROVE  y.start - x.start > Window
      OBVIOUS
    <3>1. CASE x \in granted /\ y = n
      BY <1>1, <1>2, <3>1
    <3>2. CASE x \in granted /\ y \in windows
      BY <3>2 DEF IInv, ApartInv
    <3>3. CASE x = g
      <4>1. y = n
        BY <1>2, <1>3, <1>4, <3>3
      <4> QED BY <1>1, <1>2, <1>4, <3>3, <4>1 DEF Entry, Times
    <3> QED BY <1>3, <1>5, <3>1, <3>2, <3>3
  <2>2. \A x, y \in granted' :
          x.addr = y.addr /\ x.start < y.start => y.start - x.start > Window
    <3> SUFFICES ASSUME NEW x \in granted', NEW y \in granted', x.addr = y.addr, x.start < y.start
                 PROVE  y.start - x.start > Window
      OBVIOUS
    <3>0. \A z \in granted' : z.start \in Nat
      BY <1>4, <1>5 DEF IInv, TypeOK, Grant, Times
    <3>1. CASE x \in granted /\ y \in granted
      BY <3>1 DEF IInv, ApartInv
    <3>2. CASE y = g
      <4>1. x \in granted
        BY <1>5, <3>0, <3>2
      <4> QED BY <1>1, <1>4, <3>2, <4>1
    <3>3. CASE x = g /\ y \in granted
      BY <1>1, <1>4, <3>0, <3>3
    <3> QED BY <1>5, <3>1, <3>2, <3>3
  <2> QED BY <2>1, <2>2 DEF ApartInv
<1>7. TypeOK'
  BY <1>3, <1>4, <1>5 DEF IInv, TypeOK
<1>8. PastInv'
  BY <1>1, <1>2, <1>3, <1>4, <1>5 DEF IInv, PastInv
<1>9. RequestsInv'
  <2>1. IsFiniteSet(granted')
    BY <1>5, <1>6, FS_AddElement
  <2> QED BY <1>4, <1>5, <2>1 DEF IInv, RequestsInv
<1>10. ASSUME NEW a, NEW s
       PROVE  Cardinality(GrantsIn(a, s)') = IF a = e.addr /\ s = e.start
                                             THEN Cardinality(GrantsIn(a, s)) + 1
                                             ELSE Cardinality(GrantsIn(a, s))
  <2>1. IsFiniteSet(GrantsIn(a, s)) /\ g \notin GrantsIn(a, s)
    BY <1>6, FS_Subset DEF GrantsIn
  <2>2. CASE a = e.addr /\ s = e.start
    <3>1. GrantsIn(a, s)' = GrantsIn(a, s) \cup {g}
      BY <1>4, <1>5, <2>2 DEF GrantsIn
    <3> QED BY <2>1, <2>2, <3>1, FS_AddElement
  <2>3. CASE ~(a = e.addr /\ s = e.start)
    <3>1. GrantsIn(a, s)' = GrantsIn(a, s)
      BY <1>4, <1>5, <2>3 DEF GrantsIn
    <3> QED BY <2>3, <3>1
  <2> QED BY <2>2, <2>3
<1>11. CountInv'
  <2> SUFFICES ASSUME NEW x \in windows'
               PROVE  x.count = Cardinality(GrantsIn(x.addr, x.start)') /\ x.count <= Max
    BY DEF CountInv, GrantsIn
  <2>1. CASE x = n
    BY <1>1, <1>2, <1>10, <2>1, LimiterAssumption DEF Entry
  <2>2. CASE x \in windows /\ x.addr # n.addr
    BY <1>2, <1>10, <2>2 DEF IInv, CountInv
  <2> QED BY <1>3, <2>1, <2>2
<1>12. LatestInv'
  <2> SUFFICES ASSUME NEW x \in granted'
               PROVE  \E y \in windows' : y.addr = x.addr /\ x.start <= y.start
    BY DEF LatestInv
  <2>1. CASE x.addr = e.addr
    BY <1>1, <1>2, <1>3, <1>4, <1>5, <2>1 DEF Entry, Times
  <2>2. CASE x.addr # e.addr
    BY <1>2, <1>3, <1>4, <1>5, <2>2 DEF IInv, LatestInv
  <2> QED BY <2>1, <2>2
<1>13. WindowBound'
  <2> SUFFICES ASSUME NEW a \in Addrs, NEW s \in Times
               PROVE  Cardinality(GrantsIn(a, s)') <= Max
    BY DEF WindowBound, GrantsIn
  <2>1. CASE a = e.addr /\ s = e.start
    BY <1>1, <1>10, <2>1, LimiterAssumption DEF Entry
  <2>2. CASE ~(a = e.addr /\ s = e.start)
    <3>1. Cardinality(GrantsIn(a, s)) <= Max
      BY DEF IInv, WindowBound, GrantsIn
    <3> QED BY <1>10, <2>2, <3>1
  <2> QED BY <2>1, <2>2
<1>14. RefusedForCause'
  <2> SUFFICES ASSUME NEW r \in refused
               PROVE  Cardinality({x \in granted' : x.addr = r.addr /\ x.at >= r.now - Window})
                        >= Max
    BY DEF RefusedForCause
  <2> DEFINE before == {x \in granted : x.addr = r.addr /\ x.at >= r.now - Window}
             after == {x \in granted' : x.addr = r.addr /\ x.at >= r.now - Window}
  <2>1. IsFiniteSet(after) /\ before \subseteq after
    BY <1>5, <1>6, FS_AddElement, FS_Subset
  <2>2. /\ Cardinality(before) \in Nat /\ Cardinality(after) \in Nat
        /\ Cardinality(before) <= Cardinality(after)
    BY <2>1, FS_Subset, FS_CardinalityType
  <2>3. Cardinality(before) >= Max
    BY DEF IInv, RefusedForCause
  <2> QED BY <2>2, <2>3, LimiterAssumption
<1> QED BY <1>7, <1>8, <1>9, <1>11, <1>12, <1>13, <1>14, <1>16, <1>17 DEF IInv

\* A request is turned away: the grants of its window are as many as Max, and
\* all of them were made since the window started.
LEMMA TurnAwayInv == IInv /\ TurnAway => IInv'
<1> SUFFICES ASSUME IInv, NEW w \in waiting,
                    NEW e \in windows \cup {[addr |-> w.addr, start |-> w.now, count |-> 0]},
                    OpenWindow(w, e), e.count >= Max,
                    windows' = Entered(e),
                    refused' = refused \cup {[req |-> w.req, addr |-> w.addr, now |-> w.now]},
                    waiting' = waiting \ {w},
                    UNCHANGED <<clock, granted>>
             PROVE  IInv'
  BY DEF TurnAway
<1>1. /\ e \in Entry /\ e.addr = w.addr /\ e.start <= clock
      /\ w.now - e.start <= Window
      /\ e.count = Cardinality(GrantsIn(e.addr, e.start)) /\ e.count <= Max
      /\ \A x \in granted : x.addr = e.addr => x.start <= e.start
      /\ \A x \in granted : x.addr = e.addr /\ x.start < e.start => e.start - x.start > Window
  BY WindowOfRequest
<1>2. /\ windows' \subseteq Entry
      /\ \A x, y \in windows' : x.addr = y.addr => x = y
      /\ \A x \in windows' : x = e \/ (x \in windows /\ x.addr # e.addr)
      /\ \A x \in windows : x.addr # e.addr => x \in windows'
      /\ e \in windows'
  BY <1>1, EnteredMap
<1>3. TypeOK'
  BY <1>2 DEF IInv, TypeOK, Waiting, Refusal
<1>4. PastInv' /\ RequestsInv'
  BY <1>1, <1>2 DEF IInv, PastInv, RequestsInv
<1>9. DelayInv' /\ ApartInv'
  BY <1>1, <1>2 DEF IInv, DelayInv, ApartInv
<1>5. CountInv'
  BY <1>1, <1>2 DEF IInv, CountInv, GrantsIn
<1>6. LatestInv'
  BY <1>1, <1>2 DEF IInv, LatestInv
<1>7. WindowBound'
  BY DEF IInv, WindowBound
<1>8. RefusedForCause'
  <2> SUFFICES ASSUME NEW r \in refused'
               PROVE  Cardinality({x \in granted : x.addr = r.addr /\ x.at >= r.now - Window})
                        >= Max
    BY DEF RefusedForCause
  <2>1. CASE r \in refused
    BY <2>1 DEF IInv, RefusedForCause
  <2>2. CASE r = [req |-> w.req, addr |-> w.addr, now |-> w.now]
    <3> DEFINE since == {x \in granted : x.addr = r.addr /\ x.at >= r.now - Window}
    <3>1. ASSUME NEW x \in GrantsIn(e.addr, e.start) PROVE x \in since
      <4>1. x \in granted /\ x.addr = r.addr /\ x.start = e.start
        BY <1>1, <2>2 DEF GrantsIn
      <4>2. x.start <= x.at /\ x.start \in Nat /\ x.at \in Nat
        BY <4>1 DEF IInv, PastInv, TypeOK, Grant, Times
      <4>3. r.now = w.now /\ w.now \in Nat
        BY <2>2 DEF IInv, TypeOK, Waiting, Times
      <4> QED BY <1>1, <4>1, <4>2, <4>3, LimiterAssumption
    <3>2. IsFiniteSet(since)
      BY FS_Subset DEF IInv, RequestsInv
    <3>3. /\ Cardinality(since) \in Nat
          /\ Cardinality(GrantsIn(e.addr, e.start)) <= Cardinality(since)
      BY <3>1, <3>2, FS_Subset, FS_CardinalityType
    <3> QED BY <1>1, <3>3, LimiterAssumption DEF Entry
  <2> QED BY <2>1, <2>2
<1> QED BY <1>3, <1>4, <1>5, <1>6, <1>7, <1>8, <1>9 DEF IInv

\* IInv holds in every reachable state.
THEOREM Inductive == Spec => []IInv
<1>1. IInv /\ [Next]_vars => IInv'
  <2> SUFFICES ASSUME IInv, [Next]_vars PROVE IInv'
    OBVIOUS
  <2>1. CASE Tick \/ Arrive
    BY <2>1, TickArriveInv
  <2>2. CASE LetThrough
    BY <2>2, LetThroughInv
  <2>3. CASE TurnAway
    BY <2>3, TurnAwayInv
  <2>4. CASE UNCHANGED vars
    BY <2>4 DEF vars, IInv, TypeOK, PastInv, RequestsInv, CountInv, GrantsIn, LatestInv,
                WindowBound, RefusedForCause, DelayInv, ApartInv
  <2> QED BY <2>1, <2>2, <2>3, <2>4 DEF Next
<1> QED BY InvInit, <1>1, PTL DEF Spec

-----------------------------------------------------------------------------
(* The claims                                                              *)

\* The state is of its type.
THEOREM TypeCorrect == Spec => []TypeOK
<1>1. IInv => TypeOK
  BY DEF IInv
<1> QED BY Inductive, <1>1, PTL

\* No window of an address lets more than Max requests through, in whatever order
\* the lock on the map is granted.
THEOREM WindowsAreBounded == Spec => []WindowBound
<1>1. IInv => WindowBound
  BY DEF IInv
<1> QED BY Inductive, <1>1, PTL

\* Who is turned away has had Max requests let through since one window before.
THEOREM RefusalsHaveACause == Spec => []RefusedForCause
<1>1. IInv => RefusedForCause
  BY DEF IInv
<1> QED BY Inductive, <1>1, PTL

\* Three windows of an address are too far apart for any one stretch of time.
LEMMA TwoWindowsAtMost ==
  ASSUME IInv, NEW f \in granted, NEW g \in granted, NEW h \in granted,
         f.addr = g.addr, g.addr = h.addr, f.start < g.start, g.start < h.start
  PROVE  h.at - f.at > Window + 1 - MaxDelay
<1>1. \A x \in {f, g, h} : x.start \in Nat /\ x.at \in Nat
  BY DEF IInv, TypeOK, Grant, Times
<1>2. g.start - f.start > Window /\ h.start - g.start > Window
  BY DEF IInv, ApartInv
<1>3. f.at - f.start <= Window + MaxDelay /\ h.start <= h.at
  BY DEF IInv, DelayInv, PastInv
<1> QED BY <1>1, <1>2, <1>3, LimiterAssumption

\* Wherever a stretch of time as long as a window, less what a request may wait for
\* the lock, lies across windows: an address gets at most twice Max in it.
THEOREM BurstsAreBounded == Spec => []SlidingBound
<1>1. IInv => SlidingBound
  <2> SUFFICES ASSUME IInv, NEW a \in Addrs, NEW t \in Times
               PROVE  Cardinality({g \in granted : /\ g.addr = a
                                                   /\ g.at \in t..t + Window + 1 - MaxDelay})
                        <= 2 * Max
    BY DEF SlidingBound
  <2> USE LimiterAssumption
  <2> DEFINE S == {g \in granted : g.addr = a /\ g.at \in t..t + Window + 1 - MaxDelay}
  <2>1. \A g \in granted : g.start \in Times /\ g.at \in Nat /\ g.addr \in Addrs
    BY DEF IInv, TypeOK, Grant, Times
  <2>2. \A s \in Times : /\ IsFiniteSet(GrantsIn(a, s)) /\ Cardinality(GrantsIn(a, s)) \in Nat
                         /\ Cardinality(GrantsIn(a, s)) <= Max
    <3> SUFFICES ASSUME NEW s \in Times
                 PROVE  /\ IsFiniteSet(GrantsIn(a, s)) /\ Cardinality(GrantsIn(a, s)) \in Nat
                        /\ Cardinality(GrantsIn(a, s)) <= Max
      OBVIOUS
    <3>1. IsFiniteSet(GrantsIn(a, s))
      BY FS_Subset DEF IInv, RequestsInv, GrantsIn
    <3>2. Cardinality(GrantsIn(a, s)) <= Max
      BY DEF IInv, WindowBound, GrantsIn
    <3> QED BY <3>1, <3>2, FS_CardinalityType
  <2>3. CASE S = {}
    BY <2>3, FS_EmptySet
  <2>4. ASSUME NEW f \in S, \A g \in S : g.start = f.start
        PROVE  Cardinality(S) <= 2 * Max
    <3>1. S \subseteq GrantsIn(a, f.start) /\ f.start \in Times
      BY <2>1, <2>4 DEF GrantsIn
    <3>2. Cardinality(S) \in Nat /\ Cardinality(S) <= Cardinality(GrantsIn(a, f.start))
      BY <2>2, <3>1, FS_Subset, FS_CardinalityType
    <3> HIDE DEF S
    <3> QED BY <2>2, <3>1, <3>2
  <2>5. ASSUME NEW f \in S, NEW g \in S, f.start # g.start
        PROVE  Cardinality(S) <= 2 * Max
    <3> DEFINE F == GrantsIn(a, f.start)
               G == GrantsIn(a, g.start)
    <3>1. ASSUME NEW h \in S PROVE h.start \in {f.start, g.start}
      <4> SUFFICES ASSUME h.start # f.start, h.start # g.start PROVE FALSE
        OBVIOUS
      <4>1. \A x, y, z \in {f, g, h} :
              x.start < y.start /\ y.start < z.start => z.at - x.at > Window + 1 - MaxDelay
        BY TwoWindowsAtMost
      <4>2. \A x, y \in {f, g, h} : y.at - x.at <= Window + 1 - MaxDelay
        BY <2>1 DEF Times
      <4>3. f.start \in Nat /\ g.start \in Nat /\ h.start \in Nat
        BY <2>1 DEF Times
      <4>4. \A x \in {f, g, h} : x.at \in Nat
        BY <2>1
      <4> HIDE DEF S
      <4>5. \/ f.start < g.start /\ g.start < h.start
            \/ f.start < h.start /\ h.start < g.start
            \/ g.start < f.start /\ f.start < h.start
            \/ g.start < h.start /\ h.start < f.start
            \/ h.start < f.start /\ f.start < g.start
            \/ h.start < g.start /\ g.start < f.start
        BY <2>5, <4>3
      <4>6. PICK x \in {f, g, h}, y \in {f, g, h}, z \in {f, g, h} :
              x.start < y.start /\ y.start < z.start
        BY <4>5
      <4>7. z.at - x.at > Window + 1 - MaxDelay /\ z.at - x.at <= Window + 1 - MaxDelay
        BY <4>1, <4>2, <4>6
      <4> QED BY <4>4, <4>7
    <3>2. S \subseteq F \cup G
      BY <3>1 DEF GrantsIn
    <3>3. /\ IsFiniteSet(F) /\ IsFiniteSet(G)
          /\ Cardinality(F) \in Nat /\ Cardinality(G) \in Nat
          /\ Cardinality(F) <= Max /\ Cardinality(G) <= Max
      BY <2>1, <2>2
    <3> HIDE DEF S, F, G
    <3>4. /\ IsFiniteSet(F \cup G) /\ IsFiniteSet(F \cap G)
          /\ Cardinality(F \cup G) = Cardinality(F) + Cardinality(G) - Cardinality(F \cap G)
      BY <3>3, FS_Union, FS_Intersection
    <3>5. Cardinality(F \cap G) \in Nat /\ Cardinality(F \cup G) \in Nat
      BY <3>4, FS_CardinalityType
    <3>6. Cardinality(S) \in Nat /\ Cardinality(S) <= Cardinality(F \cup G)
      BY <3>2, <3>4, FS_Subset, FS_CardinalityType
    <3> QED BY <3>3, <3>4, <3>5, <3>6
  <2> QED BY <2>3, <2>4, <2>5
<1> QED BY Inductive, <1>1, PTL
=============================================================================
