-------------------------- MODULE AlertChainProofs --------------------------
(***************************************************************************)
(* Proofs about AlertChain for any writers, ids, timestamps and contents,  *)
(* hence for a table of any length.                                        *)
(***************************************************************************)
EXTENDS AlertChain, TLAPS

UniqueIds(S) == \A r, q \in S : r.id = q.id => r = q

\* Ids are never reused, in the table or by a store under way.
IdsInv ==
  /\ UniqueIds(rows)
  /\ UniqueIds(inflight)
  /\ \A p \in inflight, r \in rows : p.id # r.id
  /\ UniqueIds(snap)

\* The scan goes from old to new and reports only what it has seen.
ScanInv ==
  /\ ~scanning => snap = {}
  /\ \A d \in Scanned, t \in todo : Before(d, t)
  /\ \A i \in broken : \E r \in Scanned : r.id = i

\* A scan without reports has accepted every row so far, one after another.
CleanInv ==
  broken = {} =>
    /\ IsLatestHash(Scanned, previous)
    /\ \A r \in Scanned : ~Altered(r) /\ LinkedIn(snap, r)

\* As long as the inserts were orderly the table is linked, and so was any
\* table a scan has read.
OrderInv == orderly => Linked(rows) /\ Linked(snap)

IInv == TypeOK /\ IdsInv /\ ScanInv /\ CleanInv /\ OrderInv
        /\ AlteredIsReported /\ ReportsHaveACause

-----------------------------------------------------------------------------
(* The order of the table                                                  *)

\* (ts, id) orders rows with distinct ids totally, and is a strict order.
LEMMA BeforeOrder ==
  ASSUME NEW S \in SUBSET Row, UniqueIds(S)
  PROVE  /\ \A r, q \in S : r = q \/ Before(r, q) \/ Before(q, r)
         /\ \A r, q \in S : Before(r, q) => ~Before(q, r) /\ r # q
         /\ \A r, q, x \in S : Before(r, q) /\ Before(q, x) => Before(r, x)
<1>1. \A r \in S : r.id \in Nat /\ r.ts \in Nat
  BY IdsAssumption, TimesAssumption DEF Row
<1>2. \A r, q \in S : r = q \/ Before(r, q) \/ Before(q, r)
  BY <1>1 DEF UniqueIds, Before
<1>3. \A r, q \in S : Before(r, q) => ~Before(q, r) /\ r # q
  BY <1>1 DEF Before
<1>4. \A r, q, x \in S : Before(r, q) /\ Before(q, x) => Before(r, x)
  BY <1>1 DEF Before
<1>5. QED
  BY <1>2, <1>3, <1>4

\* A row inserted behind all others, with the latest hash, keeps the table
\* linked.
LEMMA LinkedAppend ==
  ASSUME NEW S \in SUBSET Row, NEW n \in Row, Linked(S),
         \A q \in S : Before(q, n), IsLatestHash(S, n.prev), UniqueIds(S \cup {n})
  PROVE  Linked(S \cup {n})
<1> DEFINE T == S \cup {n}
<1>0. T \in SUBSET Row
  OBVIOUS
<1>1. LinkedIn(T, n)
  <2>1. CASE S = {} /\ n.prev = NoHash
    BY <2>1, <1>0, BeforeOrder DEF LinkedIn, FirstIn
  <2>2. ASSUME NEW m \in S, Newest(S, m), n.prev = m.hash
        PROVE  LinkedIn(T, n)
    <3>1. PredecessorIn(T, m, n)
      BY <2>2, <1>0, BeforeOrder DEF PredecessorIn, Newest
    <3>2. QED
      BY <3>1, <2>2 DEF LinkedIn
  <2>3. QED
    BY <2>1, <2>2 DEF IsLatestHash
<1>2. ASSUME NEW r \in S
      PROVE  LinkedIn(T, r)
  <2>1. ~Before(n, r)
    BY <1>0, BeforeOrder
  <2>2. CASE FirstIn(S, r) /\ r.prev = NoHash
    BY <2>1, <2>2 DEF LinkedIn, FirstIn
  <2>3. ASSUME NEW q \in S, PredecessorIn(S, q, r), r.prev = q.hash
        PROVE  LinkedIn(T, r)
    <3>1. PredecessorIn(T, q, r)
      BY <2>1, <2>3 DEF PredecessorIn
    <3>2. QED
      BY <3>1, <2>3 DEF LinkedIn
  <2>4. QED
    BY <2>2, <2>3 DEF Linked, LinkedIn
<1>3. QED
  BY <1>1, <1>2 DEF Linked

\* Changing the body of a row does not touch the links.
LEMMA LinkedEdit ==
  ASSUME NEW S \in SUBSET Row, NEW r \in S, NEW b \in Bodies, Linked(S)
  PROVE  Linked((S \ {r}) \cup {[r EXCEPT !.body = b]})
<1> DEFINE n == [r EXCEPT !.body = b]
           T == (S \ {r}) \cup {n}
           old(x) == IF x = n THEN r ELSE x
           new(x) == IF x = r THEN n ELSE x
<1>1. /\ n.id = r.id
      /\ n.ts = r.ts
      /\ n.prev = r.prev
      /\ n.hash = r.hash
  BY DEF Row
<1>2. \A x \in T : /\ old(x) \in S
                   /\ old(x).id = x.id
                   /\ old(x).ts = x.ts
                   /\ old(x).prev = x.prev
  BY <1>1
<1>3. \A x \in S : /\ new(x) \in T
                   /\ new(x).id = x.id
                   /\ new(x).ts = x.ts
                   /\ new(x).hash = x.hash
  BY <1>1
<1>4. \A x, y :
        /\ Before(old(x), y) <=> Before(x, y)
        /\ Before(y, old(x)) <=> Before(y, x)
        /\ Before(new(x), y) <=> Before(x, y)
        /\ Before(y, new(x)) <=> Before(y, x)
  BY <1>1 DEF Before
<1>5. SUFFICES ASSUME NEW x \in T
               PROVE  LinkedIn(T, x)
  BY DEF Linked
<1> HIDE DEF T, n
<1>6. LinkedIn(S, old(x))
  BY <1>2 DEF Linked
<1>7. CASE FirstIn(S, old(x)) /\ old(x).prev = NoHash
  <2>1. \A y \in T : ~Before(y, x)
    <3> SUFFICES ASSUME NEW y \in T
                 PROVE  ~Before(y, x)
      OBVIOUS
    <3>1. old(y) \in S
      BY <1>2
    <3>2. ~Before(old(y), old(x))
      BY <3>1, <1>7 DEF FirstIn
    <3> HIDE DEF old
    <3>3. QED
      BY <3>2, <1>4
  <2>2. QED
    BY <2>1, <1>7, <1>2 DEF LinkedIn, FirstIn
<1>8. ASSUME NEW q \in S, PredecessorIn(S, q, old(x)), old(x).prev = q.hash
      PROVE  LinkedIn(T, x)
  <2>1. new(q) \in T /\ new(q).hash = x.prev
    BY <1>2, <1>3, <1>8
  <2>2. Before(new(q), x)
    <3>1. Before(q, old(x))
      BY <1>8 DEF PredecessorIn
    <3> HIDE DEF old, new
    <3>2. QED
      BY <3>1, <1>4
  <2>3. ASSUME NEW y \in T, Before(y, x)
        PROVE  y = new(q) \/ Before(y, new(q))
    <3>1. old(y) \in S
      BY <1>2
    <3>2. Before(old(y), old(x))
      <4> HIDE DEF old
      <4>1. QED
        BY <2>3, <1>4
    <3>3. old(y) = q \/ Before(old(y), q)
      BY <3>1, <3>2, <1>8 DEF PredecessorIn
    <3>4. CASE old(y) = q
      BY <3>4 DEF T
    <3>5. CASE Before(old(y), q)
      <4> HIDE DEF old, new
      <4>1. QED
        BY <3>5, <1>4
    <3>6. QED
      BY <3>3, <3>4, <3>5
  <2>4. QED
    BY <2>1, <2>2, <2>3 DEF LinkedIn, PredecessorIn
<1>9. QED
  BY <1>6, <1>7, <1>8 DEF LinkedIn

-----------------------------------------------------------------------------
(* One round of verify_chain's loop                                        *)

\* The row a round looks at comes right after the rows seen so far: with no
\* report yet, its link is right exactly when it carries previous_hash.
LEMMA RoundLooksAtTheNextRow ==
  ASSUME TypeOK, IdsInv, ScanInv, CleanInv, NEW r \in todo, Oldest(todo, r)
  PROVE  /\ \A d \in Scanned : Before(d, r)
         /\ Newest(Scanned \cup {r}, r)
         /\ broken = {} => (r.prev = previous <=> LinkedIn(snap, r))
<1> DEFINE D == Scanned
<1>1. snap \in SUBSET Row /\ UniqueIds(snap) /\ r \in snap
  BY DEF TypeOK, IdsInv
<1>2. \A d \in D : Before(d, r)
  BY DEF ScanInv
<1>3. \A x \in snap : Before(x, r) => x \in D
  BY <1>1, BeforeOrder DEF Scanned, Oldest
<1>4. ASSUME broken = {}
      PROVE  r.prev = previous <=> LinkedIn(snap, r)
  <2>1. IsLatestHash(D, previous)
    BY <1>4 DEF CleanInv
  <2>2. CASE D = {} /\ previous = NoHash
    <3>1. FirstIn(snap, r)
      BY <1>3, <2>2 DEF FirstIn
    <3>2. \A q : ~PredecessorIn(snap, q, r)
      BY <3>1 DEF FirstIn, PredecessorIn
    <3>3. QED
      BY <2>2, <3>1, <3>2 DEF LinkedIn
  <2>3. ASSUME NEW m \in D, Newest(D, m), previous = m.hash
        PROVE  r.prev = previous <=> LinkedIn(snap, r)
    <3>1. m \in snap /\ Before(m, r)
      BY <1>2 DEF Scanned
    <3>2. PredecessorIn(snap, m, r)
      BY <2>3, <1>3, <3>1 DEF PredecessorIn, Newest
    <3>3. ~FirstIn(snap, r)
      BY <3>1 DEF FirstIn
    <3>4. \A q : PredecessorIn(snap, q, r) => q = m
      <4>1. SUFFICES ASSUME NEW q, PredecessorIn(snap, q, r), q # m
                     PROVE  FALSE
        OBVIOUS
      <4>2. q \in snap /\ Before(m, q) /\ Before(q, m)
        BY <4>1, <3>1, <3>2 DEF PredecessorIn
      <4>3. QED
        BY <4>2, <3>1, <1>1, BeforeOrder
    <3>5. LinkedIn(snap, r) => r.prev = m.hash
      BY <3>3, <3>4 DEF LinkedIn
    <3>6. r.prev = m.hash => LinkedIn(snap, r)
      BY <3>1, <3>2 DEF LinkedIn
    <3>7. QED
      BY <2>3, <3>5, <3>6
  <2>4. QED
    BY <2>1, <2>2, <2>3 DEF IsLatestHash
<1>5. QED
  BY <1>2, <1>4 DEF Newest

\* What every kind of round shares.
LEMMA RoundBasics ==
  ASSUME IInv, NEW r \in todo, ScanStep(r),
         \/ broken' = broken \cup {r.id}
         \/ broken' = broken
  PROVE  /\ Scanned' = Scanned \cup {r}
         /\ r \in snap /\ r \in Row
         /\ IdsInv' /\ ScanInv' /\ OrderInv'
         /\ broken' \subseteq Ids
<1>1. Scanned' = Scanned \cup {r} /\ r \in snap /\ r \in Row
  BY DEF ScanStep, Scanned, IInv, TypeOK
<1>2. IdsInv' /\ OrderInv'
  BY DEF ScanStep, IInv, IdsInv, OrderInv
<1>3. ScanInv'
  <2>1. \A d \in Scanned : Before(d, r)
    BY RoundLooksAtTheNextRow DEF ScanStep, IInv
  <2>2. \A t \in todo' : Before(r, t)
    BY DEF ScanStep, Oldest
  <2>3. QED
    BY <1>1, <2>1, <2>2 DEF ScanStep, IInv, ScanInv
<1>4. broken' \subseteq Ids
  BY <1>1 DEF IInv, TypeOK, Row
<1>5. QED
  BY <1>1, <1>2, <1>3, <1>4

-----------------------------------------------------------------------------
(* The inductive invariant                                                 *)

\* A NULL previous_hash is a hash like any other.
LEMMA NoHashIsAHash == NoHash \in Hash
BY DEF NoHash, Hash

\* The empty table, two idle writers and a scan that has not begun satisfy it.
THEOREM InvInit == Init => IInv
<1> SUFFICES ASSUME Init PROVE IInv
  OBVIOUS
<1>0. TypeOK
  BY NoHashIsAHash DEF Init, TypeOK
<1>1. IdsInv /\ ScanInv /\ CleanInv /\ OrderInv
  BY DEF Init, IdsInv, UniqueIds, ScanInv, CleanInv, OrderInv, Linked,
         IsLatestHash, Scanned
<1>2. AlteredIsReported /\ ReportsHaveACause
  BY DEF Init, AlteredIsReported, ReportsHaveACause, Scanned
<1>3. QED
  BY <1>0, <1>1, <1>2 DEF IInv

\* store() under way, and its failure, leave the table and the scan alone.
LEMMA ReadLatestInv ==
  ASSUME IInv, NEW w \in Writers, ReadLatest(w)
  PROVE  IInv'
<1>1. PICK i \in Ids \ Used, t \in Times, b \in Bodies,
           h \in {NoHash} \cup {r.hash : r \in rows} :
        inflight' = inflight \cup {[writer |-> w, id |-> i, ts |-> t, body |-> b, prev |-> h]}
  BY DEF ReadLatest
<1>2. h \in Hash
  <2>1. \A r \in rows : r.hash \in Hash
    BY DEF IInv, TypeOK, Row
  <2>2. QED
    BY <2>1, NoHashIsAHash
<1>3. TypeOK'
  BY <1>1, <1>2 DEF ReadLatest, IInv, TypeOK, Pending, scanVars
<1>4. IdsInv'
  BY <1>1 DEF ReadLatest, IInv, IdsInv, UniqueIds, Used, scanVars
<1>5. QED
  BY <1>3, <1>4 DEF ReadLatest, IInv, scanVars, ScanInv, CleanInv, OrderInv,
     AlteredIsReported, ReportsHaveACause, Scanned

\* An INSERT that fails leaves the table as it was: only the writer is idle again.
LEMMA InsertFailsInv ==
  ASSUME IInv, NEW w \in Writers, InsertFails(w)
  PROVE  IInv'
BY DEF InsertFails, IInv, scanVars, TypeOK, IdsInv, UniqueIds, ScanInv, CleanInv,
   OrderInv, AlteredIsReported, ReportsHaveACause, Scanned

\* store()'s INSERT adds a row that carries its own hash; the scan works on the
\* rows it fetched, so a row stored meanwhile does not disturb what it found.
LEMMA InsertInv ==
  ASSUME IInv, NEW w \in Writers, Insert(w)
  PROVE  IInv'
<1>1. PICK p \in inflight :
        /\ rows' = rows \cup {StoredRow(p)}
        /\ inflight' = inflight \ {p}
        /\ orderly' = (/\ orderly
                       /\ IsLatestHash(rows, p.prev)
                       /\ \A q \in rows : Before(q, p))
        /\ UNCHANGED scanVars
  BY DEF Insert
<1> DEFINE n == StoredRow(p)
<1>2. n \in Row /\ n.id = p.id /\ n.ts = p.ts /\ n.prev = p.prev
  <2>1. /\ p.id \in Ids /\ p.ts \in Times /\ p.body \in Bodies
        /\ p.prev \in Seq(Entry)
    BY DEF IInv, TypeOK, Pending, Hash
  <2>2. [id |-> p.id, ts |-> p.ts, body |-> p.body] \in Entry
    BY <2>1 DEF Entry
  <2>3. ComputeHash(p, p.prev) \in Hash
    BY <2>1, <2>2 DEF ComputeHash, Hash
  <2>4. QED
    BY <2>1, <2>3 DEF StoredRow, Row, Hash
<1>3. TypeOK'
  BY <1>1, <1>2 DEF IInv, TypeOK, scanVars
<1>4. IdsInv'
  BY <1>1, <1>2 DEF IInv, IdsInv, UniqueIds, scanVars
<1>5. OrderInv'
  <2>1. SUFFICES ASSUME orderly'
                 PROVE  Linked(rows')
    BY <1>1 DEF IInv, OrderInv, scanVars
  <2>2. Linked(rows) /\ IsLatestHash(rows, n.prev)
    BY <1>1, <1>2, <2>1 DEF IInv, OrderInv
  <2>3. \A q \in rows : Before(q, n)
    BY <1>1, <1>2, <2>1 DEF Before
  <2>4. QED
    BY <1>1, <1>2, <1>4, <2>2, <2>3, LinkedAppend DEF IInv, TypeOK, IdsInv
<1>6. QED
  BY <1>1, <1>3, <1>4, <1>5 DEF IInv, scanVars, ScanInv, CleanInv,
     AlteredIsReported, ReportsHaveACause, Scanned

\* An edit from outside changes the body of a row and not its hash: the row
\* becomes altered, in the table and never in the rows the scan has fetched.
LEMMA EditInv ==
  ASSUME IInv, Edit
  PROVE  IInv'
<1>1. PICK r \in rows, b \in Bodies :
        /\ rows' = (rows \ {r}) \cup {[r EXCEPT !.body = b]}
        /\ UNCHANGED <<inflight, scanVars, orderly>>
  BY DEF Edit
<1>2. [r EXCEPT !.body = b] \in Row /\ [r EXCEPT !.body = b].id = r.id
  BY DEF IInv, TypeOK, Row
<1>3. TypeOK'
  BY <1>1, <1>2 DEF IInv, TypeOK, scanVars
<1>4. IdsInv'
  <2> DEFINE n == [r EXCEPT !.body = b]
  <2>1. rows' = (rows \ {r}) \cup {n} /\ n.id = r.id
    BY <1>1, <1>2
  <2> HIDE DEF n
  <2>2. UniqueIds(rows')
    BY <2>1 DEF IInv, IdsInv, UniqueIds
  <2>3. \A p \in inflight', x \in rows' : p.id # x.id
    BY <1>1, <2>1 DEF IInv, IdsInv
  <2>4. QED
    BY <1>1, <2>2, <2>3 DEF IInv, IdsInv, scanVars
<1>5. OrderInv'
  BY <1>1, LinkedEdit DEF IInv, TypeOK, OrderInv, scanVars
<1>6. QED
  BY <1>1, <1>3, <1>4, <1>5 DEF IInv, scanVars, ScanInv, CleanInv,
     AlteredIsReported, ReportsHaveACause, Scanned

\* verify_chain()'s SELECT: the rows in timestamp order, of which the scan has
\* looked at none yet.
LEMMA FetchAllInv ==
  ASSUME IInv, FetchAll
  PROVE  IInv'
<1>1. Scanned' = {}
  BY DEF FetchAll, Scanned
<1>2. TypeOK' /\ IdsInv' /\ OrderInv'
  BY DEF FetchAll, IInv, TypeOK, IdsInv, OrderInv, NoHash, Hash
<1>3. ScanInv' /\ CleanInv'
  BY <1>1 DEF FetchAll, ScanInv, CleanInv, IsLatestHash
<1>4. QED
  BY <1>1, <1>2, <1>3 DEF IInv, AlteredIsReported, ReportsHaveACause

\* The scan reports a row whose previous_hash is not the last accepted hash and
\* skips it, so the next row is still compared with that accepted hash.
LEMMA ReportUnlinkedInv ==
  ASSUME IInv, ReportUnlinked
  PROVE  IInv'
<1>1. PICK r \in todo : /\ ScanStep(r)
                        /\ r.prev # previous
                        /\ broken' = broken \cup {r.id}
                        /\ UNCHANGED previous
  BY DEF ReportUnlinked
<1>2. /\ Scanned' = Scanned \cup {r}
      /\ r \in snap
      /\ IdsInv' /\ ScanInv' /\ OrderInv'
      /\ broken' \subseteq Ids
  BY <1>1, RoundBasics
<1>3. TypeOK'
  BY <1>1, <1>2 DEF IInv, TypeOK, ScanStep
<1>4. CleanInv'
  BY <1>1 DEF CleanInv
<1>5. AlteredIsReported'
  BY <1>1, <1>2 DEF IInv, AlteredIsReported
<1>6. ReportsHaveACause'
  <2>1. SUFFICES ASSUME orderly'
                 PROVE  \A x \in Scanned' : x.id \in broken' =>
                          \E q \in Scanned' : (q = x \/ Before(q, x)) /\ Altered(q)
    BY DEF ReportsHaveACause
  <2>2. orderly
    BY <1>1, <2>1 DEF ScanStep
  <2>3. LinkedIn(snap, r)
    BY <1>2, <2>2 DEF IInv, OrderInv, Linked
  <2>4. broken # {}
    BY <1>1, <2>3, RoundLooksAtTheNextRow DEF ScanStep, IInv
  <2>5. PICK d \in Scanned : d.id \in broken
    BY <2>4 DEF IInv, ScanInv
  <2>6. PICK q \in Scanned : (q = d \/ Before(q, d)) /\ Altered(q)
    BY <2>2, <2>5 DEF IInv, ReportsHaveACause
  <2>7. Before(q, r)
    BY <2>6, <1>1, RoundLooksAtTheNextRow DEF ScanStep, IInv
  <2>8. ASSUME NEW x \in Scanned, x.id \in broken'
        PROVE  \E y \in Scanned : (y = x \/ Before(y, x)) /\ Altered(y)
    <3>1. x.id # r.id
      <4>1. x \in snap /\ x # r
        BY <1>1 DEF Scanned
      <4>2. QED
        BY <4>1, <1>2 DEF IInv, IdsInv, UniqueIds
    <3>2. x.id \in broken
      BY <2>8, <3>1, <1>1
    <3>3. QED
      BY <3>2, <2>2 DEF IInv, ReportsHaveACause
  <2>9. QED
    BY <1>2, <2>6, <2>7, <2>8
<1>7. QED
  BY <1>2, <1>3, <1>4, <1>5, <1>6 DEF IInv

\* The scan reports a linked row whose content no longer has its hash.
LEMMA ReportAlteredInv ==
  ASSUME IInv, ReportAltered
  PROVE  IInv'
<1>1. PICK r \in todo : /\ ScanStep(r)
                        /\ Altered(r)
                        /\ broken' = broken \cup {r.id}
                        /\ UNCHANGED previous
  BY DEF ReportAltered
<1>2. /\ Scanned' = Scanned \cup {r}
      /\ r \in snap
      /\ IdsInv' /\ ScanInv' /\ OrderInv'
      /\ broken' \subseteq Ids
  BY <1>1, RoundBasics
<1>3. TypeOK'
  BY <1>1, <1>2 DEF IInv, TypeOK, ScanStep
<1>4. CleanInv'
  BY <1>1 DEF CleanInv
<1>5. AlteredIsReported'
  BY <1>1, <1>2 DEF IInv, AlteredIsReported
<1>6. ReportsHaveACause'
  <2>1. ASSUME NEW x \in Scanned, x.id \in broken', orderly'
        PROVE  \E y \in Scanned : (y = x \/ Before(y, x)) /\ Altered(y)
    <3>1. x.id # r.id
      <4>1. x \in snap /\ x # r
        BY <1>1 DEF Scanned
      <4>2. QED
        BY <4>1, <1>2 DEF IInv, IdsInv, UniqueIds
    <3>2. x.id \in broken
      BY <2>1, <3>1, <1>1
    <3>3. QED
      BY <3>2, <2>1, <1>1 DEF IInv, ReportsHaveACause, ScanStep
  <2>2. QED
    BY <1>1, <1>2, <2>1 DEF ReportsHaveACause
<1>7. QED
  BY <1>2, <1>3, <1>4, <1>5, <1>6 DEF IInv

\* A linked row with its own hash becomes the predecessor of the next one.
LEMMA AcceptInv ==
  ASSUME IInv, Accept
  PROVE  IInv'
<1>1. PICK r \in todo : /\ ScanStep(r)
                        /\ r.prev = previous
                        /\ ~Altered(r)
                        /\ previous' = r.hash
                        /\ UNCHANGED broken
  BY DEF Accept
<1>2. /\ Scanned' = Scanned \cup {r}
      /\ r \in snap /\ r \in Row
      /\ IdsInv' /\ ScanInv' /\ OrderInv'
      /\ broken' \subseteq Ids
  BY <1>1, RoundBasics
<1>3. TypeOK'
  BY <1>1, <1>2 DEF IInv, TypeOK, ScanStep, Row
<1>4. CleanInv'
  <2>1. SUFFICES ASSUME broken' = {}
                 PROVE  /\ IsLatestHash(Scanned', previous')
                        /\ \A x \in Scanned' : ~Altered(x) /\ LinkedIn(snap', x)
    BY DEF CleanInv
  <2>2. broken = {} /\ snap' = snap
    BY <1>1, <2>1 DEF ScanStep
  <2>3. Newest(Scanned', r) /\ LinkedIn(snap, r)
    BY <1>1, <1>2, <2>2, RoundLooksAtTheNextRow DEF ScanStep, IInv
  <2>4. IsLatestHash(Scanned', previous')
    BY <1>1, <1>2, <2>3 DEF IsLatestHash
  <2>5. QED
    BY <1>1, <1>2, <2>2, <2>3, <2>4 DEF IInv, CleanInv
<1>5. AlteredIsReported'
  BY <1>1, <1>2 DEF IInv, AlteredIsReported
<1>6. ReportsHaveACause'
  <2>1. r.id \notin broken
    <3>1. SUFFICES ASSUME NEW d \in Scanned, d.id = r.id
                   PROVE  FALSE
      BY DEF IInv, ScanInv
    <3>2. d \in snap /\ d # r
      BY <1>1 DEF Scanned
    <3>3. QED
      BY <3>1, <3>2, <1>2 DEF IInv, IdsInv, UniqueIds
  <2>2. QED
    BY <1>1, <1>2, <2>1 DEF IInv, ReportsHaveACause, ScanStep
<1>7. QED
  BY <1>2, <1>3, <1>4, <1>5, <1>6 DEF IInv

\* The scan returns what it reported once no row is left, or ends with an error.
LEMMA ScanEndsInv ==
  ASSUME IInv, Return \/ ScanFails
  PROVE  IInv'
<1>0. /\ UNCHANGED <<rows, inflight, orderly>> /\ scanning' = FALSE
      /\ snap' = {} /\ todo' = {} /\ previous' = NoHash /\ broken' = {}
  BY DEF Return, ScanFails
<1>1. Scanned' = {}
  BY <1>0 DEF Scanned
<1>2. TypeOK'
  BY <1>0, NoHashIsAHash DEF IInv, TypeOK
<1>2a. IdsInv' /\ OrderInv'
  BY <1>0 DEF IInv, IdsInv, UniqueIds, OrderInv, Linked
<1>3. ScanInv' /\ CleanInv'
  BY <1>0, <1>1 DEF ScanInv, CleanInv, IsLatestHash
<1>4. QED
  BY <1>1, <1>2, <1>2a, <1>3 DEF IInv, AlteredIsReported, ReportsHaveACause

\* IInv is inductive: every action of the two writers, of the scan and of
\* whoever edits the table preserves it.
THEOREM Inductive == Spec => []IInv
<1>1. IInv /\ [Next]_vars => IInv'
  <2> SUFFICES ASSUME IInv, [Next]_vars PROVE IInv'
    OBVIOUS
  <2>1. CASE UNCHANGED vars
    BY <2>1 DEF vars, scanVars, IInv, TypeOK, IdsInv, ScanInv, CleanInv, OrderInv,
       AlteredIsReported, ReportsHaveACause, Scanned
  <2>2. QED
    BY <2>1, ReadLatestInv, InsertInv, InsertFailsInv, EditInv, FetchAllInv,
       ReportUnlinkedInv, ReportAlteredInv, AcceptInv, ScanEndsInv DEF Next
<1>2. QED
  BY InvInit, <1>1, PTL DEF Spec

-----------------------------------------------------------------------------
(* The theorems                                                            *)

\* Every value stays in its type.
THEOREM TypeCorrect == Spec => []TypeOK
<1>1. IInv => TypeOK
  BY DEF IInv
<1>2. QED
  BY <1>1, Inductive, PTL

\* A verification that reports nothing has read an intact chain.
THEOREM EmptyResultIsSound == Spec => []EmptyMeansIntact
<1>1. IInv => EmptyMeansIntact
  BY DEF IInv, CleanInv, EmptyMeansIntact, Intact, Linked, Scanned
<1>2. QED
  BY <1>1, Inductive, PTL

\* Every altered row is reported, whatever else is wrong with the table.
THEOREM AlterationsAreReported == Spec => []AlteredIsReported
<1>1. IInv => AlteredIsReported
  BY DEF IInv
<1>2. QED
  BY <1>1, Inductive, PTL

\* With orderly inserts there is no false report.
THEOREM OrderlyChainsVerify == Spec => []ReportsHaveACause
<1>1. IInv => ReportsHaveACause
  BY DEF IInv
<1>2. QED
  BY <1>1, Inductive, PTL
=============================================================================
