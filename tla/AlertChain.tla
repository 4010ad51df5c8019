----------------------------- MODULE AlertChain -----------------------------
(***************************************************************************)
(* The append-only table of security alerts (observa-db/src/security.rs):  *)
(* store() reads the newest row's hash, computes the hash of the new row   *)
(* over its content and that hash, and inserts the row; verify_chain()     *)
(* walks the table in (ts, id) order and reports the rows that do not      *)
(* continue the chain.                                                     *)
(*                                                                         *)
(* The two queries of store() are two awaits with no transaction around    *)
(* them, and the program has two writers: the log ingestor (dispatch, with *)
(* the time the journal recorded) and the insight digest (with the current *)
(* time).  Timestamps therefore reach the table in any order.              *)
(*                                                                         *)
(* SHA-256 is taken to be free of collisions: a hash is the list of the    *)
(* entries it commits to, and NoHash (a NULL column) is the empty list.    *)
(***************************************************************************)
EXTENDS Naturals, Sequences

CONSTANTS
  Writers,  \* the tasks that call store()
  Ids,      \* alert ids; random UUIDs, compared as text by ORDER BY
  Times,    \* timestamps
  Bodies    \* everything else the hash covers (source, severity, message...)

ASSUME IdsAssumption == Ids \subseteq Nat
ASSUME TimesAssumption == Times \subseteq Nat

VARIABLES
  rows,      \* the table security_alerts
  inflight,  \* stores between reading the latest hash and the INSERT
  scanning,  \* whether a verify_chain() is under way
  snap,      \* the rows its query returned
  todo,      \* those of them its loop has not reached
  previous,  \* its local previous_hash
  broken,    \* its result so far, the ids it reports
  orderly    \* history: every INSERT so far extended the end of the chain

vars == <<rows, inflight, scanning, snap, todo, previous, broken, orderly>>
scanVars == <<scanning, snap, todo, previous, broken>>

Entry == [id : Ids, ts : Times, body : Bodies]
Hash == Seq(Entry)
NoHash == <<>>
Row == [id : Ids, ts : Times, body : Bodies, prev : Hash, hash : Hash]
Pending == [writer : Writers, id : Ids, ts : Times, body : Bodies, prev : Hash]

\* compute_hash: the content of e chained to the hash prev.
ComputeHash(e, prev) == Append(prev, [id |-> e.id, ts |-> e.ts, body |-> e.body])

\* ORDER BY ts, id
Before(a, b) == \/ a.ts < b.ts
                \/ a.ts = b.ts /\ a.id < b.id

Oldest(S, r) == r \in S /\ \A q \in S : q = r \/ Before(r, q)
Newest(S, r) == r \in S /\ \A q \in S : q = r \/ Before(q, r)

\* h is what latest_hash() returns on the table S.
IsLatestHash(S, h) == \/ S = {} /\ h = NoHash
                      \/ \E r \in S : Newest(S, r) /\ h = r.hash

Altered(r) == r.hash # ComputeHash(r, r.prev)

Used == {r.id : r \in rows} \cup {p.id : p \in inflight}

TypeOK ==
  /\ rows \subseteq Row
  /\ inflight \subseteq Pending
  /\ scanning \in BOOLEAN
  /\ snap \subseteq Row
  /\ todo \subseteq snap
  /\ previous \in Hash
  /\ broken \subseteq Ids
  /\ orderly \in BOOLEAN

Init ==
  /\ rows = {}
  /\ inflight = {}
  /\ scanning = FALSE
  /\ snap = {}
  /\ todo = {}
  /\ previous = NoHash
  /\ broken = {}
  /\ orderly = TRUE

-----------------------------------------------------------------------------
(* store()                                                                 *)

\* The first await: latest_hash().
ReadLatest(w) ==
  /\ \A p \in inflight : p.writer # w
  /\ \E i \in Ids \ Used, t \in Times, b \in Bodies, h \in {NoHash} \cup {r.hash : r \in rows} :
       /\ IsLatestHash(rows, h)
       /\ inflight' = inflight \cup {[writer |-> w, id |-> i, ts |-> t, body |-> b, prev |-> h]}
  /\ UNCHANGED <<rows, scanVars, orderly>>

StoredRow(p) == [id |-> p.id, ts |-> p.ts, body |-> p.body,
                 prev |-> p.prev, hash |-> ComputeHash(p, p.prev)]

\* The second await: the INSERT.
Insert(w) ==
  \E p \in inflight :
    /\ p.writer = w
    /\ rows' = rows \cup {StoredRow(p)}
    /\ inflight' = inflight \ {p}
    /\ orderly' = (/\ orderly
                   /\ IsLatestHash(rows, p.prev)
                   /\ \A q \in rows : Before(q, p))
    /\ UNCHANGED scanVars

\* The INSERT fails, or the process stops before it: nothing is stored.
InsertFails(w) ==
  \E p \in inflight :
    /\ p.writer = w
    /\ inflight' = inflight \ {p}
    /\ UNCHANGED <<rows, scanVars, orderly>>

\* Someone edits a stored row behind the program's back.
Edit ==
  \E r \in rows, b \in Bodies :
    /\ b # r.body
    /\ rows' = (rows \ {r}) \cup {[r EXCEPT !.body = b]}
    /\ UNCHANGED <<inflight, scanVars, orderly>>

-----------------------------------------------------------------------------
(* verify_chain()                                                          *)

FetchAll ==
  /\ ~scanning
  /\ scanning' = TRUE
  /\ snap' = rows
  /\ todo' = rows
  /\ previous' = NoHash
  /\ broken' = {}
  /\ UNCHANGED <<rows, inflight, orderly>>

\* One round of the loop, on the oldest row left.
ScanStep(r) ==
  /\ scanning
  /\ Oldest(todo, r)
  /\ todo' = todo \ {r}
  /\ UNCHANGED <<rows, inflight, scanning, snap, orderly>>

\* Mutant: `continue` without pushing the id.
SkipUnlinked ==
  \E r \in todo :
    /\ ScanStep(r)
    /\ r.prev # previous
    /\ UNCHANGED <<previous, broken>>

\* stored_prev != previous_hash: reported, and the loop continues with the
\* same previous_hash.
ReportUnlinked ==
  \E r \in todo :
    /\ ScanStep(r)
    /\ r.prev # previous
    /\ broken' = broken \cup {r.id}
    /\ UNCHANGED previous

\* recomputed != stored_hash
ReportAltered ==
  \E r \in todo :
    /\ ScanStep(r)
    /\ r.prev = previous
    /\ Altered(r)
    /\ broken' = broken \cup {r.id}
    /\ UNCHANGED previous

\* Mutant: stored_prev is not compared with previous_hash.
AcceptUnlinked ==
  \E r \in todo :
    /\ ScanStep(r)
    /\ ~Altered(r)
    /\ previous' = r.hash
    /\ UNCHANGED broken

\* Mutant: previous_hash is not advanced.
AcceptInPlace ==
  \E r \in todo :
    /\ ScanStep(r)
    /\ r.prev = previous
    /\ ~Altered(r)
    /\ UNCHANGED <<previous, broken>>

Accept ==
  \E r \in todo :
    /\ ScanStep(r)
    /\ r.prev = previous
    /\ ~Altered(r)
    /\ previous' = r.hash
    /\ UNCHANGED broken

\* A row that does not parse any more ends the scan with an error and no result.
ScanFails ==
  /\ \E r \in todo : Oldest(todo, r) /\ Altered(r)
  /\ scanning /\ scanning' = FALSE
  /\ snap' = {} /\ todo' = {}
  /\ previous' = NoHash
  /\ broken' = {}
  /\ UNCHANGED <<rows, inflight, orderly>>

\* The result is returned to the caller.
Return ==
  /\ scanning
  /\ todo = {}
  /\ scanning' = FALSE
  /\ snap' = {}
  /\ previous' = NoHash
  /\ broken' = {}
  /\ UNCHANGED <<rows, inflight, todo, orderly>>

Next ==
  \/ \E w \in Writers : ReadLatest(w) \/ Insert(w) \/ InsertFails(w)
  \/ Edit
  \/ FetchAll
  \/ ReportUnlinked
  \/ ReportAltered
  \/ Accept
  \/ ScanFails
  \/ Return

Spec == Init /\ [][Next]_vars

-----------------------------------------------------------------------------
(* Properties                                                              *)

Scanned == snap \ todo

FirstIn(S, r) == \A q \in S : ~Before(q, r)
PredecessorIn(S, q, r) == /\ q \in S
                          /\ Before(q, r)
                          /\ \A x \in S : Before(x, r) => x = q \/ Before(x, q)

\* The stored previous_hash of r is the stored hash of the row before it.
LinkedIn(S, r) == \/ FirstIn(S, r) /\ r.prev = NoHash
                  \/ \E q \in S : PredecessorIn(S, q, r) /\ r.prev = q.hash

Linked(S) == \A r \in S : LinkedIn(S, r)

Intact(S) == Linked(S) /\ \A r \in S : ~Altered(r)

\* verify_chain's doc: an empty result means the chain is intact.  Whatever
\* races and edits the table has been through, a scan that reports nothing has
\* seen rows that all carry their own hash and are linked end to end.
EmptyMeansIntact == scanning /\ todo = {} /\ broken = {} => Intact(snap)

\* A row whose content no longer matches its hash is always reported, also
\* behind rows the scan had to skip.
AlteredIsReported == \A r \in Scanned : Altered(r) => r.id \in broken

\* While every insert extended the end of the chain, a report is never made
\* without cause: at or before each reported row there is an altered one.
ReportsHaveACause ==
  orderly => \A r \in Scanned : r.id \in broken =>
               \E q \in Scanned : (q = r \/ Before(q, r)) /\ Altered(q)

\* The type's doc: the chain can be verified by recomputing the hashes in
\* timestamp order, so a table nobody edited verifies; at least where the timestamps
\* give an order, no two of them being equal.
UneditedVerifies ==
  (\A r \in snap : ~Altered(r) /\ \A q \in snap : q.ts = r.ts => q = r) => broken = {}
=============================================================================
