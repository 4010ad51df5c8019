------------------------------ MODULE LogPages ------------------------------
(***************************************************************************)
(* The log page and its pager (build_logs_context, search_logs_paginated,  *)
(* search_paginated): a user opens the first page of a filter and follows  *)
(* "Next" while the pages say there is one, each page a request of its     *)
(* own.  Meanwhile logs arrive, with whatever timestamps, and old ones are *)
(* pruned.                                                                 *)
(*                                                                         *)
(* The total and the rows of a page are two queries.  A text to search for *)
(* makes them fail, always: the clause's ESCAPE is followed by one ? too   *)
(* many.  The page is then cut from the newest Newest logs.                *)
(***************************************************************************)
EXTENDS Naturals, Sequences, FiniteSets, SequencesExt

CONSTANTS
  PageSize,   \* log_page_size
  Asked,      \* the page sizes a URL may ask for
  Newest,     \* how many logs are looked through without a query (1000)
  CacheSize,  \* how many logs the cache keeps (100)
  MaxArrivals     \* bound on the logs that arrive

ASSUME LogPagesAssumption ==
  /\ PageSize \in Nat \ {0} /\ Asked \subseteq Nat
  /\ Newest \in Nat /\ CacheSize \in Nat /\ MaxArrivals \in Nat

VARIABLES
  hasDb,    \* whether a database is configured, fixed at the start
  stored,   \* the rows of logs by falling timestamp
  recent,   \* the cache, by falling time of arrival
  walk      \* the user's way through the pages

pagesVars == <<hasDb, stored, recent, walk>>

\* hit: the filter's severities, and the text if there is one, match the log.
Log == [n : 1..MaxArrivals, hit : BOOLEAN]
Hits(logs) ==
  LET hits[k \in 0..Len(logs)] ==
        IF k = 0 THEN << >>
        ELSE IF logs[k].hit THEN Append(hits[k - 1], logs[k]) ELSE hits[k - 1]
  IN hits[Len(logs)]
First(n, logs) == SubSeq(logs, 1, IF Len(logs) < n THEN Len(logs) ELSE n)

\* text: no q in the URL, an empty one (as the form sends it), or some words.
\* due: what matched when the walk began.  few: a page was cut from the newest logs.
\* raced: a log came in between total and rows.  failed: a query has failed.
\* jumped: a page that was smaller than those behind it has been left.
NoWalk == [at |-> "none", text |-> "no", size |-> 0, page |-> 0, total |-> 0, next |-> FALSE,
           due |-> {}, seen |-> {}, few |-> FALSE, raced |-> FALSE, failed |-> FALSE,
           jumped |-> FALSE]

PagesTypeOK ==
  /\ hasDb \in BOOLEAN
  /\ stored \in Seq(Log) /\ recent \in Seq(Log)
  /\ walk \in [at : {"none", "count", "select", "newest", "page"}, text : {"no", "empty", "words"},
               size : Nat, page : Nat, total : Nat, next : BOOLEAN,
               due : SUBSET Log, seen : SUBSET Log,
               few : BOOLEAN, raced : BOOLEAN, failed : BOOLEAN, jumped : BOOLEAN]

PagesInit ==
  /\ hasDb \in BOOLEAN
  /\ stored = << >>
  /\ recent = << >>
  /\ walk = NoWalk

-----------------------------------------------------------------------------
(* The logs                                                                *)

Arrived == {l.n : l \in Range(stored) \cup Range(recent)} \cup {l.n : l \in walk.seen \cup walk.due}

\* A log takes its place among the timestamps of the table, and the cache's front.
LogArrives ==
  /\ \E l \in Log :
       /\ l.n \notin Arrived /\ \A k \in 1..l.n - 1 : k \in Arrived
       /\ recent' = First(CacheSize, <<l>> \o recent)
       /\ IF hasDb THEN \E i \in 1..Len(stored) + 1 : stored' = InsertAt(stored, i, l)
                   ELSE UNCHANGED stored
  /\ walk' = [walk EXCEPT !.raced = @ \/ walk.at = "select"]
  /\ UNCHANGED hasDb

LogsPruned ==
  /\ stored # << >>
  /\ stored' = Front(stored)
  /\ UNCHANGED <<hasDb, recent, walk>>

-----------------------------------------------------------------------------
(* search_logs_paginated                                                   *)

\* A page_size in the URL is taken, a missing, unreadable or zero one is not.
OpenLogs ==
  /\ walk.at \in {"none", "page"}
  /\ \E text \in {"no", "empty", "words"}, size \in Asked :
       walk' = [NoWalk EXCEPT !.text = text,
                              !.size = IF size > 0 THEN size ELSE PageSize,
                              !.at = IF hasDb /\ text = "no" THEN "count" ELSE "newest",
                              !.due = Range(Hits(IF ~hasDb THEN recent
                                                 ELSE IF text = "no" THEN stored
                                                 ELSE First(Newest, stored)))]
  /\ UNCHANGED <<hasDb, stored, recent>>

Offset == walk.page * walk.size

\* Mutant of PageOf: the offset is one row too far.
PageOfSkips(hits) ==
  SubSeq(hits, Offset + 2, IF Len(hits) < Offset + 1 + walk.size THEN Len(hits)
                           ELSE Offset + 1 + walk.size)

\* skip(offset).take(limit), or OFFSET and LIMIT.
PageOf(hits) == SubSeq(hits, Offset + 1, IF Len(hits) < Offset + walk.size THEN Len(hits)
                                         ELSE Offset + walk.size)

\* total.max(1).div_ceil(page_size)
TotalPages(total) == ((IF total = 0 THEN 1 ELSE total) + walk.size - 1) \div walk.size

Show(hits, total, few) ==
  walk' = [walk EXCEPT !.at = "page", !.seen = @ \cup Range(PageOf(hits)),
                       !.next = walk.page + 1 < TotalPages(total),
                       !.few = @ \/ few]

CountRows ==
  /\ walk.at = "count"
  /\ walk' = [walk EXCEPT !.at = "select", !.total = Len(Hits(stored))]
  /\ UNCHANGED <<hasDb, stored, recent>>

SelectRows ==
  /\ walk.at = "select"
  /\ Show(Hits(stored), walk.total, FALSE)
  /\ UNCHANGED <<hasDb, stored, recent>>

\* Either query fails: the logs are looked through instead.
QueryFails ==
  /\ walk.at \in {"count", "select"}
  /\ walk' = [walk EXCEPT !.at = "newest", !.failed = TRUE]
  /\ UNCHANGED <<hasDb, stored, recent>>

\* recent_logs(1000) from the table, unless it is empty, and the filter behind it.
ShowNewest ==
  /\ walk.at = "newest"
  /\ hasDb /\ stored # << >>
  /\ LET hits == Hits(First(Newest, stored)) IN Show(hits, Len(hits), TRUE)
  /\ UNCHANGED <<hasDb, stored, recent>>

\* There is no table, nothing in it, or an error: the cache answers.
ShowCached ==
  /\ walk.at = "newest"
  /\ LET hits == Hits(First(Newest, recent))
         total == Len(hits) IN
       walk' = [walk EXCEPT !.at = "page", !.seen = @ \cup Range(PageOf(hits)),
                            !.next = walk.page + 1 < TotalPages(total), !.few = TRUE,
                            !.failed = @ \/ (hasDb /\ stored # << >>)]
  /\ UNCHANGED <<hasDb, stored, recent>>

\* Nothing can be read: an empty page, and a total of none.
ShowNothing ==
  /\ walk.at = "newest"
  /\ walk' = [walk EXCEPT !.at = "page", !.next = walk.page + 1 < TotalPages(0), !.failed = TRUE]
  /\ UNCHANGED <<hasDb, stored, recent>>

\* The link keeps the filter but not the page size, and no empty text.
FollowNext ==
  /\ walk.at = "page" /\ walk.next
  /\ walk' = [walk EXCEPT !.page = @ + 1, !.size = PageSize, !.jumped = @ \/ walk.size < PageSize,
                          !.text = IF @ = "words" THEN "words" ELSE "no",
                          !.at = IF hasDb /\ walk.text # "words" THEN "count" ELSE "newest"]
  /\ UNCHANGED <<hasDb, stored, recent>>

PagesNext ==
  \/ LogArrives \/ LogsPruned
  \/ OpenLogs \/ CountRows \/ SelectRows \/ QueryFails
  \/ ShowNewest \/ ShowCached \/ ShowNothing \/ FollowNext

PagesSpec == PagesInit /\ [][PagesNext]_pagesVars

-----------------------------------------------------------------------------
(* Properties                                                              *)

\* What a walk can still reach.
InReach == IF ~hasDb THEN First(Newest, recent)
           ELSE IF walk.few THEN First(Newest, stored) ELSE stored

\* Who follows "Next" to the last page has seen every log that matched at the start
\* and is still in reach, although each page is a query of its own and logs come in
\* anywhere and go meanwhile: unless a query failed, one came in between a page's
\* total and its rows, or the first page was smaller than those the links lead to.
WalkMissesNothing ==
  /\ walk.at = "page" /\ ~walk.next
  /\ ~walk.failed /\ ~walk.raced /\ ~walk.jumped
  => walk.due \cap Range(InReach) \subseteq walk.seen
=============================================================================
