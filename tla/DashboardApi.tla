---------------------------- MODULE DashboardApi ----------------------------
(***************************************************************************)
(* The handlers of api.rs over the state the background loops keep         *)
(* (BackgroundState): explaining a log event through a cache, acknowledging*)
(* an alert, and reading the status, which takes a number from the heart-  *)
(* beat.  A handler runs on through its awaits while the heartbeat loop    *)
(* and the other handlers do.                                              *)
(***************************************************************************)
EXTENDS Naturals, Sequences, FiniteSets

CONSTANTS
  Requests,   \* the requests that are under way at the same time
  Messages,   \* the log messages somebody asks about
  Keys,       \* the keys of alerts
  FreshFor,   \* the age at which an explanation is no longer fresh (ten minutes)
  MaxTime,    \* bound on the clock
  MaxBeats    \* bound on the heartbeat numbers taken

ASSUME DashboardApiAssumption ==
  /\ FreshFor \in Nat \ {0} /\ MaxTime \in Nat /\ MaxBeats \in Nat

VARIABLES
  clock,
  explanations,  \* log_explanations: message -> entry
  acknowledged,  \* acknowledged_alert_keys
  beats,         \* heartbeat_seq
  heartbeat,     \* the heartbeat loop: the number it has taken, 0 between rounds
  published,     \* the number of the last heartbeat on the bus
  request,       \* what each request is about and how far it is
  reply          \* what each request was answered

apiVars == <<clock, explanations, acknowledged, beats, heartbeat, published,
             request, reply>>
loopVars == <<beats, heartbeat, published>>

Explanations == [about : Messages, answered : 0..MaxTime]
Entries == [text : Explanations, created : 0..MaxTime]
NoEntry == [text |-> << >>, created |-> 0]
NoRequest == [at |-> "idle"]
NoReply == [kind |-> "none"]

RequestStates ==
  {NoRequest}
  \cup [at : {"explain", "ask"}, message : Messages]
  \cup [at : {"store"}, message : Messages, text : Explanations]
  \cup [at : {"acknowledge", "list"}, key : Keys]
  \cup [at : {"status"}, seen : 0..MaxBeats]
  \cup [at : {"insight"}, seen : 0..MaxBeats, seq : 0..MaxBeats]

Replies ==
  {NoReply}
  \cup [kind : {"refused", "failed"}]
  \cup [kind : {"explanation"}, message : Messages, text : Explanations, cached : BOOLEAN]
  \cup [kind : {"list"}, key : Keys, keys : SUBSET Keys]
  \cup [kind : {"status"}, seq : 0..MaxBeats]

ApiTypeOK ==
  /\ clock \in 0..MaxTime
  /\ explanations \in [Messages -> Entries \cup {NoEntry}]
  /\ acknowledged \in Seq(Keys)
  /\ beats \in 0..MaxBeats /\ heartbeat \in 0..MaxBeats /\ published \in 0..MaxBeats
  /\ request \in [Requests -> RequestStates]
  /\ reply \in [Requests -> Replies]

ApiInit ==
  /\ clock = 0
  /\ explanations = [m \in Messages |-> NoEntry]
  /\ acknowledged = << >>
  /\ beats = 0
  /\ heartbeat = 0
  /\ published = 0
  /\ request = [r \in Requests |-> NoRequest]
  /\ reply = [r \in Requests |-> NoReply]

KeySet == {acknowledged[i] : i \in 1..Len(acknowledged)}

\* A request is answered and its connection may bring another.
Respond(r, what) ==
  /\ reply' = [reply EXCEPT ![r] = what]
  /\ request' = [request EXCEPT ![r] = NoRequest]

Go(r, to) ==
  /\ request' = [request EXCEPT ![r] = to]
  /\ UNCHANGED reply

\* seen, of a request for the status, is the last heartbeat on the bus when it came: no
\* variable of the code, but what its answer is held against.
Arrive(r) ==
  /\ request[r] = NoRequest
  /\ \E to \in {x \in RequestStates : x.at \in {"explain", "acknowledge", "status"}} :
       /\ to.at = "status" => to.seen = published
       /\ request' = [request EXCEPT ![r] = to]
  /\ reply' = [reply EXCEPT ![r] = NoReply]
  /\ UNCHANGED <<clock, explanations, acknowledged, loopVars>>

\* The rate limit, or a message that is too long.
Refuse(r) ==
  /\ request[r].at \in {"explain", "acknowledge", "status"}
  /\ Respond(r, [kind |-> "refused"])
  /\ UNCHANGED <<clock, explanations, acknowledged, loopVars>>

-----------------------------------------------------------------------------
(* explain_log                                                             *)

\* Mutant of IsFresh: the age is counted one too long.
IsFreshTooLong(e) == e # NoEntry /\ clock - e.created <= FreshFor

IsFresh(e) == e # NoEntry /\ clock - e.created < FreshFor

FromCache(r) ==
  LET m == request[r].message IN
  /\ request[r].at = "explain"
  /\ IsFresh(explanations[m])
  /\ Respond(r, [kind |-> "explanation", message |-> m, text |-> explanations[m].text,
                cached |-> TRUE])
  /\ UNCHANGED <<clock, explanations, acknowledged, loopVars>>

\* No fresh entry, read under the lock that is then given up: the LLM is asked,
\* by every request that gets here before one of them has stored its answer.
AskLlm(r) ==
  /\ request[r].at = "explain"
  /\ ~IsFresh(explanations[request[r].message])
  /\ Go(r, [at |-> "ask", message |-> request[r].message])
  /\ UNCHANGED <<clock, explanations, acknowledged, loopVars>>

LlmAnswers(r) ==
  LET m == request[r].message IN
  /\ request[r].at = "ask"
  /\ Go(r, [at |-> "store", message |-> m, text |-> [about |-> m, answered |-> clock]])
  /\ UNCHANGED <<clock, explanations, acknowledged, loopVars>>

LlmFails(r) ==
  /\ request[r].at = "ask"
  /\ Respond(r, [kind |-> "failed"])
  /\ UNCHANGED <<clock, explanations, acknowledged, loopVars>>

\* set_explanation: the entry is as old as its storing, an older one is replaced.
StoreExplanation(r) ==
  LET m == request[r].message
      t == request[r].text IN
  /\ request[r].at = "store"
  /\ explanations' = [explanations EXCEPT ![m] = [text |-> t, created |-> clock]]
  /\ Respond(r, [kind |-> "explanation", message |-> m, text |-> t, cached |-> FALSE])
  /\ UNCHANGED <<clock, acknowledged, loopVars>>

-----------------------------------------------------------------------------
(* acknowledge_alert                                                       *)

\* The list is looked at and added to under one lock ...
Acknowledge(r) ==
  LET k == request[r].key IN
  /\ request[r].at = "acknowledge"
  /\ acknowledged' = IF k \in KeySet THEN acknowledged ELSE Append(acknowledged, k)
  /\ Go(r, [at |-> "list", key |-> k])
  /\ UNCHANGED <<clock, explanations, loopVars>>

\* ... and read under another for the answer.
ListKeys(r) ==
  /\ request[r].at = "list"
  /\ Respond(r, [kind |-> "list", key |-> request[r].key, keys |-> KeySet])
  /\ UNCHANGED <<clock, explanations, acknowledged, loopVars>>

-----------------------------------------------------------------------------
(* The status and the heartbeat loop                                        *)

\* Mutant of TakeStatus: the number taken is given back.
TakeStatusGivesBack(r) ==
  /\ request[r].at = "status"
  /\ beats' = IF beats = 0 THEN 0 ELSE beats - 1
  /\ Go(r, [at |-> "insight", seen |-> request[r].seen, seq |-> beats])
  /\ UNCHANGED <<clock, explanations, acknowledged, heartbeat, published>>

\* next_heartbeat_seq() - 1: a status takes a number no heartbeat will have ...
TakeStatus(r) ==
  /\ request[r].at = "status"
  /\ beats < MaxBeats
  /\ beats' = beats + 1
  /\ Go(r, [at |-> "insight", seen |-> request[r].seen, seq |-> beats])
  /\ UNCHANGED <<clock, explanations, acknowledged, heartbeat, published>>

\* ... and waits for the lock of the insight, on the page for the database too, before
\* it is answered: heartbeats go out meanwhile.
AnswerStatus(r) ==
  /\ request[r].at = "insight"
  /\ Respond(r, [kind |-> "status", seq |-> request[r].seq])
  /\ UNCHANGED <<clock, explanations, acknowledged, loopVars>>

\* store_counts fails.
StatusFails(r) ==
  /\ request[r].at = "status"
  /\ Respond(r, [kind |-> "failed"])
  /\ UNCHANGED <<clock, explanations, acknowledged, loopVars>>

TakeBeat ==
  /\ heartbeat = 0
  /\ beats < MaxBeats
  /\ beats' = beats + 1
  /\ heartbeat' = beats + 1
  /\ UNCHANGED <<clock, explanations, acknowledged, published, request, reply>>

PublishBeat ==
  /\ heartbeat > 0
  /\ published' = heartbeat
  /\ heartbeat' = 0
  /\ UNCHANGED <<clock, explanations, acknowledged, beats, request, reply>>

ClockTicks ==
  /\ clock < MaxTime
  /\ clock' = clock + 1
  /\ UNCHANGED <<explanations, acknowledged, loopVars, request, reply>>

ApiNext ==
  \/ \E r \in Requests :
       \/ Arrive(r) \/ Refuse(r)
       \/ FromCache(r) \/ AskLlm(r) \/ LlmAnswers(r) \/ LlmFails(r) \/ StoreExplanation(r)
       \/ Acknowledge(r) \/ ListKeys(r)
       \/ TakeStatus(r) \/ AnswerStatus(r) \/ StatusFails(r)
  \/ TakeBeat \/ PublishBeat \/ ClockTicks

ApiSpec == ApiInit /\ [][ApiNext]_apiVars

-----------------------------------------------------------------------------
(* Properties                                                              *)

\* What a client is answered is so: an explanation was given of that very message, and
\* one from the cache was stored less than FreshFor before, though requests that miss
\* together store over each other in any order; who acknowledges an alert finds it in
\* the list, and nobody finds it there twice.
RepliesAreCurrent ==
  [][\A r \in Requests :
       LET x == reply'[r] IN
       /\ x # reply[r] /\ x.kind = "explanation" =>
            /\ x.message = request[r].message /\ x.text.about = x.message
            /\ x.cached => clock < explanations[x.message].created + FreshFor
            /\ explanations'[x.message].text = x.text
       /\ x # reply[r] /\ x.kind = "list" =>
            /\ x.key = request[r].key /\ x.key \in x.keys
            /\ Len(acknowledged) = Cardinality(x.keys)]_apiVars

\* Heartbeats go out with growing numbers, and who asks for the status after a
\* heartbeat is out is not shown an older number, although status and heartbeat take
\* their numbers from one counter and both wait before they show them.  Those that go
\* out while the status is read may be ahead of it.
HeartbeatsGrow ==
  [][/\ heartbeat > 0 /\ heartbeat' = 0 => published' > published
     /\ \A r \in Requests : reply'[r] # reply[r] /\ reply'[r].kind = "status"
                              => reply'[r].seq >= request[r].seen]_apiVars
=============================================================================
