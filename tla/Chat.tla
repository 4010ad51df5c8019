-------------------------------- MODULE Chat --------------------------------
(***************************************************************************)
(* One chat session and the requests on it: ask, ask_html and stream       *)
(* (observa-server/src/chat.rs) over the chat store (store.rs, DbChatStore *)
(* and observa-db/src/chat.rs).                                            *)
(*                                                                         *)
(* Every call of the store and of the LLM is an await of its own: other    *)
(* requests and deletes of the session come in between.  A client that     *)
(* disconnects drops its handler at the await it is at; a streamed reply   *)
(* is gathered by a task of its own, which goes on without the client.     *)
(***************************************************************************)
EXTENDS Naturals, Sequences, FiniteSets

CONSTANTS
  Requests,    \* requests on the session
  Tokens,      \* owner tokens that clients present
  None,        \* no session row
  HasDb,       \* a database is configured
  MaxDeletes   \* bound on the deletes of the session

ASSUME ChatAssumption == /\ None \notin Tokens
                         /\ HasDb \in BOOLEAN
                         /\ MaxDeletes \in Nat

VARIABLES
  owner,      \* the token in chat_sessions, None without a row
  table,      \* chat_messages of the session, in the order of ts
  kind,       \* request -> "ask", "ask_html" or "stream"
  token,      \* request -> the owner token it presents
  at,         \* request -> the await it is at
  gone,       \* streams whose client has left
  published,  \* requests whose reply went over the event bus
  cut,        \* history: requests the session was deleted under or after
  deletes,    \* deletes so far
  refused     \* those of them that answered 404

vars == <<owner, table, kind, token, at, gone, published, cut, deletes, refused>>

Kinds == {"ask", "ask_html", "stream"}

\* answered: the reply is complete and the client has it (200, or the reply
\* of the stream is stored).  failed: an error response, a lost reply.
Over == {"answered", "failed", "dropped"}
Places == {"idle", "verify", "load", "complete", "question", "reply", "publish",
           "streaming", "fallback"} \cup Over

Message == [req : Requests, role : {"user", "assistant"}]

TypeOK ==
  /\ owner \in Tokens \cup {None}
  /\ table \in Seq(Message)
  /\ \A i, j \in 1..Len(table) : table[i] = table[j] => i = j
  /\ kind \in [Requests -> Kinds]
  /\ token \in [Requests -> Tokens]
  /\ at \in [Requests -> Places]
  /\ gone \subseteq Requests
  /\ published \subseteq Requests
  /\ cut \subseteq Requests
  /\ deletes \in 0..MaxDeletes
  /\ refused \in 0..deletes

Init ==
  /\ owner \in Tokens \cup {None}
  /\ table = <<>>
  /\ kind \in [Requests -> Kinds]
  /\ token \in [Requests -> Tokens]
  /\ at = [r \in Requests |-> "idle"]
  /\ gone = {}
  /\ published = {}
  /\ cut = {}
  /\ deletes = 0
  /\ refused = 0

Go(r, place) == at' = [at EXCEPT ![r] = place]
ReadOnly == UNCHANGED <<owner, table, kind, token, gone, published, cut, deletes, refused>>

Begun == {r \in Requests : at[r] # "idle"}
UnderWay == {r \in Begun : at[r] \notin Over}

-----------------------------------------------------------------------------
(* ensure_session_owner() and load_context()                               *)

\* ensure_session(): INSERT OR IGNORE.
Ensure(r) ==
  /\ at[r] = "idle"
  /\ owner' = IF HasDb /\ owner = None THEN token[r] ELSE owner
  /\ Go(r, "verify")
  /\ UNCHANGED <<table, kind, token, gone, published, cut, deletes, refused>>

\* Mutant: any token will do for a session that exists.
VerifiedExists(r) == HasDb => owner # None

\* Without a database everyone is the owner.
Verified(r) == HasDb => owner = token[r]

Verify(r) ==
  /\ at[r] = "verify"
  /\ Verified(r)
  /\ Go(r, "load")
  /\ ReadOnly

VerifyFails(r) ==
  /\ at[r] = "verify"
  /\ ~Verified(r)
  /\ Go(r, "failed")
  /\ ReadOnly

\* The database fails ensure_session() or the lookup of the owner.
LookupFails(r) ==
  /\ HasDb
  /\ at[r] \in {"idle", "verify"}
  /\ Go(r, "failed")
  /\ ReadOnly

\* The history, a metric and some logs; what cannot be read is left out.
Load(r) ==
  /\ at[r] = "load"
  /\ Go(r, IF kind[r] = "stream" THEN "question" ELSE "complete")
  /\ ReadOnly

-----------------------------------------------------------------------------
(* Completion                                                              *)

\* Mutant: persist_messages() leaves the question out.
CompleteForgetsQuestion(r) ==
  /\ at[r] = "complete"
  /\ kind[r] # "stream"
  /\ Go(r, "reply")
  /\ ReadOnly

\* complete_with_fallback()
Complete(r) ==
  /\ at[r] = "complete"
  /\ kind[r] # "stream"
  /\ Go(r, "question")
  /\ ReadOnly

\* complete_stream_with_fallback().  Whether there is an LLM is found out anew
\* for every request: one may have been discovered since, or have gone.
CompleteStream(r) ==
  /\ at[r] = "complete"
  /\ kind[r] = "stream"
  /\ Go(r, "streaming") \/ Go(r, "fallback")
  /\ ReadOnly

\* The LLM refuses, breaks off or takes too long.
CompleteFails(r) ==
  /\ at[r] = "complete"
  /\ Go(r, "failed")
  /\ ReadOnly

\* Mutant: a stream nobody listens to is never finished.
StreamEndsForListener(r) ==
  /\ at[r] = "streaming"
  /\ r \notin gone
  /\ Go(r, "reply")
  /\ ReadOnly

\* stream_llm_reply(): the last token has come, or the channel to the client
\* is closed.  The client is sent "done" before the reply is stored.
StreamEnds(r) ==
  /\ at[r] = "streaming"
  /\ Go(r, "reply")
  /\ ReadOnly

\* The fallback's reply to a stream is published first.
PublishFallback(r) ==
  /\ at[r] = "fallback"
  /\ published' = published \cup {r}
  /\ Go(r, "reply")
  /\ UNCHANGED <<owner, table, kind, token, gone, cut, deletes, refused>>

-----------------------------------------------------------------------------
(* The messages are stored                                                 *)

\* store_message(): the foreign key wants a session row.
StoreMessage(r, role) ==
  /\ HasDb => owner # None
  /\ table' = IF HasDb THEN Append(table, [req |-> r, role |-> role]) ELSE table

AfterQuestion(r) == IF kind[r] = "stream" THEN "complete" ELSE "reply"

StoreQuestion(r) ==
  /\ at[r] = "question"
  /\ StoreMessage(r, "user")
  /\ Go(r, AfterQuestion(r))
  /\ UNCHANGED <<owner, kind, token, gone, published, cut, deletes, refused>>

\* ask_html is over here; ask and stream publish the reply, except a stream
\* the fallback answered.
AfterReply(r) == IF kind[r] = "ask_html" \/ r \in published THEN "answered" ELSE "publish"

\* Mutant: an error of store_message() is ignored.
StoreReplyOrNot(r) ==
  /\ at[r] = "reply"
  /\ StoreMessage(r, "assistant") \/ UNCHANGED table
  /\ Go(r, AfterReply(r))
  /\ UNCHANGED <<owner, kind, token, gone, published, cut, deletes, refused>>

StoreReply(r) ==
  /\ at[r] = "reply"
  /\ StoreMessage(r, "assistant")
  /\ Go(r, AfterReply(r))
  /\ UNCHANGED <<owner, kind, token, gone, published, cut, deletes, refused>>

\* The INSERT fails: of its own accord, or for want of the session row.
StoreFails(r) ==
  /\ HasDb
  /\ at[r] \in {"question", "reply"}
  /\ Go(r, "failed")
  /\ ReadOnly

Publish(r) ==
  /\ at[r] = "publish"
  /\ published' = published \cup {r}
  /\ Go(r, "answered")
  /\ UNCHANGED <<owner, table, kind, token, gone, cut, deletes, refused>>

-----------------------------------------------------------------------------
(* Clients that leave, deletes, crashes                                    *)

\* The task of stream_llm_reply() has taken the request over.  (The fallback's
\* reply to a stream is published already when it is stored.)
Detached(r) == /\ kind[r] = "stream"
               /\ at[r] \in {"streaming", "reply", "publish"}
               /\ r \notin published

Disconnect(r) ==
  /\ r \in UnderWay
  /\ ~Detached(r)
  /\ Go(r, "dropped")
  /\ ReadOnly

DisconnectStream(r) ==
  /\ r \in UnderWay \ gone
  /\ Detached(r)
  /\ gone' = gone \cup {r}
  /\ UNCHANGED <<owner, table, kind, token, at, published, cut, deletes, refused>>

\* create_session(), while the session does not exist.
Create ==
  /\ HasDb
  /\ owner = None
  /\ owner' \in Tokens
  /\ UNCHANGED <<table, kind, token, at, gone, published, cut, deletes, refused>>

\* delete_session(), one transaction: all messages of the session go, the
\* session goes if the token is its owner's, and the result says whether it
\* has gone.
Delete(t) ==
  /\ HasDb
  /\ deletes < MaxDeletes
  /\ deletes' = deletes + 1
  /\ table' = <<>>
  /\ owner' = IF owner = t THEN None ELSE owner
  /\ refused' = IF owner = t THEN refused ELSE refused + 1
  /\ cut' = cut \cup Begun
  /\ UNCHANGED <<kind, token, at, gone, published>>

\* The process dies with every request under way.
Crash ==
  /\ UnderWay # {}
  /\ at' = [r \in Requests |-> IF r \in UnderWay THEN "dropped" ELSE at[r]]
  /\ ReadOnly

Step(r) ==
  \/ Verify(r)
  \/ VerifyFails(r)
  \/ Load(r)
  \/ Complete(r)
  \/ CompleteStream(r)
  \/ CompleteFails(r)
  \/ StreamEnds(r)
  \/ PublishFallback(r)
  \/ StoreQuestion(r)
  \/ StoreReply(r)
  \/ StoreFails(r)
  \/ Publish(r)

Next ==
  \/ \E r \in Requests :
       Ensure(r) \/ LookupFails(r) \/ Step(r) \/ Disconnect(r) \/ DisconnectStream(r)
  \/ \E t \in Tokens : Delete(t)
  \/ Create
  \/ Crash

Spec == Init /\ [][Next]_vars

\* The store answers and the LLM answers or times out.
FairSpec == Spec /\ \A r \in Requests : WF_vars(Step(r))

-----------------------------------------------------------------------------
(* Properties                                                              *)

Stored(r, role) == \E i \in 1..Len(table) : table[i] = [req |-> r, role |-> role]

\* An answer 200 to an ask, and the reply of an ask on the event bus, mean that
\* the whole exchange is in the table, unless the session has been deleted.
AnsweredIsStored ==
  \A r \in Requests \ cut :
    at[r] = "answered" \/ (r \in published /\ kind[r] # "stream")
      => Stored(r, "user") /\ Stored(r, "assistant")

\* A reply in the table has its question before it.  Only a reply to a request
\* that the session was deleted under can stand alone, in a session created
\* anew.
RepliesFollowQuestions ==
  \A i \in 1..Len(table) :
    table[i].role = "assistant" /\ table[i].req \notin cut =>
      \E j \in 1..i - 1 : table[j] = [req |-> table[i].req, role |-> "user"]

\* The messages in the table come from requests with the owner's token.  Again
\* a delete lets through those it found between the check and the store.
MessagesAreTheOwners ==
  \A i \in 1..Len(table) :
    table[i].req \notin cut => token[table[i].req] = owner

\* Every request comes to an end.
EveryRequestEnds == \A r \in Requests : at[r] # "idle" ~> at[r] \in Over

\* ChatStore's doc: the owner token must be presented for every operation on
\* the session.  A delete that is refused leaves the messages alone.
RefusedDeleteKeepsMessages == [][refused' > refused => table' = table]_vars
=============================================================================
