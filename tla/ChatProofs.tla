----------------------------- MODULE ChatProofs -----------------------------
(* What is on record of a chat session, for any requests, tokens and number *)
(* of deletes: proofs about Chat.                                           *)
EXTENDS Chat, TLAPS

\* r has not come to storing its question, or its reply.
BeforeQuestion(r) ==
  at[r] \in {"idle", "verify", "load", "question"} \/ (at[r] = "complete" /\ kind[r] # "stream")
BeforeReply(r) == BeforeQuestion(r) \/ at[r] \in {"complete", "streaming", "fallback", "reply"}

\* r has stored its question and waits for the reply, or has stored both.
BetweenBoth(r) ==
  at[r] \in {"streaming", "fallback", "reply"} \/ (at[r] = "complete" /\ kind[r] = "stream")
AfterBoth(r) == at[r] \in {"publish", "answered"}

\* The token of r has been looked at and was the owner's.
Checked(r) == at[r] \notin {"idle", "verify", "failed", "dropped"}

\* No message is stored twice: what r is going to store is not in the table.
OnceInv ==
  /\ \A i, j \in 1..Len(table) : table[i] = table[j] => i = j
  /\ \A r \in Requests : BeforeQuestion(r) => ~Stored(r, "user")
  /\ \A r \in Requests : BeforeReply(r) => ~Stored(r, "assistant")

\* Only a stream is where streams are, and only a stream is published before its end.
KindInv ==
  \A r \in Requests :
    /\ at[r] \in {"streaming", "fallback"} => kind[r] = "stream"
    /\ r \in published /\ kind[r] # "stream" => at[r] = "answered"

\* What r has stored is in the table until the session is deleted.
StoredInv ==
  HasDb => \A r \in Requests \ cut :
    /\ BetweenBoth(r) => Stored(r, "user")
    /\ AfterBoth(r) => Stored(r, "user") /\ Stored(r, "assistant")

\* Once its token has been checked, r is the owner's until the session is deleted.
\* Without a database there are no messages.
OwnerInv ==
  /\ HasDb => \A r \in Requests \ cut : Checked(r) => owner = token[r]
  /\ ~HasDb => table = <<>>

\* The inductive invariant.
IInv ==
  /\ TypeOK
  /\ OnceInv
  /\ KindInv
  /\ StoredInv
  /\ OwnerInv
  /\ RepliesFollowQuestions
  /\ MessagesAreTheOwners

-----------------------------------------------------------------------------

\* At the start the table is empty and every request is idle.
LEMMA InvInit == Init => IInv
<1> SUFFICES ASSUME Init PROVE IInv
  OBVIOUS
<1> USE ChatAssumption DEF Init
<1>1. TypeOK
  BY DEF TypeOK, Kinds, Places, Message
<1>2. OnceInv /\ KindInv
  BY DEF OnceInv, KindInv, Stored
<1>3. StoredInv /\ OwnerInv
  BY DEF StoredInv, OwnerInv, BetweenBoth, AfterBoth, Checked
<1>4. RepliesFollowQuestions /\ MessagesAreTheOwners
  BY DEF RepliesFollowQuestions, MessagesAreTheOwners
<1> QED BY <1>1, <1>2, <1>3, <1>4 DEF IInv

\* A step that moves requests and touches nothing else, each to a place that asks for
\* nothing which the place it comes from did not ask for.
Moves ==
  /\ ReadOnly
  /\ at' \in [Requests -> Places]
  /\ \A q \in Requests :
       /\ BeforeQuestion(q)' => BeforeQuestion(q)
       /\ BeforeReply(q)' => BeforeReply(q)
       /\ BetweenBoth(q)' => BetweenBoth(q)
       /\ AfterBoth(q)' => AfterBoth(q)
       /\ Checked(q)' => Checked(q) \/ (HasDb => owner = token[q])
       /\ at'[q] \in {"streaming", "fallback"} => kind[q] = "stream"
       /\ at[q] = "answered" => at'[q] = "answered"

\* Such a step keeps the invariant.
LEMMA MoveInv == IInv /\ Moves => IInv'
<1> SUFFICES ASSUME IInv, Moves PROVE IInv'
  OBVIOUS
<1> USE DEF ReadOnly, Moves
<1>1. TypeOK'
  BY DEF IInv, TypeOK
<1>2. OnceInv'
  BY DEF IInv, OnceInv, Stored
<1>3. KindInv'
  BY DEF IInv, KindInv
<1>4. StoredInv'
  BY DEF IInv, StoredInv, Stored
<1>5. OwnerInv'
  BY DEF IInv, OwnerInv
<1>6. RepliesFollowQuestions' /\ MessagesAreTheOwners'
  BY DEF IInv, RepliesFollowQuestions, MessagesAreTheOwners
<1> QED BY <1>1, <1>2, <1>3, <1>4, <1>5, <1>6 DEF IInv

\* Where a request may go that touches nothing else on its way.
Way(r, place) ==
  \/ place \in {"failed", "dropped"} /\ at[r] \notin Over
  \/ at[r] = "verify" /\ place = "load" /\ Verified(r)
  \/ at[r] = "load" /\ place = IF kind[r] = "stream" THEN "question" ELSE "complete"
  \/ at[r] = "complete" /\ kind[r] # "stream" /\ place = "question"
  \/ at[r] = "complete" /\ kind[r] = "stream" /\ place \in {"streaming", "fallback"}
  \/ at[r] = "streaming" /\ kind[r] = "stream" /\ place = "reply"

\* Going there asks for nothing new.
LEMMA WayMoves ==
  ASSUME IInv, NEW r \in Requests, NEW place, Way(r, place), Go(r, place), ReadOnly
  PROVE  Moves
<1>1. /\ place \in Places
      /\ at \in [Requests -> Places]
      /\ kind' = kind
  BY DEF Way, Places, Over, IInv, TypeOK, ReadOnly
<1>2. at' \in [Requests -> Places] /\ at'[r] = place /\ \A q \in Requests \ {r} : at'[q] = at[q]
  BY <1>1 DEF Go
<1>3. ASSUME NEW q \in Requests, q # r
      PROVE  /\ BeforeQuestion(q)' => BeforeQuestion(q)
             /\ BeforeReply(q)' => BeforeReply(q)
             /\ BetweenBoth(q)' => BetweenBoth(q)
             /\ AfterBoth(q)' => AfterBoth(q)
             /\ Checked(q)' => Checked(q)
             /\ at'[q] \in {"streaming", "fallback"} => kind[q] = "stream"
             /\ at[q] = "answered" => at'[q] = "answered"
  BY <1>1, <1>2, <1>3
     DEF BeforeQuestion, BeforeReply, BetweenBoth, AfterBoth, Checked, IInv, KindInv
<1>4. at[r] # "answered"
  BY DEF Way, Over
<1>5. /\ BeforeQuestion(r)' => BeforeQuestion(r)
      /\ BeforeReply(r)' => BeforeReply(r)
  BY <1>1, <1>2 DEF Way, BeforeQuestion, BeforeReply
<1>6. /\ BetweenBoth(r)' => BetweenBoth(r)
      /\ AfterBoth(r)' => AfterBoth(r)
      /\ at'[r] \in {"streaming", "fallback"} => kind[r] = "stream"
  BY <1>1, <1>2 DEF Way, BetweenBoth, AfterBoth
<1>7. Checked(r)' => Checked(r) \/ (HasDb => owner = token[r])
  BY <1>1, <1>2 DEF Way, Checked, Verified
<1> QED BY <1>2, <1>3, <1>4, <1>5, <1>6, <1>7 DEF Moves

\* The steps of a request that only move it.
LEMMA StepMoves ==
  ASSUME IInv, NEW r \in Requests,
         \/ LookupFails(r) \/ Verify(r) \/ VerifyFails(r) \/ Load(r)
         \/ Complete(r) \/ CompleteStream(r) \/ CompleteFails(r) \/ StreamEnds(r) \/ StoreFails(r) \/ Disconnect(r)
  PROVE  Moves
<1>1. ReadOnly
  BY DEF LookupFails, Verify, VerifyFails, Load, Complete, CompleteStream, CompleteFails,
         StreamEnds, StoreFails, Disconnect
<1>2. \E place : Way(r, place) /\ Go(r, place)
  <2> USE DEF Way, Over
  <2>1. CASE LookupFails(r) \/ VerifyFails(r) \/ CompleteFails(r) \/ StoreFails(r) \/ Disconnect(r)
    BY <2>1 DEF LookupFails, VerifyFails, CompleteFails, StoreFails, Disconnect, UnderWay
  <2>2. CASE Verify(r) \/ Load(r)
    BY <2>2 DEF Verify, Load
  <2>3. CASE Complete(r) \/ CompleteStream(r)
    BY <2>3 DEF Complete, CompleteStream
  <2>4. CASE StreamEnds(r)
    BY <2>4 DEF StreamEnds, IInv, KindInv
  <2> QED BY <2>1, <2>2, <2>3, <2>4
<1> QED BY <1>1, <1>2, WayMoves

\* The process dies: whatever was under way asks for nothing any more.
LEMMA CrashMoves == IInv /\ Crash => Moves
BY DEF IInv, TypeOK, Moves, ReadOnly, Crash, UnderWay, Begun, Places, Over,
       BeforeQuestion, BeforeReply, BetweenBoth, AfterBoth, Checked

\* The session's row is made: by the request that finds none, which has not asked
\* yet who the owner is, or by itself.  As long as there was none, every request that
\* had been checked and every message was of before a delete.
LEMMA EnsureInv ==
  ASSUME IInv, Create \/ \E r \in Requests : Ensure(r)
  PROVE  IInv'
<1> USE ChatAssumption
<1>1. UNCHANGED <<table, kind, token, published, cut, deletes, refused, gone>>
  BY DEF Create, Ensure
<1>2. /\ owner' \in Tokens \cup {None}
      /\ owner' = owner \/ (HasDb /\ owner = None)
  BY DEF IInv, TypeOK, Create, Ensure
<1>3. at' = at \/ \E r \in Requests : at[r] = "idle" /\ at' = [at EXCEPT ![r] = "verify"]
  BY DEF Create, Ensure, Go
<1>4. TypeOK'
  BY <1>1, <1>2, <1>3 DEF IInv, TypeOK, Places, Over
<1>5. OnceInv' /\ KindInv' /\ StoredInv'
  BY <1>1, <1>3 DEF IInv, TypeOK, OnceInv, KindInv, StoredInv, Stored, BeforeQuestion, BeforeReply,
                    BetweenBoth, AfterBoth
<1>6. OwnerInv'
  <2>1. \A r \in Requests : Checked(r)' => Checked(r)
    BY <1>3 DEF IInv, TypeOK, Checked
  <2>2. HasDb /\ owner = None => \A r \in Requests \ cut : ~Checked(r)
    BY DEF IInv, OwnerInv, TypeOK
  <2> QED BY <1>1, <1>2, <2>1, <2>2 DEF IInv, OwnerInv
<1>7. RepliesFollowQuestions'
  BY <1>1 DEF IInv, RepliesFollowQuestions
<1>8. MessagesAreTheOwners'
  <2>1. ASSUME owner = None, NEW i \in 1..Len(table) PROVE table[i].req \in cut
    <3>1. table \in Seq(Message)
      BY DEF IInv, TypeOK
    <3>2. table[i] \in Message
      BY <3>1
    <3>3. token[table[i].req] # None
      BY <3>2 DEF IInv, TypeOK, Message
    <3> QED BY <2>1, <3>3 DEF IInv, MessagesAreTheOwners
  <2> QED BY <1>1, <1>2, <2>1 DEF IInv, MessagesAreTheOwners
<1> QED BY <1>4, <1>5, <1>6, <1>7, <1>8 DEF IInv

\* A delete empties the table, and nothing more is said of what it found.
LEMMA DeleteInv == ASSUME IInv, NEW t \in Tokens, Delete(t) PROVE IInv'
<1> USE DEF Delete
<1>1. TypeOK'
  BY ChatAssumption DEF IInv, TypeOK, Begun, Message
<1>2. OnceInv' /\ KindInv' /\ RepliesFollowQuestions' /\ MessagesAreTheOwners'
  BY DEF IInv, OnceInv, KindInv, RepliesFollowQuestions, MessagesAreTheOwners, Stored
<1>3. StoredInv' /\ OwnerInv'
  BY DEF StoredInv, OwnerInv, Begun, BetweenBoth, AfterBoth, Checked
<1> QED BY <1>1, <1>2, <1>3 DEF IInv

\* What an INSERT does to the table: the message comes last, or there is no database.
LEMMA StoreMessageTable ==
  ASSUME IInv, NEW r \in Requests, NEW role \in {"user", "assistant"}, StoreMessage(r, role),
         ~Stored(r, role)
  PROVE  /\ table' \in Seq(Message)
         /\ \A i, j \in 1..Len(table') : table'[i] = table'[j] => i = j
         /\ \A i \in 1..Len(table) : i \in 1..Len(table') /\ table'[i] = table[i]
         /\ HasDb => /\ Len(table') = Len(table) + 1
                     /\ table'[Len(table')] = [req |-> r, role |-> role]
         /\ ~HasDb => table' = table
         /\ \A x \in Requests, y \in {"user", "assistant"} :
              Stored(x, y)' <=> Stored(x, y) \/ (HasDb /\ x = r /\ y = role)
<1> DEFINE m == [req |-> r, role |-> role]
<1>1. table \in Seq(Message) /\ m \in Message
  BY DEF IInv, TypeOK, Message
<1>2. CASE ~HasDb
  BY <1>1, <1>2 DEF StoreMessage, Stored, IInv, OnceInv
<1>3. CASE HasDb
  <2>1. table' = Append(table, m)
    BY <1>3 DEF StoreMessage
  <2>2. /\ Len(table') = Len(table) + 1
        /\ \A i \in 1..Len(table) : table'[i] = table[i]
        /\ table'[Len(table) + 1] = m
        /\ table' \in Seq(Message)
        /\ Len(table) \in Nat
    BY <1>1, <2>1
  <2>3. \A i \in 1..Len(table) : table[i] # m
    BY DEF Stored
  <2>4. \A i, j \in 1..Len(table') : table'[i] = table'[j] => i = j
    BY <2>2, <2>3 DEF IInv, OnceInv
  <2>5. ASSUME NEW x \in Requests, NEW y \in {"user", "assistant"}
        PROVE  Stored(x, y)' <=> Stored(x, y) \/ (x = r /\ y = role)
    <3>1. Stored(x, y)' <=> \E i \in 1..Len(table) + 1 : table'[i] = [req |-> x, role |-> y]
      BY <2>2 DEF Stored
    <3> QED BY <2>2, <3>1 DEF Stored
  <2> QED BY <1>3, <2>2, <2>4, <2>5
<1> QED BY <1>2, <1>3

\* The question is stored.
LEMMA StoreQuestionInv ==
  ASSUME IInv, NEW r \in Requests, StoreQuestion(r)
  PROVE  IInv'
<1> USE DEF StoreQuestion
<1>1. /\ at[r] = "question" /\ at' = [at EXCEPT ![r] = AfterQuestion(r)]
      /\ UNCHANGED <<owner, kind, token, gone, published, cut, deletes, refused>>
      /\ AfterQuestion(r) = IF kind[r] = "stream" THEN "complete" ELSE "reply"
  BY DEF Go, AfterQuestion
<1>2. ~Stored(r, "user") /\ ~Stored(r, "assistant")
  BY DEF IInv, OnceInv, BeforeQuestion, BeforeReply
<1>3. /\ table' \in Seq(Message)
      /\ \A i, j \in 1..Len(table') : table'[i] = table'[j] => i = j
      /\ \A i \in 1..Len(table) : i \in 1..Len(table') /\ table'[i] = table[i]
      /\ HasDb => /\ Len(table') = Len(table) + 1
                  /\ table'[Len(table')] = [req |-> r, role |-> "user"]
      /\ ~HasDb => table' = table
      /\ \A x \in Requests, y \in {"user", "assistant"} :
           Stored(x, y)' <=> Stored(x, y) \/ (HasDb /\ x = r /\ y = "user")
  BY <1>2, StoreMessageTable
<1>4. TypeOK'
  BY <1>1, <1>3 DEF IInv, TypeOK, Places, Over
<1>5. OnceInv'
  BY <1>1, <1>2, <1>3 DEF IInv, TypeOK, OnceInv, BeforeQuestion, BeforeReply
<1>6. KindInv'
  BY <1>1 DEF IInv, TypeOK, KindInv
<1>7. StoredInv'
  BY <1>1, <1>3 DEF IInv, TypeOK, StoredInv, BetweenBoth, AfterBoth
<1>8. OwnerInv'
  BY <1>1, <1>3 DEF IInv, TypeOK, OwnerInv, Checked
<1>9. RepliesFollowQuestions' /\ MessagesAreTheOwners'
  <2>1. CASE ~HasDb
    BY <1>1, <1>3, <2>1 DEF IInv, RepliesFollowQuestions, MessagesAreTheOwners
  <2>2. CASE HasDb
    <3>1. r \notin cut => token[r] = owner
      BY <1>1, <2>2 DEF IInv, OwnerInv, Checked
    <3>2. \A i \in 1..Len(table') : i \in 1..Len(table) \/ i = Len(table')
      BY <1>3, <2>2 DEF IInv, TypeOK
    <3>3. RepliesFollowQuestions'
      <4> SUFFICES ASSUME NEW i \in 1..Len(table'), table'[i].role = "assistant",
                          table'[i].req \notin cut
                   PROVE  \E j \in 1..i - 1 : table'[j] = [req |-> table'[i].req, role |-> "user"]
        BY <1>1 DEF RepliesFollowQuestions
      <4>1. i \in 1..Len(table) /\ table'[i] = table[i]
        BY <1>3, <2>2, <3>2
      <4>2. PICK j \in 1..i - 1 : table[j] = [req |-> table[i].req, role |-> "user"]
        BY <4>1 DEF IInv, RepliesFollowQuestions
      <4>3. j \in 1..Len(table)
        BY <4>1, <4>2 DEF IInv, TypeOK
      <4> QED BY <1>3, <4>1, <4>2, <4>3
    <3>4. MessagesAreTheOwners'
      BY <1>1, <1>3, <2>2, <3>1, <3>2 DEF IInv, MessagesAreTheOwners
    <3> QED BY <3>3, <3>4
  <2> QED BY <2>1, <2>2
<1> QED BY <1>4, <1>5, <1>6, <1>7, <1>8, <1>9 DEF IInv

\* The reply is stored behind its question.
LEMMA StoreReplyInv ==
  ASSUME IInv, NEW r \in Requests, StoreReply(r)
  PROVE  IInv'
<1> USE DEF StoreReply
<1>1. /\ at[r] = "reply" /\ at' = [at EXCEPT ![r] = AfterReply(r)]
      /\ UNCHANGED <<owner, kind, token, gone, published, cut, deletes, refused>>
      /\ AfterReply(r) \in {"answered", "publish"}
  BY DEF Go, AfterReply
<1>2. ~Stored(r, "assistant")
  BY <1>1 DEF IInv, OnceInv, BeforeReply
<1>3. /\ table' \in Seq(Message)
      /\ \A i, j \in 1..Len(table') : table'[i] = table'[j] => i = j
      /\ \A i \in 1..Len(table) : i \in 1..Len(table') /\ table'[i] = table[i]
      /\ HasDb => /\ Len(table') = Len(table) + 1
                  /\ table'[Len(table')] = [req |-> r, role |-> "assistant"]
      /\ ~HasDb => table' = table
      /\ \A x \in Requests, y \in {"user", "assistant"} :
           Stored(x, y)' <=> Stored(x, y) \/ (HasDb /\ x = r /\ y = "assistant")
  BY <1>2, StoreMessageTable
<1>4. HasDb /\ r \notin cut => Stored(r, "user") /\ token[r] = owner
  BY <1>1 DEF IInv, StoredInv, BetweenBoth, OwnerInv, Checked
<1>5. TypeOK'
  BY <1>1, <1>3 DEF IInv, TypeOK, Places, Over
<1>6. OnceInv'
  BY <1>1, <1>3 DEF IInv, TypeOK, OnceInv, BeforeQuestion, BeforeReply
<1>7. KindInv'
  BY <1>1 DEF IInv, TypeOK, KindInv
<1>8. StoredInv'
  BY <1>1, <1>3, <1>4 DEF IInv, TypeOK, StoredInv, BetweenBoth, AfterBoth
<1>9. OwnerInv'
  BY <1>1, <1>3 DEF IInv, TypeOK, OwnerInv, Checked
<1>10. RepliesFollowQuestions' /\ MessagesAreTheOwners'
  <2>1. CASE ~HasDb
    BY <1>1, <1>3, <2>1 DEF IInv, RepliesFollowQuestions, MessagesAreTheOwners
  <2>2. CASE HasDb
    <3>1. \A i \in 1..Len(table') : i \in 1..Len(table) \/ i = Len(table) + 1
      BY <1>3, <2>2 DEF IInv, TypeOK
    <3>2. RepliesFollowQuestions'
      <4> SUFFICES ASSUME NEW i \in 1..Len(table'), table'[i].role = "assistant",
                          table'[i].req \notin cut
                   PROVE  \E j \in 1..i - 1 : table'[j] = [req |-> table'[i].req, role |-> "user"]
        BY <1>1 DEF RepliesFollowQuestions
      <4>1. CASE i \in 1..Len(table)
        <5>1. PICK j \in 1..i - 1 : table[j] = [req |-> table[i].req, role |-> "user"]
          BY <1>3, <4>1 DEF IInv, RepliesFollowQuestions
        <5>2. j \in 1..Len(table)
          BY <4>1, <5>1 DEF IInv, TypeOK
        <5> QED BY <1>3, <4>1, <5>1, <5>2
      <4>2. CASE i = Len(table) + 1
        <5>1. table'[i].req = r
          BY <1>3, <2>2, <4>2
        <5>2. PICK j \in 1..Len(table) : table[j] = [req |-> r, role |-> "user"]
          BY <1>4, <2>2, <5>1 DEF Stored
        <5>3. j \in 1..i - 1
          BY <4>2, <5>2 DEF IInv, TypeOK
        <5> QED BY <1>3, <5>1, <5>2, <5>3
      <4> QED BY <3>1, <4>1, <4>2
    <3>3. MessagesAreTheOwners'
      BY <1>1, <1>3, <1>4, <2>2, <3>1 DEF IInv, MessagesAreTheOwners
    <3> QED BY <3>2, <3>3
  <2> QED BY <2>1, <2>2
<1> QED BY <1>5, <1>6, <1>7, <1>8, <1>9, <1>10 DEF IInv

\* A reply is published, or a client leaves the task that gathers its reply.
LEMMA PublishInv ==
  ASSUME IInv, NEW r \in Requests, Publish(r) \/ PublishFallback(r) \/ DisconnectStream(r)
  PROVE  IInv'
<1> USE DEF Publish, PublishFallback, DisconnectStream, Go
<1>1. UNCHANGED <<owner, table, kind, token, cut, deletes, refused>>
  OBVIOUS
<1>2. TypeOK'
  BY DEF IInv, TypeOK, Places, Over
<1>3. OnceInv'
  BY <1>1 DEF IInv, TypeOK, OnceInv, BeforeQuestion, BeforeReply, Stored
<1>4. KindInv'
  BY DEF IInv, TypeOK, KindInv
<1>5. StoredInv'
  BY <1>1 DEF IInv, TypeOK, StoredInv, BetweenBoth, AfterBoth, Stored
<1>6. OwnerInv'
  BY <1>1 DEF IInv, TypeOK, OwnerInv, Checked
<1>7. RepliesFollowQuestions' /\ MessagesAreTheOwners'
  BY <1>1 DEF IInv, RepliesFollowQuestions, MessagesAreTheOwners
<1> QED BY <1>2, <1>3, <1>4, <1>5, <1>6, <1>7 DEF IInv

\* IInv holds in every reachable state.
THEOREM Inductive == Spec => []IInv
<1>1. IInv /\ [Next]_vars => IInv'
  <2> SUFFICES ASSUME IInv, [Next]_vars PROVE IInv'
    OBVIOUS
  <2>1. ASSUME NEW r \in Requests,
               LookupFails(r) \/ Step(r) \/ Disconnect(r) \/ DisconnectStream(r)
        PROVE  IInv'
    BY <2>1, StepMoves, MoveInv, StoreQuestionInv, StoreReplyInv, PublishInv DEF Step
  <2>2. CASE Create \/ \E r \in Requests : Ensure(r)
    BY <2>2, EnsureInv
  <2>3. CASE Crash
    BY <2>3, CrashMoves, MoveInv
  <2>4. ASSUME NEW t \in Tokens, Delete(t) PROVE IInv'
    BY <2>4, DeleteInv
  <2>5. CASE UNCHANGED vars
    BY <2>5 DEF vars, IInv, TypeOK, OnceInv, KindInv, StoredInv, OwnerInv, RepliesFollowQuestions,
                MessagesAreTheOwners, Stored, BeforeQuestion, BeforeReply, BetweenBoth, AfterBoth,
                Checked
  <2> QED BY <2>1, <2>2, <2>3, <2>4, <2>5 DEF Next
<1> QED BY InvInit, <1>1, PTL DEF Spec

-----------------------------------------------------------------------------
(* The claims                                                              *)

\* The state is of its type: among other things, no message is stored twice.
THEOREM TypeCorrect == Spec => []TypeOK
<1>1. IInv => TypeOK
  BY DEF IInv
<1> QED BY Inductive, <1>1, PTL

\* With a database, an answer 200 and an ask's reply on the bus mean that the whole
\* exchange is on record, whatever requests, crashes and refused inserts there were.
THEOREM AnswersAreOnRecord == HasDb => (Spec => []AnsweredIsStored)
<1> SUFFICES ASSUME HasDb PROVE Spec => []AnsweredIsStored
  OBVIOUS
<1>1. IInv => AnsweredIsStored
  BY DEF IInv, KindInv, StoredInv, AfterBoth, AnsweredIsStored
<1> QED BY Inductive, <1>1, PTL

\* Each reply in the table has its question before it.
THEOREM RepliesAreToQuestions == Spec => []RepliesFollowQuestions
<1>1. IInv => RepliesFollowQuestions
  BY DEF IInv
<1> QED BY Inductive, <1>1, PTL

\* Whose token was checked before minutes of waiting still is the owner when the
\* messages are stored, unless the session was deleted meanwhile.
THEOREM OnlyOwnersWrite == Spec => []MessagesAreTheOwners
<1>1. IInv => MessagesAreTheOwners
  BY DEF IInv
<1> QED BY Inductive, <1>1, PTL
=============================================================================
