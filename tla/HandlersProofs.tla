--------------------------- MODULE HandlersProofs ---------------------------
(* What the pages and the handlers give a user, for any number of tabs,     *)
(* requests, alerts, rows and messages: proofs about ChatPages,             *)
(* DashboardApi, AlertToasts, LogExplanations, Conversation and             *)
(* FallbackAnswers.                                                         *)
EXTENDS ChatPages, DashboardApi, AlertToasts, LogExplanations, Conversation,
        FallbackAnswers, FiniteSetTheorems, TLAPS

-----------------------------------------------------------------------------
(* ChatPages: the sessions                                                 *)

\* A session that was never deleted is there, and belongs to the token it was made with;
\* without a database none is.
SessionsInv ==
  IF hasDatabase THEN \A i \in 1..made \ removed : i \in DOMAIN owners /\ owners[i] = i
                 ELSE DOMAIN owners = {}

\* A page shows a session that was made, and with a database it has its token or the
\* session was deleted since; the cookie is the token of a session that was made.
Agree(id, token) == token # Blank /\ (id = token \/ id \in removed)

ShownInv ==
  /\ cookie <= made
  /\ \A t \in Tabs : page[t] # NoPage =>
       /\ page[t].id \in 1..made /\ page[t].token <= made
       /\ hasDatabase => Agree(page[t].id, page[t].token)

\* What is known of a request under way.
LoadOK(x) ==
  /\ x.token <= made
  /\ x.at \in {"verify", "read"} => x.id \in 1..made
  /\ x.at = "verify" => x.link
  /\ x.at = "read" /\ hasDatabase => x.new \/ Agree(x.id, x.token)
  /\ x.new => x.at = "read"
  /\ x.due \subseteq {x.token} \cup removed
  /\ hasDatabase /\ x.token # Blank => x.token \in x.due \cup removed
  /\ ~hasDatabase => x.due = {}
  /\ x.at = "create" /\ ~x.link /\ ~x.failed => x.due \subseteq removed
  /\ x.at = "read" /\ ~x.link /\ ~x.failed =>
       x.due \subseteq removed \/ (~x.new /\ x.id \in x.due \cup removed)

LoadsInv == \A t \in Tabs : load[t] # NoLoad => LoadOK(load[t])

\* The inductive invariant.  PagesCarryTheirOwner says nothing of the answers on their
\* way, nor of the sessions that no page shows.
ChatPagesInv == ChatPagesTypeOK /\ SessionsInv /\ ShownInv /\ LoadsInv

\* The sessions of a token are the one that was made with it, unless that was deleted,
\* and some that were deleted and made again.
LEMMA SessionsOfToken ==
  ASSUME ChatPagesInv, NEW token \in 0..made
  PROVE  /\ SessionsOf(token) \subseteq DOMAIN owners /\ SessionsOf(token) \subseteq 1..made
         /\ SessionsOf(token) \subseteq {token} \cup removed
         /\ hasDatabase /\ token # Blank => token \in SessionsOf(token) \cup removed
         /\ ~hasDatabase => SessionsOf(token) = {}
<1>1. made \in Nat /\ DOMAIN owners \subseteq 1..made
  BY ChatPagesAssumption DEF ChatPagesInv, ChatPagesTypeOK
<1>2. token # Blank => token \in 1..made
  BY <1>1 DEF Blank
<1> QED BY <1>1, <1>2 DEF ChatPagesInv, SessionsInv, SessionsOf

\* A request that begins is of its type and known of.
LEMMA BeginLoad ==
  ASSUME ChatPagesInv, NEW t \in Tabs, NEW sort \in {"page", "partial", "delete"},
         NEW id \in 0..made, NEW token \in 0..made, Begin(t, sort, id, token)
  PROVE  /\ load' \in [Tabs -> Loads]
         /\ LoadOK(load'[t])
         /\ \A u \in Tabs \ {t} : load'[u] = load[u]
<1> DEFINE x == [at |-> IF id = Blank THEN "lookup" ELSE "verify", kind |-> sort,
                 link |-> id # Blank, id |-> id, token |-> token, new |-> FALSE,
                 failed |-> FALSE, due |-> SessionsOf(token)]
<1>1. load' = [load EXCEPT ![t] = x]
  BY DEF Begin
<1>2. /\ SessionsOf(token) \subseteq DOMAIN owners
      /\ SessionsOf(token) \subseteq {token} \cup removed
      /\ hasDatabase /\ token # Blank => token \in SessionsOf(token) \cup removed
      /\ ~hasDatabase => SessionsOf(token) = {}
  BY SessionsOfToken
<1>3. made \in Nat /\ made <= MaxSessions /\ DOMAIN owners \subseteq 1..made
  BY ChatPagesAssumption DEF ChatPagesInv, ChatPagesTypeOK, Ids
<1>4. SessionsOf(token) \subseteq Ids
  BY <1>2, <1>3, ChatPagesAssumption DEF Ids
<1>5. x \in Loads
  BY <1>3, <1>4, ChatPagesAssumption DEF Loads, Ids, Blank
<1>6. LoadOK(x)
  <2>1. CASE id = Blank
    BY <1>2, <1>3, <2>1 DEF LoadOK, Blank
  <2>2. CASE id # Blank
    <3>1. x = [at |-> "verify", kind |-> sort, link |-> TRUE, id |-> id, token |-> token,
               new |-> FALSE, failed |-> FALSE, due |-> SessionsOf(token)]
      BY <2>2
    <3> HIDE DEF x
    <3> QED BY <1>2, <1>3, <2>2, <3>1 DEF LoadOK, Blank
  <2> QED BY <2>1, <2>2
<1> HIDE DEF x
<1>7. load \in [Tabs -> Loads]
  BY DEF ChatPagesInv, ChatPagesTypeOK
<1> QED BY <1>1, <1>5, <1>6, <1>7

-----------------------------------------------------------------------------
(* ChatPages: the steps                                                    *)

\* The first page.
LEMMA PagesInit == ChatPagesInit => ChatPagesInv
<1> SUFFICES ASSUME ChatPagesInit PROVE ChatPagesInv
  OBVIOUS
<1> USE ChatPagesAssumption DEF ChatPagesInit
<1>1. DOMAIN owners \subseteq {1} /\ \A i \in DOMAIN owners : owners[i] = i
  OBVIOUS
<1>2. ChatPagesTypeOK
  <2>1. DOMAIN owners \subseteq 1..made /\ \A i \in DOMAIN owners : owners[i] \in 1..made
    BY <1>1
  <2>2. page \in [Tabs -> [id : Ids \cup {Blank}, token : Ids \cup {Blank}]]
    BY DEF NoPage
  <2>3. load \in [Tabs -> Loads]
    BY DEF Loads
  <2>4. made \in 1..MaxSessions /\ removed \subseteq 1..made /\ failures \in 0..MaxFailures
    OBVIOUS
  <2> QED BY <2>1, <2>2, <2>3, <2>4 DEF ChatPagesTypeOK
<1>3. SessionsInv
  BY <1>1 DEF SessionsInv
<1>4. ShownInv /\ LoadsInv
  BY DEF ShownInv, LoadsInv, NoCookie
<1> QED BY <1>2, <1>3, <1>4 DEF ChatPagesInv

\* What is known of a request stays so while sessions are made, made again and deleted.
LEMMA LoadStays ==
  ASSUME ChatPagesInv, NEW t \in Tabs, load[t] # NoLoad, load'[t] = load[t],
         made' \in {made, made + 1}, hasDatabase' = hasDatabase,
         removed \subseteq removed'
  PROVE  LoadOK(load[t])'
<1>1. LoadOK(load[t])
  BY DEF ChatPagesInv, LoadsInv
<1>2. made \in Nat /\ load[t] \in Loads
  BY ChatPagesAssumption DEF ChatPagesInv, ChatPagesTypeOK
<1>3. load[t].token \in Int /\ load[t].id \in Int
  BY <1>2, ChatPagesAssumption DEF Loads, Ids, Blank, NoLoad
<1> QED BY <1>1, <1>2, <1>3 DEF LoadOK, Agree

\* The cookie of the login comes and goes.
LEMMA LoginStep == ChatPagesInv /\ (Login \/ Logout) => ChatPagesInv'
<1> SUFFICES ASSUME ChatPagesInv, Login \/ Logout PROVE ChatPagesInv'
  OBVIOUS
<1>1. /\ UNCHANGED <<hasDatabase, locked, owners, made, cookie, page, load, removed, failures>>
      /\ admitted' \in BOOLEAN
  BY DEF Login, Logout
<1>2. ChatPagesTypeOK'
  BY <1>1 DEF ChatPagesInv, ChatPagesTypeOK
<1>3. SessionsInv' /\ ShownInv'
  BY <1>1 DEF ChatPagesInv, SessionsInv, ShownInv, Agree
<1>4. LoadsInv'
  BY <1>1 DEF ChatPagesInv, LoadsInv, LoadOK, Agree
<1> QED BY <1>2, <1>3, <1>4 DEF ChatPagesInv

\* A request begins: nothing but it changes, and sessions may be deleted.
LEMMA BeginInv ==
  ASSUME ChatPagesInv, NEW t \in Tabs, NEW sort \in {"page", "partial", "delete"},
         NEW id \in 0..made, NEW token \in 0..made, Begin(t, sort, id, token),
         load[t] = NoLoad,
         UNCHANGED <<hasDatabase, locked, admitted, owners, made, cookie, page, removed, failures>>
  PROVE  ChatPagesInv'
<1>1. /\ load' \in [Tabs -> Loads]
      /\ LoadOK(load'[t])
      /\ \A u \in Tabs \ {t} : load'[u] = load[u]
  BY BeginLoad
<1>2. ChatPagesTypeOK'
  BY <1>1 DEF ChatPagesInv, ChatPagesTypeOK, Ids, Blank, NoCookie
<1>3. SessionsInv' /\ ShownInv'
  BY DEF ChatPagesInv, SessionsInv, ShownInv, NoPage, Agree
<1>4. LoadsInv'
  BY <1>1 DEF ChatPagesInv, LoadsInv, LoadOK, Agree
<1> QED BY <1>2, <1>3, <1>4 DEF ChatPagesInv

\* A page is opened, or asks for its messages.
LEMMA OpenStep ==
  ASSUME ChatPagesInv, NEW t \in Tabs, OpenChat(t) \/ LoadMessages(t)
  PROVE  ChatPagesInv'
<1>1. made \in Nat \ {0} /\ CookieToken \in 0..made
  BY ChatPagesAssumption
     DEF ChatPagesInv, ChatPagesTypeOK, ShownInv, CookieToken, NoCookie, Blank, Ids
<1>2. CASE OpenChat(t)
  BY <1>1, <1>2, BeginInv DEF OpenChat, Blank
<1>3. CASE LoadMessages(t)
  <2>1. page[t].id \in Ids \cup {Blank} /\ page[t].token \in Ids \cup {Blank}
    BY DEF ChatPagesInv, ChatPagesTypeOK
  <2>2. page[t].id \in 1..made /\ page[t].token <= made
    BY <1>3 DEF LoadMessages, ChatPagesInv, ShownInv
  <2>3. page[t].id \in 0..made /\ page[t].token \in 0..made
    BY <1>1, <2>1, <2>2, ChatPagesAssumption DEF Ids, Blank
  <2> QED BY <1>3, <2>3, BeginInv DEF LoadMessages
<1> QED BY <1>2, <1>3

\* A call of the store that fails is counted.
LEMMA FailureCounted ==
  ASSUME ChatPagesInv, CallFails PROVE failures' \in 0..MaxFailures
BY ChatPagesAssumption DEF ChatPagesInv, ChatPagesTypeOK, CallFails

\* A request goes on, and nothing else happens.
LEMMA MoveInv ==
  ASSUME ChatPagesInv, NEW t \in Tabs, NEW x \in Loads, LoadOK(x),
         load' = [load EXCEPT ![t] = x], failures' \in 0..MaxFailures,
         UNCHANGED <<hasDatabase, locked, admitted, owners, made, cookie, page, removed>>
  PROVE  ChatPagesInv'
<1>1. load' \in [Tabs -> Loads] /\ \A u \in Tabs : load'[u] = x \/ load'[u] = load[u]
  BY DEF ChatPagesInv, ChatPagesTypeOK
<1>2. ChatPagesTypeOK'
  BY <1>1 DEF ChatPagesInv, ChatPagesTypeOK
<1>3. SessionsInv' /\ ShownInv'
  BY DEF ChatPagesInv, SessionsInv, ShownInv, Agree
<1>4. \A u \in Tabs : load'[u] # NoLoad => LoadOK(load'[u])
  BY <1>1 DEF ChatPagesInv, LoadsInv
<1>5. LoadsInv'
  BY <1>4 DEF LoadsInv, LoadOK, Agree
<1> QED BY <1>2, <1>3, <1>5 DEF ChatPagesInv

\* The fields of a request under way.
LEMMA LoadFields ==
  ASSUME ChatPagesInv, NEW t \in Tabs, load[t] # NoLoad
  PROVE  /\ load[t] \in [at : {"verify", "lookup", "create", "read"},
                         kind : {"page", "partial", "delete"}, link : BOOLEAN,
                         id : Ids \cup {Blank}, token : Ids \cup {Blank}, new : BOOLEAN,
                         failed : BOOLEAN, due : SUBSET Ids]
         /\ LoadOK(load[t])
         /\ load[t].id \in 0..MaxSessions /\ load[t].token \in 0..made
         /\ made \in 1..MaxSessions
<1>1. load[t] \in Loads \ {NoLoad} /\ LoadOK(load[t]) /\ made \in 1..MaxSessions
  BY DEF ChatPagesInv, ChatPagesTypeOK, LoadsInv
<1>2. load[t].id \in Ids \cup {Blank} /\ load[t].token \in Ids \cup {Blank}
  BY <1>1 DEF Loads
<1>3. load[t].token <= made
  BY <1>1 DEF LoadOK
<1> QED BY <1>1, <1>2, <1>3, ChatPagesAssumption DEF Loads, Ids, Blank

\* build_chat_context up to the answer: whatever the page will show, it is a session
\* that was made, and the one of the request's token where there is a database.
LEMMA MoveStep ==
  ASSUME ChatPagesInv, NEW t \in Tabs, Verify(t) \/ Lookup(t) \/ LookupFails(t)
  PROVE  ChatPagesInv'
<1>1. load[t] # NoLoad
  BY DEF Verify, Lookup, LookupFails, Step
<1> DEFINE L == [at : {"verify", "lookup", "create", "read"},
                 kind : {"page", "partial", "delete"}, link : BOOLEAN,
                 id : Ids \cup {Blank}, token : Ids \cup {Blank}, new : BOOLEAN,
                 failed : BOOLEAN, due : SUBSET Ids]
<1>2. /\ load[t] \in L
      /\ LoadOK(load[t])
      /\ load[t].id \in 0..MaxSessions /\ load[t].token \in 0..made
      /\ made \in 1..MaxSessions
  BY <1>1, LoadFields
<1>3. L \subseteq Loads /\ failures \in 0..MaxFailures
  BY DEF Loads, ChatPagesInv, ChatPagesTypeOK
<1>4. CASE Verify(t)
  <2>1. CASE IsOwner(load[t].id, load[t].token)
    <3> DEFINE x == [load[t] EXCEPT !.at = "read", !.id = load[t].id]
    <3>1. load' = [load EXCEPT ![t] = x]
      BY <1>4, <2>1 DEF Verify, Move
    <3>2. x \in L
      BY <1>2
    <3>3. hasDatabase => Agree(load[t].id, load[t].token)
      BY <2>1 DEF IsOwner, ChatPagesInv, ChatPagesTypeOK, SessionsInv, Agree, Blank
    <3>4. LoadOK(x)
      BY <1>2, <1>4, <3>3 DEF LoadOK, Verify, Step
    <3> HIDE DEF x, L
    <3> QED BY <1>3, <1>4, <3>1, <3>2, <3>4, MoveInv DEF Verify
  <2>2. CASE ~IsOwner(load[t].id, load[t].token)
    <3> DEFINE x == [load[t] EXCEPT !.at = "create", !.id = Blank]
    <3>1. load' = [load EXCEPT ![t] = x]
      BY <1>4, <2>2 DEF Verify, Move
    <3>2. x \in L
      BY <1>2
    <3>4. LoadOK(x)
      BY <1>2, <1>4 DEF LoadOK, Verify, Step
    <3> HIDE DEF x, L
    <3> QED BY <1>3, <1>4, <3>1, <3>2, <3>4, MoveInv DEF Verify
  <2> QED BY <2>1, <2>2
<1>5. CASE Lookup(t)
  <2> DEFINE mine == SessionsOf(load[t].token)
  <2>1. CASE mine = {}
    <3> DEFINE x == [load[t] EXCEPT !.at = "create", !.id = Blank]
    <3>1. load' = [load EXCEPT ![t] = x]
      BY <1>5, <2>1 DEF Lookup, Move
    <3>2. x \in L
      BY <1>2
    <3>3. load[t].due \subseteq removed
      <4>1. load[t].due \subseteq {load[t].token} \cup removed /\ load[t].due \subseteq Ids
        BY <1>2 DEF LoadOK
      <4>2. hasDatabase /\ load[t].token # Blank => load[t].token \in removed
        BY <1>2, <2>1, SessionsOfToken
      <4>3. ~hasDatabase => load[t].due = {}
        BY <1>2 DEF LoadOK
      <4>4. Blank \notin Ids
        BY DEF Blank, Ids
      <4> QED BY <4>1, <4>2, <4>3, <4>4
    <3>4. LoadOK(x)
      BY <1>2, <1>5, <3>3 DEF LoadOK, Lookup, Step
    <3> HIDE DEF x, L
    <3> QED BY <1>3, <1>5, <3>1, <3>2, <3>4, MoveInv DEF Lookup
  <2>2. CASE mine # {}
    <3>1. PICK id \in mine : Move(t, "read", id)
      BY <1>5, <2>2 DEF Lookup
    <3> DEFINE x == [load[t] EXCEPT !.at = "read", !.id = id]
    <3>2. load' = [load EXCEPT ![t] = x]
      BY <3>1 DEF Move
    <3>3. Agree(id, load[t].token) /\ id \in 1..made
      <4>1. owners[id] = load[t].token /\ id \in DOMAIN owners
        BY DEF SessionsOf
      <4>2. id \in {load[t].token} \cup removed /\ id \in 1..made
        BY <1>2, SessionsOfToken
      <4> QED BY <4>1, <4>2 DEF Agree, ChatPagesInv, ChatPagesTypeOK, Blank
    <3>4. id \in Ids /\ id \in load[t].due \cup removed
      <4>1. hasDatabase
        BY <1>2, SessionsOfToken
      <4> QED BY <1>2, <3>3, <4>1, ChatPagesAssumption DEF Ids, LoadOK, Agree
    <3>5. x \in L
      BY <1>2, <3>4
    <3>6. LoadOK(x)
      BY <1>2, <1>5, <3>3, <3>4 DEF LoadOK, Lookup, Step
    <3> HIDE DEF x, L
    <3> QED BY <1>3, <1>5, <3>2, <3>5, <3>6, MoveInv DEF Lookup
  <2> QED BY <2>1, <2>2
<1>6. CASE LookupFails(t)
  <2> DEFINE x == [load[t] EXCEPT !.at = "create", !.failed = TRUE]
  <2>1. load' = [load EXCEPT ![t] = x]
    BY <1>6 DEF LookupFails
  <2>2. x \in L
    BY <1>2
  <2>3. LoadOK(x)
    BY <1>2, <1>6 DEF LoadOK, LookupFails, Step
  <2> HIDE DEF x, L
  <2> QED BY <1>3, <1>6, <2>1, <2>2, <2>3, FailureCounted, MoveInv DEF LookupFails
<1> QED BY <1>4, <1>5, <1>6

\* A page asks a question whose session is gone: it was deleted, and is made again.
LEMMA AskAgainStep ==
  ASSUME ChatPagesInv, NEW t \in Tabs, AskFromPage(t)
  PROVE  ChatPagesInv'
<1> DEFINE i == page[t].id
           o == AskedBy(t)
<1>1. /\ i \in 1..made /\ hasDatabase /\ i \notin DOMAIN owners
      /\ owners' = [j \in DOMAIN owners \cup {i} |-> IF j = i THEN o ELSE owners[j]]
  BY DEF AskFromPage, ChatPagesInv, ShownInv
<1>2. UNCHANGED <<hasDatabase, locked, admitted, made, cookie, page, load, removed, failures>>
  BY DEF AskFromPage
<1>3. o \in 1..made
  <2>1. page[t] # NoPage /\ page[t].token \in Ids \cup {Blank} /\ page[t].token <= made
    BY DEF AskFromPage, ChatPagesInv, ChatPagesTypeOK, ShownInv
  <2>2. made \in Nat /\ cookie \in Ids \cup {Blank, NoCookie} /\ cookie <= made
    BY ChatPagesAssumption DEF ChatPagesInv, ChatPagesTypeOK, ShownInv
  <2>3. page[t].token # Blank
    BY <1>1, <2>1 DEF ChatPagesInv, ShownInv, Agree
  <2> QED BY <2>1, <2>2, <2>3, ChatPagesAssumption
          DEF AskedBy, CookieToken, Ids, Blank, NoCookie
<1> HIDE DEF i, o
<1>4. /\ DOMAIN owners' = DOMAIN owners \cup {i}
      /\ \A j \in DOMAIN owners : owners'[j] = owners[j]
      /\ owners'[i] = o
  BY <1>1
<1>5. ChatPagesTypeOK'
  BY <1>1, <1>2, <1>3, <1>4 DEF ChatPagesInv, ChatPagesTypeOK
<1>9. SessionsInv'
  BY <1>1, <1>2, <1>4 DEF ChatPagesInv, SessionsInv
<1>6. ShownInv'
  BY <1>2 DEF ChatPagesInv, ShownInv, Agree
<1>7. LoadsInv'
  BY <1>2 DEF ChatPagesInv, LoadsInv, LoadOK, Agree
<1> QED BY <1>5, <1>6, <1>7, <1>9 DEF ChatPagesInv

\* A session goes from the store into what was removed.
LEMMA DeleteStep ==
  ASSUME ChatPagesInv, NEW t \in Tabs, Delete(t)
  PROVE  ChatPagesInv'
<1>1. PICK i \in SessionsOf(CookieToken) :
        /\ owners' = [j \in DOMAIN owners \ {i} |-> owners[j]]
        /\ removed' = removed \cup {i}
  BY DEF Delete
<1>2. UNCHANGED <<hasDatabase, locked, admitted, made, cookie, page, failures>>
  BY DEF Delete
<1>3. i \in DOMAIN owners /\ i \in 1..made
  BY DEF SessionsOf, ChatPagesInv, ChatPagesTypeOK
<1>4. made \in Nat \ {0} /\ CookieToken \in 0..made
  BY ChatPagesAssumption
     DEF ChatPagesInv, ChatPagesTypeOK, ShownInv, CookieToken, NoCookie, Blank, Ids
<1>5. /\ load' \in [Tabs -> Loads]
      /\ LoadOK(load'[t])
      /\ \A u \in Tabs \ {t} : load'[u] = load[u]
  BY <1>4, BeginLoad DEF Delete, Blank
<1>6. /\ DOMAIN owners' = DOMAIN owners \ {i}
      /\ \A j \in DOMAIN owners' : owners'[j] = owners[j]
      /\ removed' = removed \cup {i}
  BY <1>1, <1>3
<1>7. ChatPagesTypeOK'
  BY <1>1, <1>2, <1>3, <1>5, <1>6 DEF ChatPagesInv, ChatPagesTypeOK
<1>8. SessionsInv'
  BY <1>2, <1>6 DEF ChatPagesInv, SessionsInv
<1>9. ShownInv'
  BY <1>2, <1>6 DEF ChatPagesInv, ShownInv, Agree
<1>10. \A u \in Tabs : load'[u] # NoLoad => LoadOK(load'[u])
  BY <1>5 DEF ChatPagesInv, LoadsInv
<1>11. LoadsInv'
  BY <1>2, <1>6, <1>10 DEF LoadsInv, LoadOK, Agree
<1> QED BY <1>7, <1>8, <1>9, <1>11 DEF ChatPagesInv

\* A session is made: its id is one more than any before.
LEMMA MadeSession ==
  ASSUME ChatPagesInv, MakeSession, UNCHANGED <<hasDatabase, removed>>
  PROVE  /\ made' = made + 1 /\ made' \in 1..MaxSessions
         /\ DOMAIN owners' \subseteq 1..made' /\ \A i \in DOMAIN owners' : owners'[i] \in 1..made'
         /\ SessionsInv'
<1>1. made \in 1..MaxSessions /\ made' = made + 1 /\ made' \in 1..MaxSessions
  BY ChatPagesAssumption DEF ChatPagesInv, ChatPagesTypeOK, MakeSession
<1>2. CASE hasDatabase
  <2>1. owners' = [i \in DOMAIN owners \cup {made'} |-> IF i = made' THEN made' ELSE owners[i]]
    BY <1>2 DEF MakeSession
  <2> QED BY <1>1, <1>2, <2>1 DEF ChatPagesInv, ChatPagesTypeOK, SessionsInv
<1>3. CASE ~hasDatabase
  BY <1>1, <1>3 DEF MakeSession, ChatPagesInv, ChatPagesTypeOK, SessionsInv
<1> QED BY <1>2, <1>3

\* The pages and the cookie are of sessions that were made, and one more is.
LEMMA ShownStays ==
  ASSUME ChatPagesInv, made' = made + 1, made' \in 1..MaxSessions, cookie' \in {cookie, made'},
         UNCHANGED <<hasDatabase, page, removed>>
  PROVE  ShownInv'
<1>1. \A t \in Tabs : page[t] # NoPage => page[t].id \in 1..made' /\ page[t].token <= made'
  <2> SUFFICES ASSUME NEW t \in Tabs, page[t] # NoPage
               PROVE  page[t].id \in 1..made' /\ page[t].token <= made'
    OBVIOUS
  <2>1. page[t].token \in Ids \cup {Blank} /\ made \in 1..MaxSessions
    BY DEF ChatPagesInv, ChatPagesTypeOK
  <2> QED BY <2>1, ChatPagesAssumption DEF ChatPagesInv, ShownInv, Ids, Blank
<1>2. cookie' <= made'
  BY ChatPagesAssumption
     DEF ChatPagesInv, ChatPagesTypeOK, ShownInv, Ids, Blank, NoCookie
<1> QED BY <1>1, <1>2 DEF ChatPagesInv, ShownInv, Agree

\* The script asks for a session.
LEMMA AskSessionStep == ChatPagesInv /\ AskForSession => ChatPagesInv'
<1> SUFFICES ASSUME ChatPagesInv, AskForSession PROVE ChatPagesInv'
  OBVIOUS
<1>1. UNCHANGED <<hasDatabase, locked, admitted, page, load, removed, failures>> /\ cookie' = made'
  BY DEF AskForSession
<1>2. /\ made' = made + 1 /\ made' \in 1..MaxSessions
      /\ DOMAIN owners' \subseteq 1..made' /\ \A i \in DOMAIN owners' : owners'[i] \in 1..made'
      /\ SessionsInv'
  BY <1>1, MadeSession DEF AskForSession
<1>3. ChatPagesTypeOK'
  BY <1>1, <1>2 DEF ChatPagesInv, ChatPagesTypeOK, Ids
<1>4. ShownInv'
  BY <1>1, <1>2, ShownStays
<1>5. LoadsInv'
  <2> SUFFICES ASSUME NEW t \in Tabs, load[t] # NoLoad PROVE LoadOK(load[t])'
    BY <1>1 DEF LoadsInv
  <2> QED BY <1>1, <1>2, LoadStays DEF ChatPagesInv
<1> QED BY <1>2, <1>3, <1>4, <1>5 DEF ChatPagesInv

\* create_session().
LEMMA CreateStep ==
  ASSUME ChatPagesInv, NEW t \in Tabs, Create(t)
  PROVE  ChatPagesInv'
<1>1. UNCHANGED <<hasDatabase, locked, admitted, cookie, page, removed, failures>>
  BY DEF Create
<1>2. /\ made' = made + 1 /\ made' \in 1..MaxSessions
      /\ DOMAIN owners' \subseteq 1..made' /\ \A i \in DOMAIN owners' : owners'[i] \in 1..made'
      /\ SessionsInv'
  BY <1>1, MadeSession DEF Create
<1>3. /\ load[t] # NoLoad /\ load[t].at = "create" /\ LoadOK(load[t])
      /\ load[t].token \in 0..made
      /\ load[t] \in [at : {"verify", "lookup", "create", "read"},
                      kind : {"page", "partial", "delete"}, link : BOOLEAN,
                      id : Ids \cup {Blank}, token : Ids \cup {Blank}, new : BOOLEAN,
                      failed : BOOLEAN, due : SUBSET Ids]
  BY LoadFields DEF Create, Step
<1> PICK x : x = [load[t] EXCEPT !.at = "read", !.id = made', !.new = TRUE]
  OBVIOUS
<1>4. load' = [load EXCEPT ![t] = x]
  BY DEF Create
<1>5. x \in Loads
  BY <1>2, <1>3 DEF Loads, Ids
<1>6. LoadOK(x)'
  <2>1. /\ x.at = "read" /\ x.id = made' /\ x.new = TRUE /\ x.link = load[t].link
        /\ x.failed = load[t].failed /\ x.token = load[t].token /\ x.due = load[t].due
    BY <1>3
  <2>2. /\ x.due \subseteq {x.token} \cup removed'
        /\ hasDatabase' /\ x.token # Blank => x.token \in x.due \cup removed'
        /\ ~hasDatabase' => x.due = {}
    BY <1>1, <1>3, <2>1 DEF LoadOK
  <2>3. ~x.link /\ ~x.failed => x.due \subseteq removed'
    BY <1>1, <1>3, <2>1 DEF LoadOK
  <2>4. x.token <= made' /\ x.id \in 1..made'
    BY <1>2, <1>3, <2>1, ChatPagesAssumption DEF ChatPagesInv, ChatPagesTypeOK
  <2> QED BY <2>1, <2>2, <2>3, <2>4 DEF LoadOK
<1>7. load' \in [Tabs -> Loads] /\ load'[t] = x /\ \A u \in Tabs \ {t} : load'[u] = load[u]
  BY <1>4, <1>5 DEF ChatPagesInv, ChatPagesTypeOK
<1>8. ChatPagesTypeOK'
  BY <1>1, <1>2, <1>7 DEF ChatPagesInv, ChatPagesTypeOK
<1>9. ShownInv'
  BY <1>1, <1>2, ShownStays
<1>10. LoadsInv'
  <2> SUFFICES ASSUME NEW u \in Tabs, load'[u] # NoLoad PROVE LoadOK(load[u])'
    BY DEF LoadsInv
  <2>1. CASE u = t
    BY <1>6, <1>7, <2>1
  <2>2. CASE u # t
    BY <1>1, <1>2, <1>7, <2>2, LoadStays DEF ChatPagesInv
  <2> QED BY <2>1, <2>2
<1> QED BY <1>2, <1>8, <1>9, <1>10 DEF ChatPagesInv

\* An answer of whatever kind ends a request and changes at most the page and the
\* cookie: to the page of a session that was made, or to none.
LEMMA AnswerInv ==
  ASSUME ChatPagesInv, NEW t \in Tabs, load' = [load EXCEPT ![t] = NoLoad],
         failures' \in 0..MaxFailures,
         UNCHANGED <<hasDatabase, locked, admitted, owners, made, removed>>,
         NEW p \in [id : Ids \cup {Blank}, token : Ids \cup {Blank}],
         p # NoPage => /\ p.id \in 1..made /\ p.token <= made
                       /\ hasDatabase => Agree(p.id, p.token),
         page' = [page EXCEPT ![t] = p],
         cookie' \in Ids \cup {Blank, NoCookie}, cookie' <= made
  PROVE  ChatPagesInv'
<1>1. /\ load' \in [Tabs -> Loads] /\ \A u \in Tabs : load'[u] \in {NoLoad, load[u]}
      /\ page' \in [Tabs -> [id : Ids \cup {Blank}, token : Ids \cup {Blank}]]
      /\ \A u \in Tabs : page'[u] \in {p, page[u]}
  BY DEF ChatPagesInv, ChatPagesTypeOK, Loads
<1>2. ChatPagesTypeOK'
  BY <1>1 DEF ChatPagesInv, ChatPagesTypeOK
<1>3. SessionsInv' /\ ShownInv'
  BY <1>1 DEF ChatPagesInv, SessionsInv, ShownInv, Agree
<1>4. \A u \in Tabs : load'[u] # NoLoad => LoadOK(load'[u])
  BY <1>1 DEF ChatPagesInv, LoadsInv
<1>5. LoadsInv'
  BY <1>4 DEF LoadsInv, LoadOK, Agree
<1> QED BY <1>2, <1>3, <1>5 DEF ChatPagesInv

LEMMA AnswerStep ==
  ASSUME ChatPagesInv, NEW t \in Tabs, Broken(t) \/ Show(t)
  PROVE  ChatPagesInv'
<1>1. load[t] # NoLoad
  BY DEF Broken, Show, Step
<1>2. /\ load[t] \in [at : {"verify", "lookup", "create", "read"},
                      kind : {"page", "partial", "delete"}, link : BOOLEAN,
                      id : Ids \cup {Blank}, token : Ids \cup {Blank}, new : BOOLEAN,
                      failed : BOOLEAN, due : SUBSET Ids]
      /\ LoadOK(load[t]) /\ load[t].token \in 0..made /\ made \in 1..MaxSessions
  BY <1>1, LoadFields
<1>3. CASE load[t].kind # "page"
  <2>1. UNCHANGED <<hasDatabase, locked, admitted, owners, made, removed, page, cookie>>
    BY <1>3 DEF Broken, Show
  <2>2. load' = [load EXCEPT ![t] = NoLoad] /\ failures' \in 0..MaxFailures
    BY FailureCounted DEF Broken, Show, ChatPagesInv, ChatPagesTypeOK
  <2>3. page' = [page EXCEPT ![t] = page[t]]
    BY <2>1 DEF ChatPagesInv, ChatPagesTypeOK
  <2>4. page[t] \in [id : Ids \cup {Blank}, token : Ids \cup {Blank}]
    BY DEF ChatPagesInv, ChatPagesTypeOK
  <2>5. page[t] # NoPage => /\ page[t].id \in 1..made /\ page[t].token <= made
                            /\ hasDatabase => Agree(page[t].id, page[t].token)
    BY DEF ChatPagesInv, ShownInv
  <2>6. cookie' \in Ids \cup {Blank, NoCookie} /\ cookie' <= made
    BY <2>1 DEF ChatPagesInv, ChatPagesTypeOK, ShownInv
  <2> QED BY <2>1, <2>2, <2>3, <2>4, <2>5, <2>6, AnswerInv
<1>4. CASE load[t].kind = "page" /\ Broken(t)
  <2>1. /\ UNCHANGED <<hasDatabase, locked, admitted, owners, made, removed>>
        /\ load' = [load EXCEPT ![t] = NoLoad] /\ failures' \in 0..MaxFailures
        /\ page' = [page EXCEPT ![t] = NoPage] /\ cookie' = load[t].token
    BY <1>4, FailureCounted DEF Broken
  <2>2. NoPage \in [id : Ids \cup {Blank}, token : Ids \cup {Blank}]
    BY DEF NoPage
  <2>3. cookie' \in Ids \cup {Blank, NoCookie} /\ cookie' <= made
    BY <1>2, <2>1
  <2> QED BY <2>1, <2>2, <2>3, AnswerInv
<1>5. CASE load[t].kind = "page" /\ Show(t)
  <2> DEFINE p == [id |-> load[t].id, token |-> PageToken(t)]
  <2>1. /\ UNCHANGED <<hasDatabase, locked, admitted, owners, made, removed>>
        /\ load' = [load EXCEPT ![t] = NoLoad] /\ failures' \in 0..MaxFailures
        /\ page' = [page EXCEPT ![t] = p] /\ cookie' = PageToken(t)
    BY <1>5 DEF Show, ChatPagesInv, ChatPagesTypeOK
  <2>2. load[t].id \in 1..made /\ (hasDatabase => Agree(load[t].id, PageToken(t)))
    BY <1>2, <1>5 DEF Show, Step, LoadOK, PageToken, Agree, Blank
  <2>3. PageToken(t) \in 0..made /\ PageToken(t) \in Ids \cup {Blank}
    BY <1>2, <2>2 DEF PageToken
  <2>4. /\ p \in [id : Ids \cup {Blank}, token : Ids \cup {Blank}]
        /\ p.id \in 1..made /\ p.token <= made
        /\ hasDatabase => Agree(p.id, p.token)
    BY <1>2, <2>2, <2>3
  <2>5. cookie' \in Ids \cup {Blank, NoCookie} /\ cookie' <= made
    BY <1>2, <2>1, <2>3
  <2> HIDE DEF p
  <2> QED BY <2>1, <2>4, <2>5, AnswerInv
<1> QED BY <1>3, <1>4, <1>5

\* ChatPagesInv holds in every reachable state, for any number of tabs and sessions.
THEOREM PagesInductive == ChatPagesSpec => []ChatPagesInv
<1>1. ChatPagesInv /\ [ChatPagesNext]_chatPagesVars => ChatPagesInv'
  <2> SUFFICES ASSUME ChatPagesInv, [ChatPagesNext]_chatPagesVars PROVE ChatPagesInv'
    OBVIOUS
  <2>1. CASE Login \/ Logout
    BY <2>1, LoginStep
  <2>2. CASE AskForSession
    BY <2>2, AskSessionStep
  <2>3. ASSUME NEW t \in Tabs,
               OpenChat(t) \/ LoadMessages(t) \/ AskFromPage(t) \/ Delete(t)
        PROVE  ChatPagesInv'
    BY <2>3, OpenStep, AskAgainStep, DeleteStep
  <2>4. ASSUME NEW t \in Tabs,
               \/ Verify(t) \/ Lookup(t) \/ LookupFails(t) \/ Create(t) \/ Broken(t) \/ Show(t)
        PROVE  ChatPagesInv'
    BY <2>4, MoveStep, CreateStep, AnswerStep
  <2>5. CASE UNCHANGED chatPagesVars
    BY <2>5 DEF chatPagesVars, ChatPagesInv, ChatPagesTypeOK, SessionsInv, ShownInv, LoadsInv,
                LoadOK, Agree
  <2> QED BY <2>1, <2>2, <2>3, <2>4, <2>5 DEF ChatPagesNext
<1> QED BY PagesInit, <1>1, PTL DEF ChatPagesSpec

\* The chat pages are of their type.
THEOREM PagesTypeCorrect == ChatPagesSpec => []ChatPagesTypeOK
<1>1. ChatPagesInv => ChatPagesTypeOK
  BY DEF ChatPagesInv
<1> QED BY PagesInductive, <1>1, PTL

\* Whatever other tabs make and delete meanwhile, a page has the token of its session's
\* owner until the session is deleted: questions from it are turned away only where
\* another tab's page has replaced the cookie.
THEOREM QuestionsAreNotTurnedAway == ChatPagesSpec => []PagesCarryTheirOwner
<1>1. ChatPagesInv => PagesCarryTheirOwner
  <2> SUFFICES ASSUME ChatPagesInv, hasDatabase PROVE PagesCarryTheirOwner
    BY DEF PagesCarryTheirOwner
  <2>1. \A i \in 1..made \ removed : i \in DOMAIN owners /\ owners[i] = i
    BY DEF ChatPagesInv, SessionsInv
  <2>2. ASSUME NEW t \in Tabs, page[t] # NoPage, page[t].id \notin removed
        PROVE  /\ page[t].id \in DOMAIN owners /\ owners[page[t].id] = page[t].token
               /\ AskedBy(t) # owners[page[t].id] => cookie \in Ids \ {page[t].token}
    <3>1. page[t].id \in 1..made /\ page[t].token = page[t].id
      BY <2>2 DEF ChatPagesInv, ShownInv, Agree
    <3>2. cookie \in Ids \cup {Blank, NoCookie}
      BY DEF ChatPagesInv, ChatPagesTypeOK
    <3> QED BY <2>1, <2>2, <3>1, <3>2 DEF AskedBy, CookieToken
  <2>3. cookie \in Ids => cookie \in 1..made
    BY ChatPagesAssumption DEF ChatPagesInv, ShownInv, ChatPagesTypeOK, Ids
  <2>4. cookie \in 1..made \ removed => SessionsOf(cookie) # {}
    BY <2>1 DEF SessionsOf
  <2> QED BY <2>2, <2>3, <2>4 DEF PagesCarryTheirOwner
<1> QED BY PagesInductive, <1>1, PTL

\* Who comes back finds a session of his, and no new one is made for him.
THEOREM SessionsAreFoundAgain == ChatPagesSpec => ComingBackFindsASession
<1> DEFINE Found ==
      \A t \in Tabs :
        /\ load[t] # NoLoad /\ load[t].at = "read" /\ load'[t] = NoLoad
        /\ load[t].kind = "page" /\ ~load[t].link /\ ~load[t].failed
        => \/ load[t].due \subseteq removed
           \/ ~load[t].new /\ page'[t].id \in load[t].due \cup removed
<1>1. ChatPagesInv /\ [ChatPagesNext]_chatPagesVars => [Found]_chatPagesVars
  <2> SUFFICES ASSUME ChatPagesInv, ChatPagesNext, NEW t \in Tabs,
                      load[t] # NoLoad, load[t].at = "read", load'[t] = NoLoad,
                      load[t].kind = "page", ~load[t].link, ~load[t].failed
               PROVE  \/ load[t].due \subseteq removed
                      \/ ~load[t].new /\ page'[t].id \in load[t].due \cup removed
    OBVIOUS
  <2>0. load \in [Tabs -> Loads]
    BY DEF ChatPagesInv, ChatPagesTypeOK
  <2>1. Show(t)
    <3>1. ASSUME Login \/ Logout \/ AskForSession PROVE FALSE
      BY <3>1 DEF Login, Logout, AskForSession
    <3>2. ASSUME NEW u \in Tabs,
                 OpenChat(u) \/ LoadMessages(u) \/ AskFromPage(u) \/ Delete(u)
          PROVE  FALSE
      BY <3>2, <2>0 DEF OpenChat, LoadMessages, AskFromPage, Delete, Begin
    <3>3. ASSUME NEW u \in Tabs, Verify(u) \/ Lookup(u)
          PROVE  FALSE
      BY <3>3, <2>0 DEF Verify, Lookup, Step, Move
    <3>4. ASSUME NEW u \in Tabs, LookupFails(u) \/ Create(u) \/ Broken(u)
          PROVE  FALSE
      BY <3>4, <2>0 DEF LookupFails, Create, Broken, Step
    <3>5. ASSUME NEW u \in Tabs \ {t}, Show(u) PROVE FALSE
      BY <3>5, <2>0 DEF Show
    <3> QED BY <3>1, <3>2, <3>3, <3>4, <3>5 DEF ChatPagesNext
  <2>2. page'[t].id = load[t].id
    BY <2>1 DEF Show, ChatPagesInv, ChatPagesTypeOK
  <2> QED BY <2>2 DEF ChatPagesInv, LoadsInv, LoadOK
<1> QED BY PagesInductive, <1>1, PTL DEF ChatPagesSpec, ComingBackFindsASession

-----------------------------------------------------------------------------
(* AlertToasts                                                             *)

ClosedStreams == {i \in 1..Len(streams) : streams[i] = "closed"}

\* A stream fails once, and makes at most one timer as it does.
StreamsInv == timers <= Cardinality(ClosedStreams)

\* Whoever waits for the server's answer, or has had it, did not have the alert as
\* acknowledged; and if the server had when the event came, it still has, and has not
\* answered yet, unless its list could not be had.
CheckOK(c) ==
  /\ "here" \notin c.known
  /\ "server" \in c.known => c.blind \/ (c.alert \in server /\ ~c.passed)

ChecksInv == \A c \in checks : CheckOK(c)

\* The inductive invariant.
ToastsInv == ToastsTypeOK /\ StreamsInv /\ ChecksInv /\ VisibleIsConnected

\* The last n elements of a sequence are a sequence of at most n of them.
LEMMA LastOfType ==
  ASSUME NEW S, NEW s \in Seq(S), NEW n \in Nat \ {0}
  PROVE  LastOf(s, n) \in Seq(S) /\ Len(LastOf(s, n)) <= n
<1> DEFINE m == IF Len(s) > n THEN Len(s) - n + 1 ELSE 1
<1>1. m \in Nat \ {0} /\ Len(s) - m + 1 <= n
  OBVIOUS
<1>2. LastOf(s, n) = SubSeq(s, m, Len(s))
  BY DEF LastOf
<1> HIDE DEF m
<1> QED BY <1>1, <1>2

\* How many numbers there are up to n.
LEMMA UpTo ==
  ASSUME NEW n \in Nat PROVE IsFiniteSet(1..n) /\ Cardinality(1..n) = n
<1>1. 1 \in Int /\ n \in Int
  OBVIOUS
<1>2. IsFiniteSet(1..n) /\ Cardinality(1..n) = IF 1 > n THEN 0 ELSE n - 1 + 1
  BY <1>1, FS_Interval
<1> QED BY <1>2

\* The streams that are closed are some of the streams.
LEMMA ClosedAreFew ==
  ASSUME ToastsTypeOK
  PROVE  /\ IsFiniteSet(ClosedStreams) /\ Cardinality(ClosedStreams) \in Nat
         /\ Cardinality(ClosedStreams) <= Len(streams)
<1>1. Len(streams) \in Nat
  BY DEF ToastsTypeOK
<1>2. IsFiniteSet(1..Len(streams)) /\ Cardinality(1..Len(streams)) = Len(streams)
  BY <1>1, UpTo
<1> QED BY <1>2, FS_Subset, FS_CardinalityType DEF ClosedStreams

\* Nothing is shown yet.
LEMMA ToastsStart == ToastsInit => ToastsInv
<1> SUFFICES ASSUME ToastsInit PROVE ToastsInv
  OBVIOUS
<1> USE AlertToastsAssumption DEF ToastsInit
<1>1. ToastsTypeOK
  BY DEF ToastsTypeOK
<1>2. StreamsInv
  BY <1>1, ClosedAreFew DEF StreamsInv
<1> QED BY <1>1, <1>2 DEF ToastsInv, ChecksInv, VisibleIsConnected

\* Another stream is made: none of those before is any different.
LEMMA SourceMade ==
  ASSUME ToastsInv, CreateSource
  PROVE  /\ streams' \in Seq({"connecting", "open", "closed"})
         /\ Len(streams') \in 1..MaxStreams /\ streams'[Len(streams')] = "connecting"
         /\ ClosedStreams' = ClosedStreams
<1>1. streams' = Append(streams, "connecting") /\ Len(streams) < MaxStreams
  BY DEF CreateSource
<1>2. /\ streams \in Seq({"connecting", "open", "closed"})
      /\ Len(streams) \in Nat
  BY DEF ToastsInv, ToastsTypeOK
<1>3. /\ Len(streams') = Len(streams) + 1 /\ streams'[Len(streams) + 1] = "connecting"
      /\ \A i \in 1..Len(streams) : streams'[i] = streams[i]
  BY <1>1, <1>2
<1> QED BY <1>1, <1>2, <1>3, AlertToastsAssumption DEF ClosedStreams

\* The steps of the streams.
LEMMA StreamStep ==
  ASSUME ToastsInv,
         \/ PageLoads \/ PageHides \/ PageShows \/ TimerFires
         \/ \E i \in 1..Len(streams) : StreamOpens(i) \/ StreamFails(i)
  PROVE  ToastsInv'
<1> USE AlertToastsAssumption
<1>0. /\ streams \in Seq({"connecting", "open", "closed"}) /\ Len(streams) \in 1..MaxStreams
      /\ timers \in Nat /\ timers <= MaxStreams
      /\ Cardinality(ClosedStreams) \in Nat /\ timers <= Cardinality(ClosedStreams)
  BY ClosedAreFew DEF ToastsInv, ToastsTypeOK, StreamsInv
<1>1. CASE PageLoads
  <2>1. ToastsTypeOK'
    BY <1>1 DEF PageLoads, ToastsInv, ToastsTypeOK, listVars
  <2>2. StreamsInv'
    <3>1. ClosedStreams' = {}
      BY <1>1 DEF PageLoads, ClosedStreams
    <3> QED BY <1>1, <3>1, FS_EmptySet DEF PageLoads, StreamsInv
  <2> QED BY <1>1, <2>1, <2>2 DEF PageLoads, ToastsInv, ChecksInv, VisibleIsConnected
<1>2. CASE PageHides
  <2>1. UNCHANGED <<streams, timers, checks, toasts, listVars>> /\ visible' = FALSE
    BY <1>2 DEF PageHides
  <2> QED BY <2>1 DEF ToastsInv, ToastsTypeOK, StreamsInv, ClosedStreams, ChecksInv, CheckOK,
                      VisibleIsConnected, listVars
<1>3. CASE PageShows
  <2>1. UNCHANGED <<timers, checks, toasts, listVars>> /\ visible' = TRUE
    BY <1>3 DEF PageShows
  <2>2. /\ streams' \in Seq({"connecting", "open", "closed"}) /\ Len(streams') \in 1..MaxStreams
        /\ streams'[Len(streams')] # "closed" /\ ClosedStreams' = ClosedStreams
    <3>1. CASE streams[Len(streams)] = "closed"
      BY <1>3, <3>1, SourceMade DEF PageShows
    <3>2. CASE streams[Len(streams)] # "closed"
      BY <1>0, <1>3, <3>2 DEF PageShows, ClosedStreams
    <3> QED BY <3>1, <3>2
  <2> QED BY <2>1, <2>2 DEF ToastsInv, ToastsTypeOK, StreamsInv, ChecksInv, CheckOK,
                            VisibleIsConnected, listVars
<1>4. CASE TimerFires
  <2>1. UNCHANGED <<visible, checks, toasts, listVars>> /\ timers' = timers - 1 /\ timers > 0
    BY <1>4 DEF TimerFires
  <2>2. /\ streams' \in Seq({"connecting", "open", "closed"}) /\ Len(streams') \in 1..MaxStreams
        /\ streams'[Len(streams')] = "connecting" /\ ClosedStreams' = ClosedStreams
    BY <1>4, SourceMade DEF TimerFires
  <2>3. timers' \in 0..MaxStreams /\ timers' <= Cardinality(ClosedStreams)
    BY <1>0, <2>1
  <2> QED BY <2>1, <2>2, <2>3 DEF ToastsInv, ToastsTypeOK, StreamsInv, ChecksInv, CheckOK,
                                  VisibleIsConnected, listVars
<1>5. ASSUME NEW i \in 1..Len(streams), StreamOpens(i) PROVE ToastsInv'
  <2>1. UNCHANGED <<visible, timers, checks, toasts, listVars>>
    BY <1>5 DEF StreamOpens
  <2>2. /\ streams' \in Seq({"connecting", "open", "closed"}) /\ Len(streams') = Len(streams)
        /\ streams[i] = "connecting" /\ streams'[i] = "open"
        /\ \A j \in 1..Len(streams) : j # i => streams'[j] = streams[j]
    BY <1>0, <1>5 DEF StreamOpens
  <2>3. ClosedStreams' = ClosedStreams
    BY <2>2 DEF ClosedStreams
  <2>4. streams[Len(streams)] # "closed" => streams'[Len(streams')] # "closed"
    BY <1>0, <2>2
  <2> QED BY <1>0, <2>1, <2>2, <2>3, <2>4
          DEF ToastsInv, ToastsTypeOK, StreamsInv, ChecksInv, CheckOK, VisibleIsConnected, listVars
<1>6. ASSUME NEW i \in 1..Len(streams), StreamFails(i) PROVE ToastsInv'
  <2>1. /\ UNCHANGED <<visible, checks, toasts, listVars>>
        /\ timers' = IF visible THEN timers + 1 ELSE timers
    BY <1>6 DEF StreamFails
  <2>2. /\ streams' \in Seq({"connecting", "open", "closed"}) /\ Len(streams') = Len(streams)
        /\ streams[i] # "closed" /\ streams'[i] = "closed"
        /\ \A j \in 1..Len(streams) : j # i => streams'[j] = streams[j]
    BY <1>0, <1>6 DEF StreamFails
  <2>3. ClosedStreams' = ClosedStreams \cup {i} /\ i \notin ClosedStreams
    BY <2>2 DEF ClosedStreams
  <2>4. Cardinality(ClosedStreams') = Cardinality(ClosedStreams) + 1
    BY <2>3, FS_AddElement, ClosedAreFew DEF ToastsInv
  <2>5. Cardinality(ClosedStreams') <= Len(streams')
    <3>1. IsFiniteSet(1..Len(streams')) /\ Cardinality(1..Len(streams')) = Len(streams')
      BY <1>0, <2>2, UpTo
    <3> QED BY <3>1, FS_Subset DEF ClosedStreams
  <2>6. timers' \in 0..MaxStreams /\ timers' <= Cardinality(ClosedStreams')
    BY <1>0, <2>1, <2>2, <2>4, <2>5
  <2>7. visible => timers' > 0
    BY <1>0, <2>1
  <2> QED BY <1>0, <2>1, <2>2, <2>6, <2>7
          DEF ToastsInv, ToastsTypeOK, StreamsInv, ChecksInv, CheckOK, VisibleIsConnected, listVars
<1> QED BY <1>1, <1>2, <1>3, <1>4, <1>5, <1>6

\* The steps of the alerts and the toasts: the streams are as they were.
LEMMA ToastStep ==
  ASSUME ToastsInv,
         \/ ServerRestarts
         \/ \E a \in Alerts :
              \/ AcknowledgeToast(a)
              \/ PostArrives(a) \/ PostLost(a) \/ AcknowledgedElsewhere(a)
              \/ \E i \in 1..Len(streams) : AlertComes(a, i)
         \/ \E c \in checks : ListAnswers(c) \/ ListFails(c) \/ ShowToast(c)
  PROVE  ToastsInv'
<1>0. /\ UNCHANGED pageVars
      /\ checks \subseteq Checks /\ toasts \in [Alerts -> Nat]
      /\ local \in Seq(Alerts) /\ Len(local) <= KeepLocal
      /\ server \subseteq Alerts /\ posts \subseteq Alerts
      /\ \A c \in checks : CheckOK(c)
  BY DEF ServerRestarts, AcknowledgeToast, PostArrives, PostLost, AcknowledgedElsewhere,
         AlertComes, ListAnswers, ListFails, ShowToast, ToastsInv, ToastsTypeOK, ChecksInv
<1>1. SUFFICES /\ checks' \subseteq Checks /\ toasts' \in [Alerts -> Nat]
               /\ local' \in Seq(Alerts) /\ Len(local') <= KeepLocal
               /\ server' \subseteq Alerts /\ posts' \subseteq Alerts
               /\ \A c \in checks' : CheckOK(c)'
  BY <1>0 DEF ToastsInv, ToastsTypeOK, StreamsInv, ClosedStreams, ChecksInv, VisibleIsConnected,
              pageVars
<1>2. CASE ServerRestarts
  <2>1. /\ UNCHANGED <<toasts, local, posts>> /\ server' = {}
        /\ checks' = {[c EXCEPT !.blind = TRUE] : c \in checks}
    BY <1>2 DEF ServerRestarts
  <2>2. ASSUME NEW c \in checks', NEW d \in checks, c = [d EXCEPT !.blind = TRUE]
        PROVE  c \in Checks /\ c.known = d.known /\ c.blind = TRUE
    BY <1>0, <2>2 DEF Checks
  <2> QED BY <1>0, <2>1, <2>2 DEF CheckOK
<1>3. ASSUME NEW a \in Alerts, AcknowledgeToast(a)
      PROVE  /\ checks' = checks /\ server' = server /\ toasts' \in [Alerts -> Nat]
             /\ local' \in Seq(Alerts) /\ Len(local') <= KeepLocal /\ posts' \subseteq Alerts
  <2>1. checks' = checks /\ server' = server /\ toasts' \in [Alerts -> Nat]
    BY <1>0, <1>3 DEF AcknowledgeToast
  <2>2. Append(local, a) \in Seq(Alerts)
    BY <1>0
  <2>3. /\ LastOf(Append(local, a), KeepLocal) \in Seq(Alerts)
        /\ Len(LastOf(Append(local, a), KeepLocal)) <= KeepLocal
    BY <2>2, LastOfType, AlertToastsAssumption
  <2> QED BY <1>0, <1>3, <2>1, <2>3 DEF AcknowledgeToast
<1>4. ASSUME NEW a \in Alerts, PostArrives(a) \/ PostLost(a) \/ AcknowledgedElsewhere(a)
      PROVE  /\ UNCHANGED <<checks, toasts, local>>
             /\ server \subseteq server' /\ server' \subseteq Alerts /\ posts' \subseteq Alerts
  BY <1>0, <1>4 DEF PostArrives, PostLost, AcknowledgedElsewhere
<1>5. ASSUME NEW a \in Alerts, NEW i \in 1..Len(streams), AlertComes(a, i)
      PROVE  /\ UNCHANGED <<toasts, local, server, posts>> /\ checks' \subseteq Checks
             /\ \A c \in checks' : CheckOK(c)
  <2> DEFINE d == [alert |-> a, passed |-> FALSE, blind |-> FALSE, known |-> KnownTo(a)]
  <2>1. UNCHANGED <<toasts, local, server, posts>> /\ checks' = checks \cup {d} /\ a \notin Local
    BY <1>5 DEF AlertComes, listVars
  <2>2. d \in Checks
    BY DEF Checks, KnownTo
  <2>3. "here" \notin KnownTo(a) /\ ("server" \in KnownTo(a) => a \in server)
    BY <2>1 DEF KnownTo
  <2>4. CheckOK(d)
    BY <2>3 DEF CheckOK
  <2> QED BY <1>0, <2>1, <2>2, <2>4
<1>6. ASSUME NEW c \in checks, ListAnswers(c) \/ ListFails(c) \/ ShowToast(c)
      PROVE  /\ UNCHANGED <<local, server, posts>> /\ toasts' \in [Alerts -> Nat]
             /\ checks' \subseteq Checks /\ \A d \in checks' : CheckOK(d)
  <2>1. UNCHANGED <<local, server, posts>> /\ c \in Checks /\ CheckOK(c)
    BY <1>0, <1>6 DEF ListAnswers, ListFails, ShowToast, listVars
  <2>2. CASE ListAnswers(c)
    <3> DEFINE d == [c EXCEPT !.passed = TRUE]
    <3>1. d \in Checks /\ d.known = c.known /\ d.blind = c.blind
      BY <2>1 DEF Checks
    <3>2. c.alert \notin server => CheckOK(d)
      BY <2>1, <3>1 DEF CheckOK
    <3> QED BY <1>0, <2>1, <2>2, <3>1, <3>2 DEF ListAnswers
  <2>3. CASE ListFails(c)
    <3> DEFINE d == [c EXCEPT !.passed = TRUE, !.blind = TRUE]
    <3>1. d \in Checks /\ d.known = c.known /\ d.blind = TRUE
      BY <2>1 DEF Checks
    <3>2. CheckOK(d)
      BY <2>1, <3>1 DEF CheckOK
    <3> QED BY <1>0, <2>1, <2>3, <3>1, <3>2 DEF ListFails
  <2>4. CASE ShowToast(c)
    BY <1>0, <2>1, <2>4 DEF ShowToast
  <2> QED BY <1>6, <2>2, <2>3, <2>4
<1>7. ASSUME UNCHANGED checks, server \subseteq server' PROVE \A c \in checks' : CheckOK(c)'
  BY <1>0, <1>7 DEF CheckOK
<1>8. ASSUME UNCHANGED server, \A c \in checks' : CheckOK(c) PROVE \A c \in checks' : CheckOK(c)'
  BY <1>8 DEF CheckOK
<1> QED BY <1>0, <1>2, <1>3, <1>4, <1>5, <1>6, <1>7, <1>8

\* ToastsInv holds in every reachable state.
THEOREM ToastsInductive == ToastsSpec => []ToastsInv
<1>1. ToastsInv /\ [ToastsNext]_toastVars => ToastsInv'
  <2> SUFFICES ASSUME ToastsInv, [ToastsNext]_toastVars PROVE ToastsInv'
    OBVIOUS
  <2>1. CASE ToastsNext
    BY <2>1, StreamStep, ToastStep DEF ToastsNext
  <2>2. CASE UNCHANGED toastVars
    BY <2>2 DEF toastVars, ToastsInv, ToastsTypeOK, StreamsInv, ClosedStreams, ChecksInv, CheckOK,
                VisibleIsConnected
  <2> QED BY <2>1, <2>2
<1> QED BY ToastsStart, <1>1, PTL DEF ToastsSpec

\* The page is of its type: it has never more timers than streams that failed.
THEOREM ToastsTypeCorrect == ToastsSpec => []ToastsTypeOK
<1>1. ToastsInv => ToastsTypeOK
  BY DEF ToastsInv
<1> QED BY ToastsInductive, <1>1, PTL

\* A page that is looked at is never left without a stream and without a timer.
THEOREM PagesReconnect == ToastsSpec => []VisibleIsConnected
<1>1. ToastsInv => VisibleIsConnected
  BY DEF ToastsInv
<1> QED BY ToastsInductive, <1>1, PTL

\* Each toast is due, and there is one of it.
THEOREM NoToastTwice == ToastsSpec => ToastsAreDue
<1> DEFINE Due ==
      \A a \in Alerts : toasts'[a] > toasts[a] =>
        /\ toasts[a] = 0
        /\ \E c \in checks \ checks' :
             /\ c.alert = a
             /\ "here" \notin c.known
             /\ "server" \in c.known => c.blind
<1>1. ToastsInv /\ [ToastsNext]_toastVars => [Due]_toastVars
  <2> SUFFICES ASSUME ToastsInv, ToastsNext, NEW a \in Alerts, toasts'[a] > toasts[a]
               PROVE  /\ toasts[a] = 0
                      /\ \E c \in checks \ checks' :
                           /\ c.alert = a
                           /\ "here" \notin c.known
                           /\ "server" \in c.known => c.blind
    OBVIOUS
  <2>1. toasts \in [Alerts -> Nat] /\ \A c \in checks : CheckOK(c)
    BY DEF ToastsInv, ToastsTypeOK, ChecksInv
  <2>2. toasts' # toasts
    BY <2>1
  <2>3. ~PageLoads /\ \A b \in Alerts : ~AcknowledgeToast(b)
    BY <2>1 DEF PageLoads, AcknowledgeToast
  <2>4. PICK c \in checks : ShowToast(c)
    BY <2>2, <2>3
       DEF ToastsNext, PageHides, PageShows, TimerFires, ServerRestarts, StreamOpens, StreamFails,
           PostArrives, PostLost, AcknowledgedElsewhere, AlertComes, ListAnswers, ListFails
  <2>5. c.alert = a /\ toasts[a] = 0 /\ c.passed /\ c \in checks \ checks'
    BY <2>1, <2>4 DEF ShowToast
  <2> QED BY <2>1, <2>5 DEF CheckOK
<1> QED BY ToastsInductive, <1>1, PTL DEF ToastsSpec, ToastsAreDue

-----------------------------------------------------------------------------
(* LogExplanations                                                         *)

\* What is on the screen has just been there, and what is saved was on a screen no
\* longer ago than its time says, unless the clock has been set back since.
AgesInv ==
  \A m \in Rows :
    /\ m \in explained => away[m] = 0
    /\ saved[m] # Never /\ m \notin setBack =>
         saved[m] <= today /\ away[m] <= today - saved[m]

ExplanationsInv == ExplanationsTypeOK /\ AgesInv

\* What a save leaves in the storage: the time of now, what was there, or nothing.
LEMMA SavedIs ==
  ASSUME ExplanationsInv
  PROVE  /\ SavedNow \in [Rows -> 0..Never]
         /\ \A m \in Rows : \/ SavedNow[m] = today /\ m \in explained
                            \/ SavedNow[m] = saved[m] /\ (m \in Resaved <=> m \in setBack)
                            \/ SavedNow[m] = Never
         /\ storage = "works" => \A m \in explained : SavedNow[m] = today
         /\ Resaved \subseteq Rows
<1> USE LogExplanationsAssumption DEF ExplanationsInv, ExplanationsTypeOK, Never, Old, Kept,
        Gone
<1>1. CASE explained = {} \/ storage # "works"
  BY <1>1 DEF SavedNow, Resaved
<1>2. CASE ~(explained = {} \/ storage # "works")
  <2> DEFINE times == [m \in Rows |-> IF m \in explained THEN today ELSE saved[m]]
  <2>1. times \in [Rows -> 0..Never] /\ \A m \in explained : times[m] = today /\ m \in Rows
    OBVIOUS
  <2>2. SavedNow = Kept(times) /\ Resaved = setBack \ explained
    BY <1>2 DEF SavedNow, Resaved
  <2>3. \A m \in Rows : SavedNow[m] = IF Old(times[m]) THEN Never ELSE times[m]
    BY <2>2
  <2>4. \A m \in explained : SavedNow[m] = today
    BY <2>1, <2>3
  <2>5. \A m \in Rows : \/ SavedNow[m] = today /\ m \in explained
                        \/ SavedNow[m] = saved[m] /\ m \notin explained
                        \/ SavedNow[m] = Never
    BY <2>3
  <2>6. SavedNow \in [Rows -> 0..Never]
    BY <2>1, <2>2
  <2> QED BY <2>2, <2>4, <2>5, <2>6
<1> QED BY <1>1, <1>2

\* So after a save every time is still right.
LEMMA SavedIsRight ==
  ASSUME ExplanationsInv, NEW m \in Rows, SavedNow[m] # Never, m \notin Resaved
  PROVE  SavedNow[m] <= today /\ away[m] <= today - SavedNow[m]
<1>1. CASE SavedNow[m] = today /\ m \in explained
  <2>1. away[m] = 0 /\ today \in Nat
    BY <1>1 DEF ExplanationsInv, ExplanationsTypeOK, AgesInv
  <2> QED BY <1>1, <2>1
<1>2. CASE SavedNow[m] = saved[m] /\ (m \in Resaved <=> m \in setBack)
  BY <1>2 DEF ExplanationsInv, AgesInv
<1> QED BY <1>1, <1>2, SavedIs

\* ExplanationsInv holds in every reachable state.
THEOREM ExplanationsInductive == ExplanationsSpec => []ExplanationsInv
<1> USE LogExplanationsAssumption DEF Gone, Never
<1>1. ExplanationsInit => ExplanationsInv
  <2> SUFFICES ASSUME ExplanationsInit PROVE ExplanationsInv
    OBVIOUS
  <2>1. KeepFor + 1 \in 0..KeepFor + 1 /\ MaxClock + 1 \in 0..MaxClock + 1 /\ 0 \in 0..MaxClock
    OBVIOUS
  <2>2. saved \in [Rows -> 0..Never] /\ away \in [Rows -> 0..Gone]
    BY <2>1 DEF ExplanationsInit
  <2>3. ExplanationsTypeOK
    BY <2>1, <2>2 DEF ExplanationsInit, ExplanationsTypeOK
  <2>4. AgesInv
    BY DEF ExplanationsInit, AgesInv
  <2> QED BY <2>3, <2>4 DEF ExplanationsInv
<1>2. ExplanationsInv /\ [ExplanationsNext]_explanationVars => ExplanationsInv'
  <2> SUFFICES ASSUME ExplanationsInv, [ExplanationsNext]_explanationVars PROVE ExplanationsInv'
    OBVIOUS
  <2>a. ExplanationsTypeOK /\ AgesInv
    BY DEF ExplanationsInv
  <2>1. ASSUME NEW m \in Rows, AskWhy(m) \/ WhyAnswered(m) \/ WhyFails(m)
        PROVE  ExplanationsInv'
    BY <2>1, <2>a DEF AskWhy, WhyAnswered, WhyFails, storeVars, ExplanationsInv,
       ExplanationsTypeOK, AgesInv
  <2>2. CASE RefreshFails \/ StorageTurns
    BY <2>2, <2>a DEF RefreshFails, StorageTurns, panelVars, storeVars, ExplanationsInv,
       ExplanationsTypeOK, AgesInv
  <2>3. CASE RefreshStarts
    <3>1. /\ UNCHANGED <<rows, explained, asking, storage, today, away>> /\ refreshing' = TRUE
          /\ saved' = SavedNow /\ setBack' = Resaved
      BY <2>3 DEF RefreshStarts, panelVars
    <3>2. ExplanationsTypeOK'
      BY <2>a, <3>1, SavedIs DEF ExplanationsTypeOK
    <3>3. AgesInv'
      <4> SUFFICES ASSUME NEW m \in Rows
                   PROVE  /\ m \in explained => away[m] = 0
                          /\ SavedNow[m] # Never /\ m \notin Resaved =>
                               SavedNow[m] <= today /\ away[m] <= today - SavedNow[m]
        BY <3>1 DEF AgesInv
      <4> QED BY <2>a, SavedIsRight DEF AgesInv
    <3> QED BY <3>2, <3>3 DEF ExplanationsInv
  <2>4. CASE Refreshed
    <3>1. /\ rows' \subseteq Rows /\ explained' \subseteq rows' /\ asking' = {}
          /\ refreshing' = FALSE /\ storage' = storage /\ today' = today /\ setBack' = Resaved
          /\ away' = [m \in Rows |-> IF m \in explained' THEN 0 ELSE away[m]]
          /\ saved' = SavedNow \/ saved' = Kept(SavedNow)
      BY <2>4 DEF Refreshed, Restored
    <3>2. /\ saved' \in [Rows -> 0..Never]
          /\ \A m \in Rows : saved'[m] = SavedNow[m] \/ saved'[m] = Never
      <4>1. Never \in 0..Never
        OBVIOUS
      <4> QED BY <3>1, <4>1, SavedIs DEF Kept
    <3>3. ExplanationsTypeOK'
      <4>1. 0 \in 0..Gone /\ setBack' \subseteq Rows
        BY <3>1, SavedIs
      <4>2. away' \in [Rows -> 0..Gone]
        BY ONLY <2>a, <3>1, <4>1 DEF ExplanationsTypeOK
      <4>3. asking' \subseteq rows' /\ refreshing' \in BOOLEAN
        BY <3>1
      <4> QED BY ONLY <2>a, <3>1, <3>2, <4>1, <4>2, <4>3 DEF ExplanationsTypeOK
    <3>4. AgesInv'
      <4> SUFFICES ASSUME NEW m \in Rows
                   PROVE  /\ m \in explained' => away'[m] = 0
                          /\ saved'[m] # Never /\ m \notin setBack' =>
                               saved'[m] <= today' /\ away'[m] <= today' - saved'[m]
        BY DEF AgesInv
      <4>1. m \in explained' => away'[m] = 0
        BY <3>1
      <4>2. away'[m] <= away[m] /\ away[m] \in Nat /\ away'[m] \in Nat /\ today \in Nat
        BY <2>a, <3>1 DEF ExplanationsTypeOK
      <4>3. ASSUME saved'[m] # Never, m \notin setBack'
            PROVE  saved'[m] <= today' /\ away'[m] <= today' - saved'[m]
        <5>1. saved'[m] = SavedNow[m] /\ saved'[m] \in Nat
          BY <3>2, <4>3
        <5>2. SavedNow[m] <= today /\ away[m] <= today - SavedNow[m]
          BY <3>1, <4>3, <5>1, SavedIsRight
        <5> QED BY <3>1, <4>2, <5>1, <5>2
      <4> QED BY <4>1, <4>3
    <3> QED BY <3>3, <3>4 DEF ExplanationsInv
  <2>5. CASE PageTurned
    BY <2>5, <2>a DEF PageTurned, storeVars, ExplanationsInv, ExplanationsTypeOK, AgesInv
  <2>6. ASSUME NEW r \in Rows, SavedByATab(r) PROVE ExplanationsInv'
    <3>1. /\ UNCHANGED <<rows, explained, asking, refreshing, storage, today>>
          /\ setBack' = setBack \ {r} /\ away' = [away EXCEPT ![r] = 0]
      BY <2>6 DEF SavedByATab, panelVars
    <3>2. \A m \in Rows : saved'[m] = Never \/ saved'[m] = IF m = r THEN today ELSE saved[m]
      BY <2>6, <2>a DEF SavedByATab, Kept, ExplanationsTypeOK
    <3>3. saved' \in [Rows -> 0..Never]
      BY <2>6, <2>a DEF SavedByATab, Kept, ExplanationsTypeOK
    <3>4. ExplanationsTypeOK'
      <4>1. 0 \in 0..Gone
        OBVIOUS
      <4>2. away' \in [Rows -> 0..Gone]
        BY ONLY <2>a, <3>1, <4>1 DEF ExplanationsTypeOK
      <4> QED BY ONLY <2>a, <3>1, <3>3, <4>2 DEF ExplanationsTypeOK
    <3>5. AgesInv'
      BY <2>a, <3>1, <3>2 DEF AgesInv, ExplanationsTypeOK
    <3> QED BY <3>4, <3>5 DEF ExplanationsInv
  <2>7. CASE MinutePasses
    <3>1. /\ UNCHANGED <<rows, explained, asking, refreshing, storage, saved, setBack>>
          /\ today < MaxClock /\ today' = today + 1
      BY <2>7 DEF MinutePasses, panelVars
    <3>2. ASSUME NEW m \in Rows
          PROVE  /\ away'[m] \in 0..Gone /\ away'[m] <= away[m] + 1
                 /\ m \in explained => away'[m] = 0
      BY <2>7, <2>a DEF MinutePasses, ExplanationsTypeOK
    <3>3. away' \in [Rows -> 0..Gone]
      BY <2>7, <3>2 DEF MinutePasses
    <3>4. ExplanationsTypeOK'
      BY <2>a, <3>1, <3>3 DEF ExplanationsTypeOK
    <3>5. AgesInv'
      BY <2>a, <3>1, <3>2 DEF AgesInv, ExplanationsTypeOK
    <3> QED BY <3>4, <3>5 DEF ExplanationsInv
  <2>8. ASSUME NEW time \in 0..MaxClock, ClockSetTo(time) PROVE ExplanationsInv'
    <3>1. /\ UNCHANGED <<rows, explained, asking, refreshing, storage, saved, away>>
          /\ today' = time /\ setBack' = IF time < today THEN Rows ELSE setBack
      BY <2>8 DEF ClockSetTo, panelVars
    <3>2. ExplanationsTypeOK'
      BY <2>a, <3>1 DEF ExplanationsTypeOK
    <3>3. AgesInv'
      BY <2>a, <3>1 DEF AgesInv, ExplanationsTypeOK
    <3> QED BY <3>2, <3>3 DEF ExplanationsInv
  <2>9. CASE UNCHANGED explanationVars
    BY <2>9, <2>a DEF explanationVars, ExplanationsInv, ExplanationsTypeOK, AgesInv
  <2> QED BY <2>1, <2>2, <2>3, <2>4, <2>5, <2>6, <2>7, <2>8, <2>9 DEF ExplanationsNext
<1> QED BY <1>1, <1>2, PTL DEF ExplanationsSpec

\* The rows and the storage are of their types.
THEOREM ExplanationsTypeCorrect == ExplanationsSpec => []ExplanationsTypeOK
<1>1. ExplanationsInv => ExplanationsTypeOK
  BY DEF ExplanationsInv
<1> QED BY ExplanationsInductive, <1>1, PTL

\* A refresh loses no explanation while the storage works, and brings none back that is
\* too old unless the clock has been set back since it was saved.
THEOREM RefreshesKeep == ExplanationsSpec => ExplanationsStay
<1> DEFINE Stay ==
      /\ refreshing /\ ~refreshing' /\ storage = "works" => explained \cap rows' \subseteq explained'
      /\ \A m \in explained' \ explained : m \in asking \/ away[m] <= KeepFor \/ m \in setBack
<1>1. ExplanationsInv /\ [ExplanationsNext]_explanationVars => [Stay]_explanationVars
  <2> SUFFICES ASSUME ExplanationsInv, ExplanationsNext PROVE Stay
    OBVIOUS
  <2>a. ExplanationsTypeOK /\ AgesInv
    BY DEF ExplanationsInv
  <2>1. ASSUME NEW m \in Rows, AskWhy(m) \/ WhyAnswered(m) \/ WhyFails(m) \/ SavedByATab(m)
        PROVE  Stay
    BY <2>1 DEF AskWhy, WhyAnswered, WhyFails, SavedByATab, panelVars
  <2>2. CASE RefreshStarts \/ RefreshFails \/ PageTurned \/ StorageTurns \/ MinutePasses
             \/ \E time \in 0..MaxClock : ClockSetTo(time)
    BY <2>2 DEF RefreshStarts, RefreshFails, PageTurned, StorageTurns, MinutePasses,
       ClockSetTo, panelVars
  <2>3. CASE Refreshed
    <3>1. rows' \subseteq Rows /\ explained' = Restored(rows', SavedNow)
      BY <2>3 DEF Refreshed
    <3>2. ASSUME storage = "works" PROVE explained \cap rows' \subseteq explained'
      <4>1. \A m \in explained \cap rows' : SavedNow[m] = today
        BY <3>2, SavedIs
      <4>2. today # Never /\ ~Old(today)
        BY <2>a, LogExplanationsAssumption DEF ExplanationsTypeOK, Never, Old
      <4> QED BY <3>1, <3>2, <4>1, <4>2 DEF Restored
    <3>3. ASSUME NEW m \in explained' PROVE away[m] <= KeepFor \/ m \in setBack
      <4>1. m \in Rows /\ SavedNow[m] # Never /\ ~Old(SavedNow[m])
        BY <3>1, <3>3 DEF Restored
      <4>2. CASE m \in setBack
        BY <4>2
      <4>3. CASE m \notin setBack
        <5>1. m \notin Resaved
          BY <4>3 DEF Resaved
        <5>2. SavedNow[m] <= today /\ away[m] <= today - SavedNow[m]
          BY <4>1, <5>1, SavedIsRight
        <5>3. SavedNow[m] \in Nat /\ today \in Nat /\ away[m] \in Nat /\ KeepFor \in Nat
          BY <2>a, <4>1, SavedIs, LogExplanationsAssumption DEF ExplanationsTypeOK
        <5>4. ~(SavedNow[m] + KeepFor < today)
          BY <4>1 DEF Old
        <5> QED BY ONLY <5>2, <5>3, <5>4
      <4> QED BY <4>2, <4>3
    <3> QED BY <3>2, <3>3
  <2> QED BY <2>1, <2>2, <2>3 DEF ExplanationsNext
<1> QED BY ExplanationsInductive, <1>1, PTL DEF ExplanationsSpec, ExplanationsStay

-----------------------------------------------------------------------------
(* DashboardApi                                                            *)

\* An explanation in the cache, or on its way there, is of the message it is under.
AboutInv ==
  /\ \A m \in Messages : explanations[m] # NoEntry => explanations[m].text.about = m
  /\ \A r \in Requests : request[r].at = "store" => request[r].text.about = request[r].message

\* No key is listed twice, and who waits for the list is in it.
KeysInv ==
  /\ IsFiniteSet(KeySet) /\ Len(acknowledged) = Cardinality(KeySet)
  /\ \A r \in Requests : request[r].at = "list" => request[r].key \in KeySet

\* The last number published is below the one taken, all were taken, and the number of
\* a status is none older than what its client had seen.
BeatsInv ==
  /\ heartbeat <= beats /\ published <= beats
  /\ heartbeat > 0 => published < heartbeat
  /\ \A r \in Requests :
       /\ request[r].at = "status" => request[r].seen <= beats
       /\ request[r].at = "insight" => request[r].seen <= request[r].seq

\* The inductive invariant.
ApiInv == ApiTypeOK /\ AboutInv /\ KeysInv /\ BeatsInv

\* No request has come yet.
LEMMA ApiStart == ApiInit => ApiInv
<1> SUFFICES ASSUME ApiInit PROVE ApiInv
  OBVIOUS
<1> USE DashboardApiAssumption DEF ApiInit
<1>1. ApiTypeOK
  BY DEF ApiTypeOK, RequestStates, Replies
<1>2. AboutInv
  BY DEF AboutInv, NoRequest
<1>3. KeysInv
  <2>1. KeySet = {} /\ Len(acknowledged) = 0
    BY DEF KeySet
  <2> QED BY <2>1, FS_EmptySet DEF KeysInv, NoRequest
<1>4. BeatsInv
  BY DEF BeatsInv, NoRequest
<1> QED BY <1>1, <1>2, <1>3, <1>4 DEF ApiInv

\* A request goes on to x, or is answered with y: what the invariant asks of the two.
NewState(r, x) ==
  /\ x \in RequestStates
  /\ x.at = "store" => x.text.about = x.message
  /\ x.at = "list" => x.key \in KeySet
  /\ x.at = "status" => x.seen <= beats
  /\ x.at # "insight"

\* A step of a request that changes nothing but it and its answer.
LEMMA RequestMoves ==
  ASSUME ApiInv, NEW r \in Requests, NEW x, NEW y, NewState(r, x), y \in Replies,
         request' = [request EXCEPT ![r] = x], reply' = [reply EXCEPT ![r] = y],
         UNCHANGED <<clock, explanations, acknowledged, loopVars>>
  PROVE  ApiInv'
<1>1. /\ request' \in [Requests -> RequestStates] /\ reply' \in [Requests -> Replies]
      /\ \A q \in Requests : request'[q] = IF q = r THEN x ELSE request[q]
  BY DEF ApiInv, ApiTypeOK, NewState
<1>2. ApiTypeOK' /\ BeatsInv'
  BY <1>1 DEF ApiInv, ApiTypeOK, BeatsInv, NewState, loopVars
<1>3. AboutInv'
  BY <1>1 DEF ApiInv, AboutInv, NewState
<1>4. KeySet' = KeySet
  BY DEF KeySet
<1>5. KeysInv'
  BY <1>1, <1>4 DEF ApiInv, KeysInv, NewState
<1> QED BY <1>2, <1>3, <1>5 DEF ApiInv

\* What is known of a request at each of its steps.
LEMMA RequestFields ==
  ASSUME ApiTypeOK, NEW r \in Requests
  PROVE  /\ request[r] \in RequestStates /\ reply[r] \in Replies
         /\ request[r].at \in {"explain", "ask"} =>
              request[r] \in [at : {"explain", "ask"}, message : Messages]
         /\ request[r].at = "store" =>
              request[r] \in [at : {"store"}, message : Messages, text : Explanations]
         /\ request[r].at \in {"acknowledge", "list"} =>
              request[r] \in [at : {"acknowledge", "list"}, key : Keys]
         /\ request[r].at = "status" =>
              request[r] \in [at : {"status"}, seen : 0..MaxBeats]
         /\ request[r].at = "insight" =>
              request[r] \in [at : {"insight"}, seen : 0..MaxBeats, seq : 0..MaxBeats]
<1>1. request[r] \in RequestStates /\ reply[r] \in Replies
  BY DEF ApiTypeOK
<1> QED BY <1>1 DEF RequestStates, NoRequest

\* The steps of a request that only it sees.
LEMMA QuietStep ==
  ASSUME ApiInv, NEW r \in Requests,
         \/ Arrive(r) \/ Refuse(r) \/ FromCache(r) \/ AskLlm(r) \/ LlmAnswers(r) \/ LlmFails(r)
         \/ ListKeys(r) \/ AnswerStatus(r) \/ StatusFails(r)
  PROVE  ApiInv'
<1> USE DashboardApiAssumption
<1>0. /\ request \in [Requests -> RequestStates] /\ reply \in [Requests -> Replies]
      /\ UNCHANGED <<clock, explanations, acknowledged, loopVars>>
      /\ clock \in 0..MaxTime
      /\ reply = [reply EXCEPT ![r] = reply[r]]
  BY DEF ApiInv, ApiTypeOK, Arrive, Refuse, FromCache, AskLlm, LlmAnswers, LlmFails, ListKeys,
         AnswerStatus, StatusFails
<1>1. NewState(r, NoRequest)
  BY DEF NewState, NoRequest, RequestStates
<1>2. CASE Arrive(r)
  <2>1. PICK x \in RequestStates : /\ x.at \in {"explain", "acknowledge", "status"}
                                   /\ x.at = "status" => x.seen = published
                                   /\ request' = [request EXCEPT ![r] = x]
    BY <1>2 DEF Arrive
  <2>2. NewState(r, x)
    BY <2>1 DEF NewState, ApiInv, BeatsInv
  <2>3. NoReply \in Replies /\ reply' = [reply EXCEPT ![r] = NoReply]
    BY <1>2 DEF Arrive, Replies
  <2> QED BY <1>0, <2>1, <2>2, <2>3, RequestMoves
<1>3. CASE Refuse(r) \/ LlmFails(r) \/ StatusFails(r)
  <2>1. PICK y \in Replies : Respond(r, y)
    BY <1>3 DEF Refuse, LlmFails, StatusFails, Replies
  <2> QED BY <1>0, <1>1, <2>1, RequestMoves DEF Respond
<1>4. CASE FromCache(r)
  <2> DEFINE m == request[r].message
             y == [kind |-> "explanation", message |-> m, text |-> explanations[m].text,
                   cached |-> TRUE]
  <2>1. m \in Messages
    BY <1>4, RequestFields DEF FromCache, ApiInv
  <2>2. explanations[m].text \in Explanations
    BY <1>4, <2>1 DEF FromCache, IsFresh, ApiInv, ApiTypeOK, Entries
  <2>3. y \in Replies
    BY <2>1, <2>2 DEF Replies
  <2>4. Respond(r, y)
    BY <1>4 DEF FromCache
  <2> HIDE DEF y, m
  <2> QED BY <1>0, <1>1, <2>3, <2>4, RequestMoves DEF Respond
<1>5. CASE AskLlm(r)
  <2> DEFINE x == [at |-> "ask", message |-> request[r].message]
  <2>1. request[r].message \in Messages
    BY <1>5, RequestFields DEF AskLlm, ApiInv
  <2>2. NewState(r, x)
    BY <2>1 DEF NewState, RequestStates
  <2>3. request' = [request EXCEPT ![r] = x] /\ reply' = reply
    BY <1>5 DEF AskLlm, Go
  <2> HIDE DEF x
  <2> QED BY <1>0, <2>2, <2>3, RequestMoves, RequestFields DEF ApiInv
<1>6. CASE LlmAnswers(r)
  <2> DEFINE m == request[r].message
             x == [at |-> "store", message |-> m, text |-> [about |-> m, answered |-> clock]]
  <2>1. m \in Messages
    BY <1>6, RequestFields DEF LlmAnswers, ApiInv
  <2>2. NewState(r, x)
    BY <1>0, <2>1 DEF NewState, RequestStates, Explanations
  <2>3. request' = [request EXCEPT ![r] = x] /\ reply' = reply
    BY <1>6 DEF LlmAnswers, Go
  <2> HIDE DEF x
  <2> QED BY <1>0, <2>2, <2>3, RequestMoves, RequestFields DEF ApiInv
<1>7. CASE ListKeys(r)
  <2> DEFINE y == [kind |-> "list", key |-> request[r].key, keys |-> KeySet]
  <2>1. request[r].key \in Keys
    BY <1>7, RequestFields DEF ListKeys, ApiInv
  <2>2. KeySet \subseteq Keys
    BY DEF KeySet, ApiInv, ApiTypeOK
  <2>3. y \in Replies
    BY <2>1, <2>2 DEF Replies
  <2>4. Respond(r, y)
    BY <1>7 DEF ListKeys
  <2> HIDE DEF y
  <2> QED BY <1>0, <1>1, <2>3, <2>4, RequestMoves DEF Respond
<1>8. CASE AnswerStatus(r)
  <2> DEFINE y == [kind |-> "status", seq |-> request[r].seq]
  <2>1. request[r].seq \in 0..MaxBeats
    BY <1>8, RequestFields DEF AnswerStatus, ApiInv
  <2>2. y \in Replies
    BY <2>1 DEF Replies
  <2>3. Respond(r, y)
    BY <1>8 DEF AnswerStatus
  <2> HIDE DEF y
  <2> QED BY <1>0, <1>1, <2>2, <2>3, RequestMoves DEF Respond
<1> QED BY <1>2, <1>3, <1>4, <1>5, <1>6, <1>7, <1>8

\* An answer is stored, over whatever another request stored before it.
LEMMA StoreStep ==
  ASSUME ApiInv, NEW r \in Requests, StoreExplanation(r)
  PROVE  ApiInv'
<1> USE DashboardApiAssumption
<1> DEFINE m == request[r].message
           t == request[r].text
           y == [kind |-> "explanation", message |-> m, text |-> t, cached |-> FALSE]
<1>1. m \in Messages /\ t \in Explanations /\ t.about = m
  BY RequestFields DEF StoreExplanation, ApiInv, AboutInv
<1>2. /\ explanations' = [explanations EXCEPT ![m] = [text |-> t, created |-> clock]]
      /\ request' = [request EXCEPT ![r] = NoRequest] /\ reply' = [reply EXCEPT ![r] = y]
      /\ UNCHANGED <<clock, acknowledged, loopVars>>
  BY DEF StoreExplanation, Respond
<1>3. y \in Replies
  BY <1>1 DEF Replies
<1>4. [text |-> t, created |-> clock] \in Entries
  BY <1>1 DEF ApiInv, ApiTypeOK, Entries
<1> HIDE DEF m, t, y
<1>5. ApiTypeOK'
  BY <1>1, <1>2, <1>3, <1>4 DEF ApiInv, ApiTypeOK, loopVars, RequestStates
<1>6. AboutInv'
  BY <1>1, <1>2 DEF ApiInv, ApiTypeOK, AboutInv, NoRequest
<1>7. KeysInv'
  <2>1. KeySet' = KeySet
    BY <1>2 DEF KeySet
  <2> QED BY <1>2, <2>1 DEF ApiInv, ApiTypeOK, KeysInv, NoRequest
<1>8. BeatsInv'
  BY <1>2 DEF ApiInv, ApiTypeOK, BeatsInv, NoRequest, loopVars
<1> QED BY <1>5, <1>6, <1>7, <1>8 DEF ApiInv

\* A key is added if it is not in the list: one key and one entry more.
LEMMA AcknowledgeStep ==
  ASSUME ApiInv, NEW r \in Requests, Acknowledge(r)
  PROVE  ApiInv'
<1> DEFINE k == request[r].key
           x == [at |-> "list", key |-> k]
<1>1. k \in Keys /\ x \in RequestStates
  BY RequestFields DEF Acknowledge, ApiInv, RequestStates
<1>2. /\ acknowledged' = IF k \in KeySet THEN acknowledged ELSE Append(acknowledged, k)
      /\ request' = [request EXCEPT ![r] = x] /\ reply' = reply
      /\ UNCHANGED <<clock, explanations, loopVars>>
  BY DEF Acknowledge, Go
<1>3. acknowledged \in Seq(Keys)
  BY DEF ApiInv, ApiTypeOK
<1> HIDE DEF k
<1>4. acknowledged' \in Seq(Keys) /\ KeySet' = KeySet \cup {k}
  <2>1. CASE k \in KeySet
    BY <1>2, <1>3, <2>1 DEF KeySet
  <2>2. CASE k \notin KeySet
    BY <1>1, <1>2, <1>3, <2>2 DEF KeySet
  <2> QED BY <2>1, <2>2
<1>5. IsFiniteSet(KeySet') /\ Len(acknowledged') = Cardinality(KeySet')
  <2>1. IsFiniteSet(KeySet) /\ Len(acknowledged) = Cardinality(KeySet)
    BY DEF ApiInv, KeysInv
  <2>2. CASE k \in KeySet
    <3>1. KeySet' = KeySet
      BY <1>4, <2>2
    <3> QED BY <1>2, <2>1, <2>2, <3>1
  <2>3. CASE k \notin KeySet
    <3>1. IsFiniteSet(KeySet \cup {k}) /\ Cardinality(KeySet \cup {k}) = Cardinality(KeySet) + 1
      BY <2>1, <2>3, FS_AddElement
    <3> QED BY <1>2, <1>3, <1>4, <2>1, <2>3, <3>1
  <2> QED BY <2>2, <2>3
<1>6. ApiTypeOK'
  BY <1>1, <1>2, <1>4 DEF ApiInv, ApiTypeOK, loopVars
<1>7. AboutInv'
  BY <1>2 DEF ApiInv, ApiTypeOK, AboutInv
<1>8. KeysInv'
  <2> SUFFICES ASSUME NEW q \in Requests, request'[q].at = "list"
               PROVE  request'[q].key \in KeySet'
    BY <1>5 DEF KeysInv
  <2>1. CASE q = r
    BY <1>2, <1>4, <2>1 DEF ApiInv, ApiTypeOK
  <2>2. CASE q # r
    BY <1>2, <1>4, <2>2 DEF ApiInv, ApiTypeOK, KeysInv
  <2> QED BY <2>1, <2>2
<1>9. BeatsInv'
  BY <1>2 DEF ApiInv, ApiTypeOK, BeatsInv, loopVars
<1> QED BY <1>6, <1>7, <1>8, <1>9 DEF ApiInv

\* A status takes the number that is out: none of a heartbeat on the bus is above it.
LEMMA StatusStep ==
  ASSUME ApiInv, NEW r \in Requests, TakeStatus(r)
  PROVE  ApiInv'
<1> USE DashboardApiAssumption
<1> DEFINE x == [at |-> "insight", seen |-> request[r].seen, seq |-> beats]
<1>1. request[r].seen \in 0..MaxBeats /\ request[r].seen <= beats /\ beats \in 0..MaxBeats
  <2>1. request[r].at = "status"
    BY DEF TakeStatus
  <2>2. request[r] \in [at : {"status"}, seen : 0..MaxBeats]
    BY <2>1, RequestFields DEF ApiInv
  <2>3. request[r].seen \in 0..MaxBeats
    BY <2>2
  <2>4. request[r].seen <= beats
    <3>1. BeatsInv
      BY DEF ApiInv
    <3>2. \A q \in Requests : request[q].at = "status" => request[q].seen <= beats
      BY ONLY <3>1 DEF BeatsInv
    <3> QED BY ONLY <2>1, <3>2
  <2>5. beats \in 0..MaxBeats
    BY DEF ApiInv, ApiTypeOK
  <2> QED BY <2>3, <2>4, <2>5
<1>2. x \in RequestStates /\ x.at = "insight" /\ x.seen <= x.seq
  BY <1>1 DEF RequestStates
<1>3. /\ request' = [request EXCEPT ![r] = x] /\ reply' = reply
      /\ beats < MaxBeats /\ beats' = beats + 1
      /\ UNCHANGED <<clock, explanations, acknowledged, heartbeat, published>>
  BY DEF TakeStatus, Go
<1> HIDE DEF x
<1>4. /\ request' \in [Requests -> RequestStates]
      /\ \A q \in Requests : request'[q] = IF q = r THEN x ELSE request[q]
  BY <1>2, <1>3 DEF ApiInv, ApiTypeOK
<1>5. ApiTypeOK'
  BY <1>3, <1>4 DEF ApiInv, ApiTypeOK
<1>6. AboutInv'
  BY <1>2, <1>3, <1>4 DEF ApiInv, AboutInv
<1>7. KeysInv'
  <2>1. KeySet' = KeySet
    BY <1>3 DEF KeySet
  <2> QED BY <1>2, <1>3, <1>4, <2>1 DEF ApiInv, KeysInv
<1>8. BeatsInv'
  <2>1. \A q \in Requests : request[q].at = "status" => request[q].seen \in Nat
    BY RequestFields DEF ApiInv
  <2> QED BY <1>2, <1>3, <1>4, <2>1 DEF ApiInv, ApiTypeOK, BeatsInv
<1> QED BY <1>5, <1>6, <1>7, <1>8 DEF ApiInv

\* The steps of the heartbeat loop, and the passing of time.
LEMMA BeatStep ==
  ASSUME ApiInv, TakeBeat \/ PublishBeat \/ ClockTicks
  PROVE  ApiInv'
<1> USE DashboardApiAssumption
<1>1. UNCHANGED <<explanations, acknowledged, request, reply>> /\ KeySet' = KeySet
  BY DEF TakeBeat, PublishBeat, ClockTicks, KeySet
<1>2. /\ clock' \in 0..MaxTime
      /\ beats' \in 0..MaxBeats /\ heartbeat' \in 0..MaxBeats /\ published' \in 0..MaxBeats
      /\ beats <= beats' /\ heartbeat' <= beats' /\ published' <= beats'
      /\ heartbeat' > 0 => published' < heartbeat'
  BY DEF TakeBeat, PublishBeat, ClockTicks, loopVars, ApiInv, ApiTypeOK, BeatsInv
<1>3. ApiTypeOK'
  BY <1>1, <1>2 DEF ApiInv, ApiTypeOK
<1>4. AboutInv' /\ KeysInv'
  BY <1>1 DEF ApiInv, AboutInv, KeysInv
<1>5. BeatsInv'
  <2>1. \A q \in Requests : request[q].at = "status" => request[q].seen \in Nat
    BY RequestFields DEF ApiInv
  <2>2. beats \in Nat /\ beats' \in Nat
    BY <1>2 DEF ApiInv, ApiTypeOK
  <2> QED BY <1>1, <1>2, <2>1, <2>2 DEF ApiInv, BeatsInv
<1> QED BY <1>3, <1>4, <1>5 DEF ApiInv

\* ApiInv holds in every reachable state, for any number of requests.
THEOREM ApiInductive == ApiSpec => []ApiInv
<1>1. ApiInv /\ [ApiNext]_apiVars => ApiInv'
  <2> SUFFICES ASSUME ApiInv, [ApiNext]_apiVars PROVE ApiInv'
    OBVIOUS
  <2>1. CASE ApiNext
    BY <2>1, QuietStep, StoreStep, AcknowledgeStep, StatusStep, BeatStep DEF ApiNext
  <2>2. CASE UNCHANGED apiVars
    BY <2>2 DEF apiVars, ApiInv, ApiTypeOK, AboutInv, KeysInv, KeySet, BeatsInv
  <2> QED BY <2>1, <2>2
<1> QED BY ApiStart, <1>1, PTL DEF ApiSpec

\* The state of the handlers is of its type.
THEOREM ApiTypeCorrect == ApiSpec => []ApiTypeOK
<1>1. ApiInv => ApiTypeOK
  BY DEF ApiInv
<1> QED BY ApiInductive, <1>1, PTL

\* What is answered is about what was asked, from the cache only while it is fresh, and
\* the list of the acknowledged keys has the one asked about and none twice.
THEOREM AnswersAreTrue == ApiSpec => RepliesAreCurrent
<1> DEFINE Current ==
      \A r \in Requests :
        LET x == reply'[r] IN
        /\ x # reply[r] /\ x.kind = "explanation" =>
             /\ x.message = request[r].message /\ x.text.about = x.message
             /\ x.cached => clock < explanations[x.message].created + FreshFor
             /\ explanations'[x.message].text = x.text
        /\ x # reply[r] /\ x.kind = "list" =>
             /\ x.key = request[r].key /\ x.key \in x.keys
             /\ Len(acknowledged) = Cardinality(x.keys)
<1>1. ApiInv /\ [ApiNext]_apiVars => [Current]_apiVars
  <2> SUFFICES ASSUME ApiInv, ApiNext, NEW r \in Requests, reply'[r] # reply[r]
               PROVE  /\ reply'[r].kind = "explanation" =>
                           /\ reply'[r].message = request[r].message
                           /\ reply'[r].text.about = reply'[r].message
                           /\ reply'[r].cached =>
                                clock < explanations[reply'[r].message].created + FreshFor
                           /\ explanations'[reply'[r].message].text = reply'[r].text
                      /\ reply'[r].kind = "list" =>
                           /\ reply'[r].key = request[r].key /\ reply'[r].key \in reply'[r].keys
                           /\ Len(acknowledged) = Cardinality(reply'[r].keys)
    OBVIOUS
  <2>0. reply \in [Requests -> Replies] /\ request \in [Requests -> RequestStates]
    BY DEF ApiInv, ApiTypeOK
  <2>1. PICK q \in Requests :
          \/ Arrive(q) \/ Refuse(q) \/ FromCache(q) \/ AskLlm(q) \/ LlmAnswers(q) \/ LlmFails(q)
          \/ StoreExplanation(q) \/ Acknowledge(q) \/ ListKeys(q)
          \/ TakeStatus(q) \/ AnswerStatus(q) \/ StatusFails(q)
    BY DEF ApiNext, TakeBeat, PublishBeat, ClockTicks
  <2>2. q = r
    BY <2>0, <2>1 DEF Arrive, Refuse, FromCache, AskLlm, LlmAnswers, LlmFails, StoreExplanation,
                      Acknowledge, ListKeys, TakeStatus, AnswerStatus, StatusFails, Respond, Go
  <2>3. CASE Arrive(r) \/ Refuse(r) \/ AskLlm(r) \/ LlmAnswers(r) \/ LlmFails(r)
             \/ Acknowledge(r) \/ TakeStatus(r) \/ AnswerStatus(r) \/ StatusFails(r)
    BY <2>0, <2>3 DEF Arrive, Refuse, AskLlm, LlmAnswers, LlmFails, Acknowledge, TakeStatus,
                      AnswerStatus, StatusFails, Respond, Go, NoReply
  <2>4. CASE FromCache(r)
    <3> DEFINE m == request[r].message
    <3>1. /\ reply'[r] = [kind |-> "explanation", message |-> m, text |-> explanations[m].text,
                          cached |-> TRUE]
          /\ explanations' = explanations
          /\ explanations[m] # NoEntry /\ clock - explanations[m].created < FreshFor
      BY <2>0, <2>4 DEF FromCache, Respond, IsFresh
    <3>2. m \in Messages
      BY <2>4, RequestFields DEF FromCache, ApiInv
    <3>3. explanations[m].text.about = m /\ explanations[m].created \in Nat /\ clock \in Nat
      BY <3>1, <3>2 DEF ApiInv, AboutInv, ApiTypeOK, Entries
    <3> HIDE DEF m
    <3>4. m = request[r].message
      BY DEF m
    <3> QED BY <3>1, <3>3, <3>4, DashboardApiAssumption
  <2>5. CASE StoreExplanation(r)
    <3> DEFINE m == request[r].message
               t == request[r].text
    <3>1. /\ reply'[r] = [kind |-> "explanation", message |-> m, text |-> t, cached |-> FALSE]
          /\ explanations' = [explanations EXCEPT ![m] = [text |-> t, created |-> clock]]
      BY <2>0, <2>5 DEF StoreExplanation, Respond
    <3>2. m \in Messages /\ t.about = m
      BY <2>5, RequestFields DEF StoreExplanation, ApiInv, AboutInv
    <3>3. explanations'[m].text = t
      BY <3>1, <3>2 DEF ApiInv, ApiTypeOK
    <3> QED BY <3>1, <3>2, <3>3
  <2>6. CASE ListKeys(r)
    <3>1. reply'[r] = [kind |-> "list", key |-> request[r].key, keys |-> KeySet]
      BY <2>0, <2>6 DEF ListKeys, Respond
    <3>2. request[r].key \in KeySet /\ Len(acknowledged) = Cardinality(KeySet)
      BY <2>6 DEF ListKeys, ApiInv, KeysInv
    <3> QED BY <3>1, <3>2
  <2> QED BY <2>1, <2>2, <2>3, <2>4, <2>5, <2>6
<1> QED BY ApiInductive, <1>1, PTL DEF ApiSpec, RepliesAreCurrent

\* Heartbeats are numbered upwards, and a status is never behind one that was out when
\* it was asked for.
THEOREM NumbersGoUp == ApiSpec => HeartbeatsGrow
<1> DEFINE Grow ==
      /\ heartbeat > 0 /\ heartbeat' = 0 => published' > published
      /\ \A r \in Requests : reply'[r] # reply[r] /\ reply'[r].kind = "status"
                               => reply'[r].seq >= request[r].seen
<1>1. ApiInv /\ [ApiNext]_apiVars => [Grow]_apiVars
  <2> SUFFICES ASSUME ApiInv, ApiNext PROVE Grow
    OBVIOUS
  <2>0. /\ reply \in [Requests -> Replies] /\ request \in [Requests -> RequestStates]
        /\ beats \in Nat /\ heartbeat \in Nat /\ published \in Nat
        /\ published <= beats /\ (heartbeat > 0 => published < heartbeat)
    BY DEF ApiInv, ApiTypeOK, BeatsInv
  <2>1. ASSUME heartbeat > 0, heartbeat' = 0 PROVE published' > published
    <3>1. heartbeat' # heartbeat
      BY <2>1
    <3>2. PublishBeat
      BY <2>0, <2>1, <3>1
         DEF ApiNext, Arrive, Refuse, FromCache, AskLlm, LlmAnswers, LlmFails, StoreExplanation,
             Acknowledge, ListKeys, TakeStatus, AnswerStatus, StatusFails, TakeBeat,
             ClockTicks, loopVars
    <3> QED BY <2>0, <2>1, <3>2 DEF PublishBeat
  <2>2. ASSUME NEW r \in Requests, reply'[r] # reply[r], reply'[r].kind = "status"
        PROVE  reply'[r].seq >= request[r].seen
    <3>1. PICK q \in Requests :
            \/ Arrive(q) \/ Refuse(q) \/ FromCache(q) \/ AskLlm(q) \/ LlmAnswers(q) \/ LlmFails(q)
            \/ StoreExplanation(q) \/ Acknowledge(q) \/ ListKeys(q)
            \/ TakeStatus(q) \/ AnswerStatus(q) \/ StatusFails(q)
      BY <2>2 DEF ApiNext, TakeBeat, PublishBeat, ClockTicks
    <3>2. q = r /\ AnswerStatus(q)
      BY <2>0, <2>2, <3>1
         DEF Arrive, Refuse, FromCache, AskLlm, LlmAnswers, LlmFails, StoreExplanation,
             Acknowledge, ListKeys, TakeStatus, AnswerStatus, StatusFails, Respond, Go, NoReply
    <3>3. reply'[r] = [kind |-> "status", seq |-> request[r].seq]
      BY <2>0, <3>2 DEF AnswerStatus, Respond
    <3>4. request[r].at = "insight"
      BY <3>2 DEF AnswerStatus
    <3>5. /\ request[r].seen \in Nat /\ request[r].seq \in Nat
          /\ request[r].seen <= request[r].seq
      BY <3>4, RequestFields DEF ApiInv, BeatsInv
    <3> QED BY <3>3, <3>5
  <2> QED BY <2>1, <2>2
<1> QED BY ApiInductive, <1>1, PTL DEF ApiSpec, HeartbeatsGrow

-----------------------------------------------------------------------------
(* Conversation: the prompt                                                *)

\* What is collected for a prompt, and what of it stands before the question.
Piece == [role : Roles, text : Texts, len : Nat, line : BOOLEAN]
Before == [role : Roles, text : Texts \ {"question"}, len : Nat, line : BOOLEAN]
Past == [role : Roles, text : {"said"}, len : Nat, line : BOOLEAN]

\* A table holds what has been said, and never a question that is only asked.
HistoryInv == history \in Seq(Past) /\ content \in Seq(Items)

\* There is a prompt while it is needed: the system prompt is first, the question last
\* and once, and clamp_prompt() has been over it.
Composed(c) ==
  /\ c \in Seq(Piece) /\ Len(c) >= 2
  /\ c[1].text = "system" /\ c[1].len <= MaxSystem
  /\ c[Len(c)].text = "question" /\ c[Len(c)].role = "user"
  /\ \A i \in 1..Len(c) - 1 : c[i].text # "question"

PromptInv ==
  /\ context = << >> => prompt = << >>
  /\ context # << >> => Composed(context) /\ prompt = Clamp(context)
  /\ phase = "complete" \/ (phase = "question" /\ kind = "stream") => context # << >>

ConversationInv == HistoryInv /\ PromptInv

\* Induction over the natural numbers, with a set in the place of a formula: were n
\* not in P, adding one would map the members of P below n into themselves without 0.
LEMMA SetInduction ==
  ASSUME NEW P, 0 \in P, \A n \in Nat : n \in P => n + 1 \in P
  PROVE  Nat \subseteq P
<1> SUFFICES ASSUME NEW n \in Nat, n \notin P PROVE FALSE
  OBVIOUS
<1> PICK Q : Q = P \cap 0..n
  OBVIOUS
<1>1. IsFiniteSet(Q)
  <2>1. 0 \in Int /\ n \in Int
    OBVIOUS
  <2>2. IsFiniteSet(0..n)
    BY <2>1, FS_Interval
  <2> QED BY <2>2, FS_Intersection
<1>2. 0 \in Q /\ Q \subseteq Int
  OBVIOUS
<1>3. /\ IsFiniteSet(Q \ {0}) /\ Cardinality(Q \ {0}) = Cardinality(Q) - 1
      /\ Cardinality(Q) \in Nat
  BY <1>1, <1>2, FS_RemoveElement, FS_CardinalityType
<1> PICK f : f = [x \in Q |-> x + 1]
  OBVIOUS
<1>4. f \in [Q -> Q \ {0}]
  OBVIOUS
<1>5. Cardinality(Q \ {0}) < Cardinality(Q)
  BY <1>3
<1>6. PICK x \in Q, y \in Q : x # y /\ f[x] = f[y]
  BY <1>1, <1>3, <1>4, <1>5, FS_PigeonHole
<1> QED BY <1>2, <1>6

\* A set of numbers up to n has a greatest one.
LEMMA MaxOfSome ==
  ASSUME NEW n \in Nat, NEW S \in SUBSET (0..n), S # {}
  PROVE  Max(S) \in S /\ \A y \in S : y <= Max(S)
<1> PICK P : P = {k \in Nat : \A T \in SUBSET (0..k) :
                                T # {} => \E x \in T : \A y \in T : x >= y}
  OBVIOUS
<1>1. 0 \in P
  <2>1. 0..0 = {0}
    OBVIOUS
  <2>2. ASSUME NEW T \in SUBSET {0}, T # {} PROVE 0 \in T /\ \A y \in T : 0 >= y
    <3>1. T \subseteq {0} /\ \E y \in T : TRUE
      BY <2>2, Zenon
    <3> QED BY <3>1
  <2> QED BY <2>1, <2>2
<1>2. ASSUME NEW k \in Nat, k \in P PROVE k + 1 \in P
  <2> SUFFICES ASSUME NEW T \in SUBSET (0..k + 1), T # {}
               PROVE  \E x \in T : \A y \in T : x >= y
    OBVIOUS
  <2>1. CASE k + 1 \in T
    BY <2>1
  <2>2. CASE k + 1 \notin T
    <3>1. T \in SUBSET (0..k)
      BY <2>2
    <3> QED BY <1>2, <3>1
  <2> QED BY <2>1, <2>2
<1>3. n \in P
  BY <1>1, <1>2, SetInduction
<1>4. \E x \in S : \A y \in S : x >= y
  BY <1>3
<1> QED BY <1>4 DEF Max

\* The sums clamp_prompt() begins with.
LEMMA TotalOfNone == Total(<< >>) = 0
<1> DEFINE it == CHOOSE g : g = [n \in 0..0 |->
                   IF n = 0 THEN 0 ELSE g[n - 1] + << >>[n].len]
<1>1. Total(<< >>) = it[0]
  <2>1. Len(<< >>) = 0
    OBVIOUS
  <2> QED BY <2>1 DEF Total
<1>2. \E g : g = [n \in 0..0 |-> IF n = 0 THEN 0 ELSE g[n - 1] + << >>[n].len]
  <2> WITNESS [n \in 0..0 |-> 0]
  <2> QED OBVIOUS
<1>3. it = [n \in 0..0 |-> IF n = 0 THEN 0 ELSE it[n - 1] + << >>[n].len]
  BY <1>2
<1> QED BY <1>1, <1>3

\* And those with one message in them.
LEMMA TotalOfOne ==
  ASSUME NEW m, m.len \in Nat
  PROVE  Total(<<m>>) = m.len
<1> DEFINE it == CHOOSE g : g = [n \in 0..1 |->
                   IF n = 0 THEN 0 ELSE g[n - 1] + <<m>>[n].len]
<1>1. Total(<<m>>) = it[1]
  <2>1. Len(<<m>>) = 1
    OBVIOUS
  <2> QED BY <2>1 DEF Total
<1>2. \E g : g = [n \in 0..1 |-> IF n = 0 THEN 0 ELSE g[n - 1] + <<m>>[n].len]
  <2> WITNESS [n \in 0..1 |-> IF n = 0 THEN 0 ELSE m.len]
  <2> QED OBVIOUS
<1>3. it = [n \in 0..1 |-> IF n = 0 THEN 0 ELSE it[n - 1] + <<m>>[n].len]
  BY <1>2
<1> HIDE DEF it
<1>4. it[0] = 0 /\ it[1] = it[0] + <<m>>[1].len
  BY <1>3
<1> QED BY <1>1, <1>4

\* A message cut to MaxInput is of the same sort and role.
LEMMA ShortenedType ==
  ASSUME NEW c \in Seq(Piece)
  PROVE  /\ ShortenedAll(c) \in Seq(Piece) /\ Len(ShortenedAll(c)) = Len(c)
         /\ \A i \in 1..Len(c) :
              /\ ShortenedAll(c)[i].text = c[i].text /\ ShortenedAll(c)[i].role = c[i].role
              /\ ShortenedAll(c)[i].line = c[i].line
              /\ ShortenedAll(c)[i].len <= MaxInput /\ ShortenedAll(c)[i].len <= c[i].len
<1>1. MaxInput \in Nat
  BY ConversationAssumption
<1>2. ASSUME NEW m \in Piece
      PROVE  /\ Shortened(m) \in Piece /\ Shortened(m).text = m.text /\ Shortened(m).role = m.role
             /\ Shortened(m).line = m.line
             /\ Shortened(m).len <= MaxInput /\ Shortened(m).len <= m.len
  BY <1>1 DEF Shortened, Piece
<1>3. DOMAIN c = 1..Len(c) /\ \A i \in 1..Len(c) : c[i] \in Piece
  OBVIOUS
<1> QED BY <1>2, <1>3 DEF ShortenedAll

\* clamp_prompt() keeps at least the system prompt, and all exactly if there is room.
LEMMA ClampKeeps ==
  ASSUME NEW c, Composed(c)
  PROVE  \E k \in 1..Len(c) :
           /\ Clamp(c) = SubSeq(ShortenedAll(c), 1, k)
           /\ Total(Clamp(c)) <= MaxTotal
           /\ k = Len(c) <=> RoomForAll(c)
<1> PICK s : s = ShortenedAll(c)
  OBVIOUS
<1> PICK K : K = {n \in 0..Len(c) : Total(SubSeq(s, 1, n)) <= MaxTotal}
  OBVIOUS
<1>1. /\ c \in Seq(Piece) /\ Len(c) \in Nat /\ Len(c) >= 2 /\ c[1] \in Piece
      /\ c[1].len <= MaxSystem /\ c[1].len \in Nat
  <2>1. c \in Seq(Piece) /\ Len(c) \in Nat /\ Len(c) >= 2 /\ c[1].len <= MaxSystem
    BY DEF Composed
  <2>2. c[1] \in Piece
    BY <2>1
  <2>3. c[1].len \in Nat
    BY <2>2 DEF Piece
  <2> QED BY <2>1, <2>2, <2>3
<1>2. /\ s \in Seq(Piece) /\ Len(s) = Len(c) /\ s[1].len <= c[1].len /\ s[1].len \in Nat
  <2>1. s \in Seq(Piece) /\ Len(s) = Len(c) /\ s[1].len <= c[1].len
    BY <1>1, ShortenedType
  <2>2. s[1] \in Piece
    BY <1>1, <2>1
  <2>3. s[1].len \in Nat
    BY <2>2 DEF Piece
  <2> QED BY <2>1, <2>3
<1>3. MaxTotal \in Nat /\ MaxSystem \in Nat /\ MaxInput \in Nat /\ MaxSystem <= MaxTotal
  BY ConversationAssumption
<1>4. 1 \in K
  <2>1. SubSeq(s, 1, 1) = <<s[1]>>
    <3>1. SubSeq(s, 1, 1) \in Seq(Piece) /\ Len(SubSeq(s, 1, 1)) = 1
          /\ SubSeq(s, 1, 1)[1] = s[1]
      BY <1>1, <1>2
    <3>2. \A t \in Seq(Piece) : Len(t) = 1 => t = <<t[1]>>
      OBVIOUS
    <3> QED BY <3>1, <3>2
  <2>2. Total(SubSeq(s, 1, 1)) = s[1].len
    BY <1>2, <2>1, TotalOfOne
  <2> QED BY <1>1, <1>2, <1>3, <2>2
<1>5. Max(K) \in K /\ \A y \in K : y <= Max(K)
  BY <1>1, <1>4, MaxOfSome
<1>6. Clamp(c) = SubSeq(s, 1, Max(K))
  BY DEF Clamp
<1>7. SubSeq(s, 1, Len(c)) = s
  BY <1>1, <1>2
<1>8. RoomForAll(c) <=> Len(c) \in K
  <2>1. Len(c) \in K <=> Total(SubSeq(s, 1, Len(c))) <= MaxTotal
    BY <1>1
  <2> QED BY <1>7, <2>1 DEF RoomForAll
<1>9. Max(K) \in 1..Len(c)
  BY <1>1, <1>4, <1>5
<1>10. Max(K) = Len(c) <=> Len(c) \in K
  BY <1>1, <1>5
<1> QED BY <1>5, <1>6, <1>8, <1>9, <1>10

\* What of a composed prompt is sent.
LEMMA ClampShape ==
  ASSUME NEW c, Composed(c), NEW p, p = Clamp(c)
  PROVE  /\ p \in Seq(Piece) /\ Len(p) >= 1 /\ p[1].text = "system"
         /\ Total(p) <= MaxTotal
         /\ \A i \in 1..Len(p) : p[i].len <= MaxInput
         /\ IsPrefix(p, ShortenedAll(c))
         /\ RoomForAll(c) => /\ p[Len(p)].text = "question" /\ p[Len(p)].role = "user"
                            /\ p[Len(p)].line = Last(c).line
         /\ RoomForAll(c) => \A i \in 1..Len(p) - 1 : p[i].text # "question"
         /\ ~RoomForAll(c) => \A i \in 1..Len(p) : p[i].text # "question"
<1> PICK s : s = ShortenedAll(c)
  OBVIOUS
<1>1. /\ s \in Seq(Piece) /\ Len(s) = Len(c) /\ Len(c) \in Nat
      /\ \A i \in 1..Len(c) : /\ s[i].text = c[i].text /\ s[i].role = c[i].role
                              /\ s[i].line = c[i].line /\ s[i].len <= MaxInput
  BY ShortenedType DEF Composed
<1>2. PICK k \in 1..Len(c) :
        /\ p = SubSeq(s, 1, k) /\ Total(p) <= MaxTotal /\ (k = Len(c) <=> RoomForAll(c))
  BY ClampKeeps
<1>3. p \in Seq(Piece) /\ Len(p) = k /\ \A i \in 1..k : p[i] = s[i]
  BY <1>1, <1>2
<1>4. IsPrefix(p, s)
  <2>1. SubSeq(p, 1, Len(p)) = p
    BY <1>3
  <2> QED BY <1>1, <1>2, <1>3, <2>1 DEF IsPrefix
<1>5. p[1].text = "system"
  BY <1>1, <1>2, <1>3 DEF Composed
<1>6. RoomForAll(c) => /\ p[Len(p)].text = "question" /\ p[Len(p)].role = "user"
                       /\ p[Len(p)].line = Last(c).line
  BY <1>1, <1>2, <1>3 DEF Composed, Last
<1>7. /\ RoomForAll(c) => \A i \in 1..Len(p) - 1 : p[i].text # "question"
      /\ ~RoomForAll(c) => \A i \in 1..Len(p) : p[i].text # "question"
  <2>1. \A i \in 1..Len(c) - 1 : c[i].text # "question"
    BY DEF Composed
  <2>2. \A i \in 1..k : p[i].text = c[i].text
    BY <1>1, <1>3
  <2>3. \A i \in 1..k : i # Len(c) => p[i].text # "question"
    BY <1>1, <2>1, <2>2
  <2>4. RoomForAll(c) => \A i \in 1..Len(p) - 1 : p[i].text # "question"
    BY <1>1, <1>2, <1>3, <2>3
  <2>5. ~RoomForAll(c) => \A i \in 1..Len(p) : p[i].text # "question"
    BY <1>1, <1>2, <1>3, <2>3
  <2> QED BY <2>4, <2>5
<1> QED BY <1>1, <1>2, <1>3, <1>4, <1>5, <1>6, <1>7

\* The fallback takes the question for the question if it is there at all and does not
\* begin like a line.
LEMMA TakenIsQuestion ==
  ASSUME NEW c, Composed(c)
  PROVE  (TakenForQuestion(Clamp(c)) = "question") <=> RoomForAll(c) /\ ~Last(c).line
<1> PICK p : p = Clamp(c)
  OBVIOUS
<1> PICK A : A = {i \in DOMAIN p : p[i].role = "user" /\ ~p[i].line}
  OBVIOUS
<1>1. /\ p \in Seq(Piece) /\ Len(p) \in Nat /\ Len(p) >= 1 /\ DOMAIN p = 1..Len(p)
      /\ RoomForAll(c) => /\ p[Len(p)].text = "question" /\ p[Len(p)].role = "user"
                         /\ p[Len(p)].line = Last(c).line
                         /\ \A i \in 1..Len(p) - 1 : p[i].text # "question"
      /\ ~RoomForAll(c) => \A i \in 1..Len(p) : p[i].text # "question"
  BY ClampShape
<1>2. TakenForQuestion(p) = IF A = {} THEN "blank" ELSE p[Max(A)].text
  BY DEF TakenForQuestion
<1>3. A \in SUBSET (0..Len(p)) /\ A \subseteq 1..Len(p)
  BY <1>1
<1>4. A # {} => Max(A) \in A /\ \A y \in A : y <= Max(A)
  BY <1>1, <1>3, MaxOfSome
<1>5. CASE RoomForAll(c) /\ ~Last(c).line
  <2>1. Len(p) \in A
    BY <1>1, <1>5
  <2>2. Max(A) = Len(p)
    <3>1. Max(A) \in 1..Len(p) /\ Len(p) <= Max(A)
      BY <1>3, <1>4, <2>1
    <3> QED BY <1>1, <3>1
  <2> QED BY <1>1, <1>2, <1>5, <2>1, <2>2
<1>6. CASE ~RoomForAll(c)
  BY <1>1, <1>2, <1>3, <1>4, <1>6
<1>7. CASE RoomForAll(c) /\ Last(c).line
  <2>1. Len(p) \notin A
    BY <1>1, <1>7
  <2>2. \A i \in A : i \in 1..Len(p) - 1
    BY <1>1, <1>3, <2>1
  <2> QED BY <1>1, <1>2, <1>4, <1>7, <2>2
<1> QED BY <1>5, <1>6, <1>7

\* Whatever load_context() could read, the prompt is composed as it should be.
LEMMA CollectedIsComposed ==
  ASSUME NEW past \in Seq(Before), NEW system \in 1..MaxSystem, NEW metrics \in Seq(Before),
         NEW logs \in Seq(Before), NEW q \in Piece, q.text = "question", q.role = "user"
  PROVE  Composed(Collected(past, system, metrics, logs, q))
<1> PICK a : a = Text("system", "system", system)
  OBVIOUS
<1> PICK b : b = <<a>> \o past \o metrics \o logs
  OBVIOUS
<1> PICK c : c = b \o <<q>>
  OBVIOUS
<1>1. a \in Before /\ a.text = "system" /\ a.len <= MaxSystem
  BY ConversationAssumption DEF Text, Before, Roles, Texts
<1>3. b \in Seq(Before) /\ Len(b) >= 1 /\ b[1] = a
  <2> PICK b1 : b1 = <<a>> \o past
    OBVIOUS
  <2>1. b1 \in Seq(Before) /\ Len(b1) >= 1 /\ b1[1] = a
    BY <1>1
  <2> PICK b2 : b2 = b1 \o metrics
    OBVIOUS
  <2>2. b2 \in Seq(Before) /\ Len(b2) >= 1 /\ b2[1] = a
    BY <2>1
  <2>3. b = b2 \o logs
    OBVIOUS
  <2> QED BY <2>2, <2>3
<1>4. /\ \A i \in 1..Len(b) : b[i] \in Before
      /\ \A x \in Before : x \in Piece /\ x.text # "question"
  <2>1. \A i \in 1..Len(b) : b[i] \in Before
    BY <1>3
  <2>2. \A x \in Before : x \in Piece /\ x.text # "question"
    BY DEF Before, Piece
  <2> QED BY <2>1, <2>2
<1>5. b \in Seq(Piece)
  BY <1>3, <1>4
<1>6. /\ c \in Seq(Piece) /\ Len(c) = Len(b) + 1 /\ c[Len(c)] = q
      /\ \A i \in 1..Len(b) : c[i] = b[i]
  BY <1>5
<1>7. Composed(c)
  BY <1>1, <1>3, <1>4, <1>6 DEF Composed
<1> QED BY <1>7 DEF Collected

\* A conversation begins with no prompt.
LEMMA ConversationInit == Init => ConversationInv
  BY DEF Init, ConversationInv, HistoryInv, PromptInv

\* A sequence over a set is one over a wider set.
LEMMA WiderSeq ==
  ASSUME NEW S, NEW T, S \subseteq T, NEW s \in Seq(S)
  PROVE  s \in Seq(T)
<1>1. Len(s) \in Nat /\ s \in [1..Len(s) -> S]
  OBVIOUS
<1>2. s \in [1..Len(s) -> T]
  BY <1>1
<1> QED BY <1>1, <1>2

\* A turn begins.
LEMMA AskStep == ConversationInv /\ Ask => ConversationInv'
<1> SUFFICES ASSUME ConversationInv, Ask PROVE ConversationInv'
  OBVIOUS
<1>1. PICK k \in {"ask", "stream"}, past \in {<<>>, history}, system \in 1..MaxSystem,
           metrics \in {<<>>, <<Text("user", "metrics", 1)>>},
           lengths \in BoundedSeq(1..MaxInput + 1, MaxLogs),
           asked \in ByUser("question", 0..MaxInput + 1) :
        AskWith(k, past, system, metrics,
                [i \in DOMAIN lengths |-> Text("user", "log", lengths[i])], asked)
  BY DEF Ask
<1> PICK logs : logs = [i \in DOMAIN lengths |-> Text("user", "log", lengths[i])]
  OBVIOUS
<1>2. MaxInput \in Nat /\ MaxLogs \in Nat
  BY ConversationAssumption
<1>3. past \in Seq(Before)
  <2>1. Past \subseteq Before
    BY DEF Past, Before, Texts
  <2>2. history \in Seq(Before)
    BY <2>1, WiderSeq DEF ConversationInv, HistoryInv
  <2>3. << >> \in Seq(Before)
    OBVIOUS
  <2> QED BY <2>2, <2>3
<1>4. metrics \in Seq(Before)
  <2>1. Text("user", "metrics", 1) \in Before
    BY DEF Text, Before, Roles, Texts
  <2>2. <<Text("user", "metrics", 1)>> \in Seq(Before) /\ << >> \in Seq(Before)
    BY <2>1
  <2> QED BY <2>2
<1>5. logs \in Seq(Before)
  <2>1. PICK m \in 0..MaxLogs : lengths \in [1..m -> 1..MaxInput + 1]
    BY <1>2 DEF BoundedSeq, SeqOf
  <2>2. \A i \in 1..m : Text("user", "log", lengths[i]) \in Before
    BY <1>2, <2>1 DEF Text, Before, Roles, Texts
  <2>3. logs \in [1..m -> Before] /\ m \in Nat
    BY <1>2, <2>1, <2>2
  <2> QED BY <2>3
<1>6. asked \in Piece /\ asked.text = "question" /\ asked.role = "user"
  BY <1>2 DEF ByUser, Piece, Roles, Texts
<1>7. Composed(Collected(past, system, metrics, logs, asked))
  BY <1>3, <1>4, <1>5, <1>6, CollectedIsComposed
<1>8. /\ context' = Collected(past, system, metrics, logs, asked)
      /\ prompt' = Clamp(context') /\ history' = history /\ content' = << >>
  BY <1>1 DEF AskWith
<1>9. context' # << >>
  <2>1. Len(context') >= 2
    BY <1>7, <1>8 DEF Composed
  <2> QED BY <2>1
<1> QED BY <1>7, <1>8, <1>9 DEF ConversationInv, HistoryInv, PromptInv

\* The other steps leave the prompt as it is, or drop it once it has been used.
LEMMA TurnStep == ConversationInv /\ [Next]_vars => ConversationInv'
<1> SUFFICES ASSUME ConversationInv, [Next]_vars PROVE ConversationInv'
  OBVIOUS
<1> USE DEF ConversationInv, HistoryInv, PromptInv
<1>1. CASE Ask
  BY <1>1, AskStep
<1>2. CASE StoreQuestion
  <2>1. PICK said \in ByUser("said", 0..MaxInput) : history' = Append(history, said)
    BY <1>2 DEF StoreQuestion
  <2>2. said \in Past
    BY ConversationAssumption DEF ByUser, Past, Roles
  <2>3. history' \in Seq(Past)
    BY <2>1, <2>2
  <2> QED BY <1>2, <2>3 DEF StoreQuestion, turnVars, promptVars, replyVars
<1>3. CASE StoreReply
  <2>1. PICK len \in ReplyLengths : history' = Append(history, Text("assistant", "said", len))
    BY <1>3 DEF StoreReply
  <2>2. len \in Nat
    BY ConversationAssumption DEF ReplyLengths
  <2>3. Text("assistant", "said", len) \in Past
    BY <2>2 DEF Text, Past, Roles
  <2>4. history' \in Seq(Past)
    BY <2>1, <2>3
  <2> QED BY <1>3, <2>4 DEF StoreReply, turnVars, promptVars, replyVars
<1>4. CASE StreamNext
  <2>1. PICK item \in Items : content' = content \/ content' = Append(content, item)
    BY <1>4 DEF StreamNext, Receive
  <2>2. content' \in Seq(Items)
    BY <2>1
  <2>3. phase' \in {"streaming", "reply"}
    BY <1>4 DEF StreamNext, Receive
  <2> QED BY <1>4, <2>2, <2>3 DEF StreamNext, turnVars, promptVars
<1>5. CASE Fail \/ Complete \/ Fallback \/ StartStream
  BY <1>5 DEF Fail, Complete, Fallback, StartStream, PromptUsed, turnVars, replyVars
<1>6. CASE StreamEnds \/ Leave
  BY <1>6 DEF StreamEnds, Leave, turnVars, promptVars, replyVars
<1>7. CASE UNCHANGED vars
  BY <1>7 DEF vars, turnVars, promptVars, replyVars
<1> QED BY <1>1, <1>2, <1>3, <1>4, <1>5, <1>6, <1>7 DEF Next

\* ConversationInv holds in every reachable state.
THEOREM ConversationInductive == Spec => []ConversationInv
  BY ConversationInit, TurnStep, PTL DEF Spec

\* However long the conversation has grown, what is sent to the LLM is not empty, begins
\* with the system prompt and is within both limits.
THEOREM PromptsFit == Spec => []PromptFits
<1>1. ConversationInv => PromptFits
  <2> SUFFICES ASSUME ConversationInv, phase = "complete"
               PROVE  /\ prompt # << >> /\ prompt[1].text = "system" /\ Total(prompt) <= MaxTotal
                      /\ \A i \in DOMAIN prompt : prompt[i].len <= MaxInput
    BY DEF PromptFits
  <2>1. Composed(context) /\ prompt = Clamp(context)
    BY DEF ConversationInv, PromptInv
  <2>2. /\ prompt \in Seq(Piece) /\ Len(prompt) >= 1 /\ prompt[1].text = "system"
        /\ Total(prompt) <= MaxTotal /\ \A i \in 1..Len(prompt) : prompt[i].len <= MaxInput
    BY <2>1, ClampShape
  <2> QED BY <2>2
<1> QED BY <1>1, ConversationInductive, PTL

\* The question reaches the LLM exactly while all that was collected has room.
THEOREM QuestionsAreSent == Spec => []QuestionSentWhileRoom
<1>1. ConversationInv => QuestionSentWhileRoom
  <2> SUFFICES ASSUME ConversationInv, context # << >>
               PROVE  /\ IsPrefix(prompt, ShortenedAll(context))
                      /\ (Last(prompt).text = "question") <=> RoomForAll(context)
    BY DEF QuestionSentWhileRoom
  <2>1. Composed(context) /\ prompt = Clamp(context)
    BY DEF ConversationInv, PromptInv
  <2>2. /\ prompt \in Seq(Piece) /\ Len(prompt) >= 1
        /\ IsPrefix(prompt, ShortenedAll(context))
        /\ RoomForAll(context) => prompt[Len(prompt)].text = "question"
        /\ ~RoomForAll(context) => \A i \in 1..Len(prompt) : prompt[i].text # "question"
    BY <2>1, ClampShape
  <2> QED BY <2>2 DEF Last
<1> QED BY <1>1, ConversationInductive, PTL

\* The fallback answers the question it was asked under the same condition, if it does
\* not begin like a line, and an earlier message, or a log, otherwise.
THEOREM FallbackFindsTheQuestion == Spec => FallbackAnswersQuestion
<1>1. ConversationInv /\ [Next]_vars =>
        (phase = "complete" /\ replied' # replied =>
           ((replied' = "question") <=> RoomForAll(context) /\ ~Last(context).line))
  <2> SUFFICES ASSUME ConversationInv, [Next]_vars, phase = "complete", replied' # replied
               PROVE  (replied' = "question") <=> RoomForAll(context) /\ ~Last(context).line
    OBVIOUS
  <2>1. Fallback
    BY DEF Next, vars, turnVars, Ask, AskWith, StoreQuestion, StoreReply, Fail, Complete,
           StartStream, StreamNext, StreamEnds, Leave
  <2>2. Composed(context) /\ prompt = Clamp(context)
    BY DEF ConversationInv, PromptInv
  <2> QED BY <2>1, <2>2, TakenIsQuestion DEF Fallback
<1>2. ConversationInv /\ [Next]_vars =>
        [phase = "complete" /\ replied' # replied =>
           ((replied' = "question") <=> RoomForAll(context) /\ ~Last(context).line)]_vars
  BY <1>1
<1> QED BY <1>2, ConversationInductive, PTL DEF Spec, FallbackAnswersQuestion

\* A set of numbers up to n has a least one.
LEMMA MinOfSome ==
  ASSUME NEW n \in Nat, NEW S \in SUBSET (0..n), S # {}
  PROVE  Min(S) \in S /\ \A y \in S : Min(S) <= y
<1> PICK x \in S : TRUE
  OBVIOUS
<1> PICK P : P = {k \in Nat : \A y \in S : y >= k}
  OBVIOUS
<1> SUFFICES ASSUME ~\E z \in S : \A y \in S : z =< y PROVE FALSE
  BY DEF Min
<1>1. 0 \in P
  OBVIOUS
<1>2. ASSUME NEW k \in Nat, k \in P PROVE k + 1 \in P
  <2>1. k \notin S
    BY <1>2
  <2> QED BY <1>2, <2>1
<1>3. Nat \subseteq P
  BY <1>1, <1>2, SetInduction
<1> QED BY <1>3, x + 1 \in Nat

-----------------------------------------------------------------------------
(* Recursive functions on the places of a sequence                         *)

\* f is the recursive function with this base and this step for each place.
IsRecursive(f, S, base, n, step) ==
  /\ f \in [0..n -> S]
  /\ f[0] = base
  /\ \A k \in 1..n : f[k] = step[k][f[k - 1]]

\* g is like it as long as it stays within S.
Follows(g, S, base, n, step) ==
  /\ g[0] = base
  /\ \A k \in 1..n : g[k - 1] \in S => g[k] = step[k][g[k - 1]]

\* There is one.
LEMMA RecursionExists ==
  ASSUME NEW S, NEW base \in S, NEW n \in Nat, NEW step \in [1..n -> [S -> S]]
  PROVE  \E f : IsRecursive(f, S, base, n, step)
<1> PICK P : P = {k \in Nat : k <= n => \E f \in [0..k -> S] :
                     f[0] = base /\ \A i \in 1..k : f[i] = step[i][f[i - 1]]}
  OBVIOUS
<1>0. \A k \in Nat : k \in P <=> (k <= n => \E f \in [0..k -> S] :
                     f[0] = base /\ \A i \in 1..k : f[i] = step[i][f[i - 1]])
  BY Zenon
<1>1. 0 \in P
  <2> PICK f : f = [i \in 0..0 |-> base]
    OBVIOUS
  <2>1. f \in [0..0 -> S] /\ f[0] = base
    OBVIOUS
  <2>2. \A i \in 1..0 : FALSE
    OBVIOUS
  <2> QED BY <1>0, <2>1, <2>2
<1>2. ASSUME NEW k \in Nat, k \in P PROVE k + 1 \in P
  <2>a. k + 1 \in Nat /\ (k + 1 <= n => k <= n)
    OBVIOUS
  <2> SUFFICES ASSUME k + 1 <= n
               PROVE  \E f \in [0..k + 1 -> S] :
                        f[0] = base /\ \A i \in 1..k + 1 : f[i] = step[i][f[i - 1]]
    BY <1>0, <2>a, Zenon
  <2>1. PICK g \in [0..k -> S] : g[0] = base /\ \A i \in 1..k : g[i] = step[i][g[i - 1]]
    BY <1>0, <1>2, <2>a, Zenon
  <2>2. k + 1 \in 1..n /\ g[k] \in S
    BY <2>1
  <2>3. step[k + 1][g[k]] \in S
    BY <2>2
  <2> PICK f : f = [i \in 0..k + 1 |-> IF i = k + 1 THEN step[k + 1][g[k]] ELSE g[i]]
    OBVIOUS
  <2>4. f \in [0..k + 1 -> S]
    BY <2>3
  <2>5. f[0] = base /\ f[k + 1] = step[k + 1][f[k]]
    BY <2>1
  <2>6. ASSUME NEW i \in 1..k + 1 PROVE f[i] = step[i][f[i - 1]]
    <3>1. CASE i = k + 1
      <4>1. i - 1 = k
        BY <3>1
      <4> QED BY <2>5, <3>1, <4>1
    <3>2. CASE i # k + 1
      <4>1. i \in 1..k /\ f[i] = g[i] /\ f[i - 1] = g[i - 1]
        BY <3>2
      <4> QED BY <2>1, <4>1
    <3> QED BY <3>1, <3>2
  <2> QED BY <2>4, <2>5, <2>6
<1>3. n \in P /\ n <= n
  <2>1. Nat \subseteq P
    BY <1>1, <1>2, SetInduction
  <2>2. n <= n
    OBVIOUS
  <2> QED BY <2>1, <2>2, Zenon
<1> QED BY <1>0, <1>3, Zenon DEF IsRecursive

\* And one only.
LEMMA RecursionOnce ==
  ASSUME NEW S, NEW base, NEW n \in Nat, NEW step, NEW f, NEW g,
         IsRecursive(f, S, base, n, step), Follows(g, S, base, n, step)
  PROVE  \A k \in 0..n : g[k] = f[k]
<1>0. /\ f \in [0..n -> S] /\ g[0] = f[0]
      /\ \A k \in 1..n : f[k] = step[k][f[k - 1]]
      /\ \A k \in 1..n : g[k - 1] \in S => g[k] = step[k][g[k - 1]]
  BY DEF IsRecursive, Follows
<1> PICK P : P = {k \in Nat : k <= n => g[k] = f[k]}
  OBVIOUS
<1>1. 0 \in P
  BY <1>0
<1>2. ASSUME NEW k \in Nat, k \in P PROVE k + 1 \in P
  <2> SUFFICES ASSUME k + 1 <= n PROVE g[k + 1] = f[k + 1]
    OBVIOUS
  <2>1. k + 1 \in 1..n /\ (k + 1) - 1 = k /\ g[k] = f[k] /\ f[k] \in S
    BY <1>0, <1>2
  <2>2. f[k + 1] = step[k + 1][f[k]] /\ g[k + 1] = step[k + 1][g[k]]
    BY <1>0, <2>1
  <2> QED BY <2>1, <2>2
<1>3. Nat \subseteq P
  BY <1>1, <1>2, SetInduction
<1> QED BY <1>3

\* What FlattenSeq computes: the sequences up to each place, one after the other.
IsFlat(f, seqs, S) ==
  /\ f \in [0..Len(seqs) -> Seq(S)]
  /\ f[0] = << >>
  /\ \A k \in 1..Len(seqs) : f[k] = f[k - 1] \o seqs[k]

\* FlattenSeq is that function's last value.
LEMMA FlattenIs ==
  ASSUME NEW S, NEW seqs \in Seq(Seq(S))
  PROVE  \E f : IsFlat(f, seqs, S) /\ FlattenSeq(seqs) = f[Len(seqs)]
<1> PICK n : n = Len(seqs)
  OBVIOUS
<1>1. n \in Nat /\ \A k \in 1..n : seqs[k] \in Seq(S)
  OBVIOUS
<1>a. PICK step : step = [k \in 1..n |-> [s \in Seq(S) |-> s \o seqs[k]]]
  OBVIOUS
<1>2. step \in [1..n -> [Seq(S) -> Seq(S)]]
  BY <1>1, <1>a
<1>b. ASSUME NEW k \in 1..n, NEW s \in Seq(S) PROVE step[k][s] = s \o seqs[k]
  <2>1. step[k] = [u \in Seq(S) |-> u \o seqs[k]]
    BY <1>a
  <2> QED BY <2>1
<1>3. << >> \in Seq(S)
  OBVIOUS
<1>c. PICK f : IsRecursive(f, Seq(S), << >>, n, step)
  BY <1>1, <1>2, <1>3, RecursionExists, Zenon
<1>4. /\ f \in [0..n -> Seq(S)] /\ f[0] = << >>
      /\ \A k \in 1..n : f[k] = step[k][f[k - 1]]
  BY <1>c DEF IsRecursive
<1>5. \A k \in 1..n : f[k] = f[k - 1] \o seqs[k]
  <2> SUFFICES ASSUME NEW k \in 1..n PROVE f[k] = f[k - 1] \o seqs[k]
    OBVIOUS
  <2>1. k - 1 \in 0..n
    BY <1>1
  <2>2. f[k - 1] \in Seq(S) /\ f[k] = step[k][f[k - 1]]
    BY <1>4, <2>1
  <2> QED BY <1>b, <2>2
<1>6. IsFlat(f, seqs, S)
  BY <1>4, <1>5 DEF IsFlat
<1>7. CASE n = 0
  <2>1. FlattenSeq(seqs) = seqs
    BY <1>7 DEF FlattenSeq
  <2>2. seqs = << >>
    <3>1. seqs \in Seq(Seq(S)) /\ Len(seqs) = 0
      BY <1>7
    <3> QED BY <3>1
  <2>3. f[n] = seqs
    BY <1>4, <1>7, <2>2
  <2> QED BY <1>6, <2>1, <2>3
<1>8. CASE n # 0
  <2> DEFINE Equation(g) ==
        g = [i \in 1..Len(seqs) |-> IF i = 1 THEN seqs[i] ELSE g[i - 1] \o seqs[i]]
  <2> PICK h : h = [i \in 1..n |-> f[i]]
    OBVIOUS
  <2>1. Equation(h)
    <3>1. \A i \in 1..n : h[i] = IF i = 1 THEN seqs[i] ELSE h[i - 1] \o seqs[i]
      <4> SUFFICES ASSUME NEW i \in 1..n
                   PROVE  h[i] = IF i = 1 THEN seqs[i] ELSE h[i - 1] \o seqs[i]
        OBVIOUS
      <4>1. CASE i = 1
        <5>1. 1 \in 1..n /\ 1 - 1 = 0
          BY <1>1, <1>8
        <5>2. f[1] = f[0] \o seqs[1] /\ seqs[1] \in Seq(S)
          BY <1>1, <1>5, <5>1
        <5>3. f[1] = seqs[1]
          BY <1>4, <5>2
        <5> QED BY <4>1, <5>1, <5>3
      <4>2. CASE i # 1
        <5>1. i - 1 \in 1..n
          BY <1>1, <4>2
        <5> QED BY <1>5, <4>2, <5>1
      <4> QED BY <4>1, <4>2
    <3> QED BY <3>1
  <2>2. ASSUME NEW g, Equation(g) PROVE g = h
    <3> PICK e : e = [i \in 0..n |-> IF i = 0 THEN << >> ELSE g[i]]
      OBVIOUS
    <3>1. ASSUME NEW k \in 1..n, e[k - 1] \in Seq(S) PROVE e[k] = step[k][e[k - 1]]
      <4>1. step[k][e[k - 1]] = e[k - 1] \o seqs[k]
        BY <1>b, <3>1
      <4>2. CASE k = 1
        <5>1. e[1] = seqs[1] /\ e[0] = << >> /\ seqs[1] \in Seq(S)
          BY <1>1, <1>8, <2>2, <4>2
        <5>2. << >> \o seqs[1] = seqs[1]
          BY <5>1
        <5>3. k - 1 = 0
          BY <4>2
        <5> QED BY <4>1, <4>2, <5>1, <5>2, <5>3
      <4>3. CASE k # 1
        <5>1. e[k - 1] = g[k - 1] /\ e[k] = g[k]
          BY <1>1, <4>3
        <5>2. g[k] = g[k - 1] \o seqs[k]
          BY <2>2, <4>3
        <5> QED BY <4>1, <5>1, <5>2
      <4> QED BY <4>2, <4>3
    <3>2. e[0] = f[0]
      BY <1>1, <1>4
    <3>3. \A k \in 0..n : e[k] = f[k]
      <4>1. Follows(e, Seq(S), << >>, n, step)
        BY <1>4, <3>1, <3>2 DEF Follows
      <4> QED BY ONLY <1>1, <1>c, <4>1, RecursionOnce
    <3>4. ASSUME NEW k \in 1..n PROVE g[k] = f[k]
      <4>1. k \in 0..n /\ k # 0
        BY ONLY <1>1, k \in 1..n
      <4>2. e[k] = g[k]
        BY ONLY <4>1, e = [i \in 0..n |-> IF i = 0 THEN << >> ELSE g[i]]
      <4> QED BY ONLY <3>3, <4>1, <4>2
    <3> QED BY <2>2, <3>4
  <2>3. FlattenSeq(seqs) = (CHOOSE g : Equation(g))[Len(seqs)]
    BY <1>8 DEF FlattenSeq
  <2>4. (CHOOSE g : Equation(g)) = h
    BY <2>1, <2>2
  <2> HIDE DEF Equation
  <2>5. h[n] = f[n]
    BY <1>1, <1>8
  <2> QED BY <1>6, <2>3, <2>4, <2>5
<1> QED BY <1>7, <1>8

-----------------------------------------------------------------------------
(* Lines and tokens                                                        *)

\* The bytes of a character of two.
Halves == {"w1", "w2"}

\* The lines, one by one.
LEMMA LineForms ==
  ASSUME NEW l \in Lines
  PROVE  \/ l = <<"a1", "a2">> /\ HasToken(l) /\ TokenIn(l) = "a"
         \/ l = <<"b1", "b2">> /\ HasToken(l) /\ TokenIn(l) = "b"
         \/ l = <<"w1", "w2">> /\ HasToken(l) /\ TokenIn(l) = "w"
         \/ l = <<"s">> /\ ~HasToken(l)
         \/ l = <<"x">> /\ ~HasToken(l)
<1>1. /\ Tokens = {"a", "b", "w"} /\ TokenLines["a"] = <<"a1", "a2">>
      /\ TokenLines["b"] = <<"b1", "b2">> /\ TokenLines["w"] = <<"w1", "w2">>
  BY DEF Tokens, TokenLines
<1>2. Lines = {<<"a1", "a2">>, <<"b1", "b2">>, <<"w1", "w2">>, <<"s">>, <<"x">>}
  BY <1>1 DEF Lines
<1>3. HasToken(l) <=> l \in {<<"a1", "a2">>, <<"b1", "b2">>, <<"w1", "w2">>}
  BY <1>1 DEF HasToken
<1>4. ASSUME NEW t \in Tokens, l = TokenLines[t] PROVE TokenIn(l) = t
  <2>1. \A u \in Tokens : TokenLines[u] = l => u = t
    <3>1. /\ <<"a1", "a2">>[1] = "a1" /\ <<"b1", "b2">>[1] = "b1" /\ <<"w1", "w2">>[1] = "w1"
      OBVIOUS
    <3> QED BY <1>1, <1>4, <3>1
  <2> QED BY <1>4, <2>1 DEF TokenIn
<1>5. <<"s">> \notin {<<"a1", "a2">>, <<"b1", "b2">>, <<"w1", "w2">>}
  <2>1. Len(<<"s">>) = 1 /\ Len(<<"a1", "a2">>) = 2 /\ Len(<<"b1", "b2">>) = 2
        /\ Len(<<"w1", "w2">>) = 2
    OBVIOUS
  <2> QED BY <2>1
<1>6. <<"x">> \notin {<<"a1", "a2">>, <<"b1", "b2">>, <<"w1", "w2">>}
  <2>1. Len(<<"x">>) = 1 /\ Len(<<"a1", "a2">>) = 2 /\ Len(<<"b1", "b2">>) = 2
        /\ Len(<<"w1", "w2">>) = 2
    OBVIOUS
  <2> QED BY <2>1
<1> QED BY <1>1, <1>2, <1>3, <1>4, <1>5, <1>6

\* What is known of the bytes of a line.
LEMMA LineBytes ==
  ASSUME NEW l \in Lines
  PROVE  /\ l \in Seq(Bytes) /\ Len(l) \in {1, 2}
         /\ \A i \in 1..Len(l) : l[i] # Newline /\ l[i] # "?"
         /\ \A i \in 1..Len(l) : l[i] = "w1" => i = 1 /\ Len(l) = 2 /\ l[2] = "w2"
         /\ \A i \in 1..Len(l) : l[i] = "w2" => i = 2 /\ l[1] = "w1"
         /\ HasToken(l) => TokenIn(l) \in Tokens
<1>1. l \in Seq(Bytes)
  <2>a. ASSUME NEW c, NEW d PROVE <<c, d>> \in Seq(ToSet(<<c, d>>))
    <3>1. c \in ToSet(<<c, d>>) /\ d \in ToSet(<<c, d>>)
      BY DEF ToSet
    <3> PICK S : S = ToSet(<<c, d>>)
      OBVIOUS
    <3>2. <<c, d>> \in Seq(S)
      BY <3>1
    <3> QED BY <3>2
  <2>b. ASSUME NEW c PROVE <<c>> \in Seq(ToSet(<<c>>))
    <3>1. c \in ToSet(<<c>>)
      BY DEF ToSet
    <3> PICK S : S = ToSet(<<c>>)
      OBVIOUS
    <3>2. <<c>> \in Seq(S)
      BY <3>1
    <3> QED BY <3>2
  <2>1. l \in Seq(ToSet(l))
    BY <2>a, <2>b, LineForms, Zenon
  <2>2. \A i \in 1..Len(l) : l[i] \in ToSet(l)
    BY <2>1
  <2>3. \A i \in 1..Len(l) : l[i] \in Bytes
    BY <2>2 DEF Bytes
  <2> QED BY <2>1, <2>3
<1>2. Len(l) \in {1, 2}
  BY LineForms
<1>3. /\ \A i \in 1..Len(l) : l[i] # Newline /\ l[i] # "?"
      /\ \A i \in 1..Len(l) : l[i] = "w1" => i = 1 /\ Len(l) = 2 /\ l[2] = "w2"
      /\ \A i \in 1..Len(l) : l[i] = "w2" => i = 2 /\ l[1] = "w1"
  BY LineForms DEF Newline
<1>4. HasToken(l) => TokenIn(l) \in Tokens
  BY LineForms DEF Tokens, TokenLines
<1> QED BY <1>1, <1>2, <1>3, <1>4

\* The tokens of the first k lines, for every k.
IsTokens(f, lines) ==
  /\ f \in [0..Len(lines) -> Seq(Tokens)]
  /\ f[0] = << >>
  /\ \A k \in 1..Len(lines) :
       f[k] = IF HasToken(lines[k]) THEN Append(f[k - 1], TokenIn(lines[k])) ELSE f[k - 1]

\* TokensOf is the last value of the function that gathers them.
LEMMA TokensAre ==
  ASSUME NEW lines \in Seq(Lines)
  PROVE  \E f : IsTokens(f, lines) /\ TokensOf(lines) = f[Len(lines)]
<1> PICK n : n = Len(lines)
  OBVIOUS
<1>1. n \in Nat /\ \A k \in 1..n : lines[k] \in Lines
  OBVIOUS
<1> PICK step : step = [k \in 1..n |-> [s \in Seq(Tokens) |->
                          IF HasToken(lines[k]) THEN Append(s, TokenIn(lines[k])) ELSE s]]
  OBVIOUS
<1>2. ASSUME NEW k \in 1..n, NEW s \in Seq(Tokens)
      PROVE  /\ step[k][s] = IF HasToken(lines[k]) THEN Append(s, TokenIn(lines[k])) ELSE s
             /\ step[k][s] \in Seq(Tokens)
  <2>1. step[k] = [u \in Seq(Tokens) |->
                     IF HasToken(lines[k]) THEN Append(u, TokenIn(lines[k])) ELSE u]
    OBVIOUS
  <2>2. step[k][s] = IF HasToken(lines[k]) THEN Append(s, TokenIn(lines[k])) ELSE s
    BY <2>1
  <2>3. HasToken(lines[k]) => TokenIn(lines[k]) \in Tokens
    BY <1>1, LineBytes
  <2> QED BY <2>2, <2>3
<1>3. step \in [1..n -> [Seq(Tokens) -> Seq(Tokens)]]
  <2>1. ASSUME NEW k \in 1..n PROVE step[k] \in [Seq(Tokens) -> Seq(Tokens)]
    <3>1. \A s \in Seq(Tokens) : step[k][s] \in Seq(Tokens)
      BY <1>2
    <3>2. step[k] = [s \in Seq(Tokens) |-> step[k][s]]
      OBVIOUS
    <3> QED BY <3>1, <3>2
  <2>2. step = [k \in 1..n |-> step[k]]
    OBVIOUS
  <2> QED BY <2>1, <2>2
<1>4. << >> \in Seq(Tokens)
  OBVIOUS
<1>5. PICK f : IsRecursive(f, Seq(Tokens), << >>, n, step)
  BY <1>1, <1>3, <1>4, RecursionExists, Zenon
<1>6. /\ f \in [0..n -> Seq(Tokens)] /\ f[0] = << >>
      /\ \A k \in 1..n : f[k] = step[k][f[k - 1]]
  BY <1>5 DEF IsRecursive
<1>7. ASSUME NEW k \in 1..n
      PROVE  f[k] = IF HasToken(lines[k]) THEN Append(f[k - 1], TokenIn(lines[k])) ELSE f[k - 1]
  <2>1. k - 1 \in 0..n
    BY <1>1
  <2>2. f[k - 1] \in Seq(Tokens) /\ f[k] = step[k][f[k - 1]]
    BY <1>6, <2>1
  <2> QED BY <1>2, <2>2
<1>8. IsTokens(f, lines)
  BY <1>6, <1>7 DEF IsTokens
<1> DEFINE Equation(g) ==
      g = [k \in 0..Len(lines) |->
             IF k = 0 THEN << >>
             ELSE IF HasToken(lines[k]) THEN Append(g[k - 1], TokenIn(lines[k]))
             ELSE g[k - 1]]
<1>9. Equation(f)
  <2>1. \A k \in 0..n : f[k] = IF k = 0 THEN << >>
                               ELSE IF HasToken(lines[k]) THEN Append(f[k - 1], TokenIn(lines[k]))
                               ELSE f[k - 1]
    <3> SUFFICES ASSUME NEW k \in 0..n
                 PROVE  f[k] = IF k = 0 THEN << >>
                               ELSE IF HasToken(lines[k]) THEN Append(f[k - 1], TokenIn(lines[k]))
                               ELSE f[k - 1]
      OBVIOUS
    <3>1. CASE k = 0
      BY <1>6, <3>1
    <3>2. CASE k # 0
      <4>1. k \in 1..n
        BY <3>2
      <4> QED BY <1>7, <3>2, <4>1
    <3> QED BY <3>1, <3>2
  <2> QED BY <1>6, <2>1
<1>10. ASSUME NEW g, Equation(g) PROVE g = f
  <2>1. ASSUME NEW k \in 1..n, g[k - 1] \in Seq(Tokens) PROVE g[k] = step[k][g[k - 1]]
    <3>1. step[k][g[k - 1]] = IF HasToken(lines[k]) THEN Append(g[k - 1], TokenIn(lines[k]))
                              ELSE g[k - 1]
      BY <1>2, <2>1
    <3>2. k \in 0..Len(lines) /\ k # 0
      OBVIOUS
    <3>3. g[k] = IF HasToken(lines[k]) THEN Append(g[k - 1], TokenIn(lines[k])) ELSE g[k - 1]
      BY <1>10, <3>2
    <3> QED BY <3>1, <3>3
  <2>2. g[0] = << >>
    BY <1>10
  <2>3. Follows(g, Seq(Tokens), << >>, n, step)
    BY <2>1, <2>2 DEF Follows
  <2>4. \A k \in 0..n : g[k] = f[k]
    BY ONLY <1>1, <1>5, <2>3, RecursionOnce
  <2>5. DOMAIN g = 0..n /\ g = [k \in 0..n |-> g[k]]
    BY <1>10
  <2> QED BY <1>6, <2>4, <2>5
<1>11. TokensOf(lines) = (CHOOSE g : Equation(g))[Len(lines)]
  BY DEF TokensOf
<1>12. (CHOOSE g : Equation(g)) = f
  BY <1>9, <1>10
<1> HIDE DEF Equation
<1> QED BY <1>8, <1>11, <1>12

\* s is the beginning of t.
Begins(s, t) == Len(s) <= Len(t) /\ \A i \in 1..Len(s) : t[i] = s[i]

\* Where each sequence begins the next, each begins all that come.
LEMMA Beginnings ==
  ASSUME NEW S, NEW n \in Nat, NEW f \in [0..n -> Seq(S)],
         \A k \in 1..n : Begins(f[k - 1], f[k]), NEW j \in 0..n
  PROVE  \A k \in j..n : Begins(f[j], f[k])
<1> PICK P : P = {d \in Nat : j + d <= n => Begins(f[j], f[j + d])}
  OBVIOUS
<1>0. j \in 0..n /\ n \in Nat
  OBVIOUS
<1>1. 0 \in P
  <2>1. f[j] \in Seq(S) /\ j + 0 = j
    OBVIOUS
  <2> QED BY <2>1 DEF Begins
<1>2. ASSUME NEW d \in Nat, d \in P PROVE d + 1 \in P
  <2> SUFFICES ASSUME j + (d + 1) <= n PROVE Begins(f[j], f[j + (d + 1)])
    OBVIOUS
  <2>1. /\ j + d <= n /\ j + (d + 1) \in 1..n /\ (j + (d + 1)) - 1 = j + d
        /\ j + d \in 0..n /\ j + (d + 1) \in 0..n
    BY <1>0
  <2>2. Begins(f[j], f[j + d]) /\ Begins(f[j + d], f[j + (d + 1)])
    BY <1>2, <2>1
  <2>3. f[j] \in Seq(S) /\ f[j + d] \in Seq(S) /\ f[j + (d + 1)] \in Seq(S)
    BY <2>1
  <2> QED BY <2>2, <2>3 DEF Begins
<1>3. Nat \subseteq P
  BY <1>1, <1>2, SetInduction
<1>4. ASSUME NEW k \in j..n PROVE Begins(f[j], f[k])
  <2>1. k - j \in Nat /\ j + (k - j) = k /\ k <= n
    BY <1>0
  <2>2. k - j \in P
    BY <1>3, <2>1
  <2> QED BY <2>1, <2>2
<1> QED BY <1>4

\* The tokens up to one line begin those up to a later one.
LEMMA TokensGrow ==
  ASSUME NEW lines \in Seq(Lines), NEW f, IsTokens(f, lines), NEW j \in 0..Len(lines)
  PROVE  \A k \in j..Len(lines) : Begins(f[j], f[k])
<1> PICK n : n = Len(lines)
  OBVIOUS
<1>1. n \in Nat /\ f \in [0..n -> Seq(Tokens)]
  BY DEF IsTokens
<1>2. ASSUME NEW k \in 1..n PROVE Begins(f[k - 1], f[k])
  <2>0. k - 1 \in 0..n
    BY <1>1
  <2>1. f[k - 1] \in Seq(Tokens)
    BY <1>1, <2>0
  <2>2. f[k] = IF HasToken(lines[k]) THEN Append(f[k - 1], TokenIn(lines[k])) ELSE f[k - 1]
    BY DEF IsTokens
  <2> QED BY <2>1, <2>2 DEF Begins
<1> QED BY <1>1, <1>2, Beginnings

\* The bytes that stand for two halves of a character, and no replacement of one.
HalvesMatch(s) ==
  \A i \in 1..Len(s) :
    /\ s[i] # "?"
    /\ s[i] = "w1" => i + 1 \in 1..Len(s) /\ s[i + 1] = "w2"
    /\ s[i] = "w2" => i - 1 \in 1..Len(s) /\ s[i - 1] = "w1"

\* One sequence after another.
LEMMA Joined ==
  ASSUME NEW S, NEW u \in Seq(S), NEW v \in Seq(S)
  PROVE  /\ u \o v \in Seq(S) /\ Len(u) \in Nat /\ Len(v) \in Nat
         /\ Len(u \o v) = Len(u) + Len(v)
         /\ \A i \in 1..Len(u) : (u \o v)[i] = u[i]
         /\ \A i \in 1..Len(v) : (u \o v)[Len(u) + i] = v[i]
  OBVIOUS

\* Sequences whose halves match have them matched when they are joined.
LEMMA HalvesJoin ==
  ASSUME NEW u \in Seq(Bytes), NEW v \in Seq(Bytes), HalvesMatch(u), HalvesMatch(v)
  PROVE  HalvesMatch(u \o v)
<1>1. /\ Len(u) \in Nat /\ Len(v) \in Nat /\ Len(u \o v) = Len(u) + Len(v)
      /\ \A i \in 1..Len(u) : (u \o v)[i] = u[i]
      /\ \A i \in 1..Len(v) : (u \o v)[Len(u) + i] = v[i]
  BY Joined
<1> PICK t : t = u \o v
  OBVIOUS
<1>2. ASSUME NEW i \in 1..Len(u) + Len(v)
      PROVE  /\ t[i] # "?"
             /\ t[i] = "w1" => i + 1 \in 1..Len(t) /\ t[i + 1] = "w2"
             /\ t[i] = "w2" => i - 1 \in 1..Len(t) /\ t[i - 1] = "w1"
  <2>1. CASE i \in 1..Len(u)
    <3>1. t[i] = u[i] /\ Len(t) = Len(u) + Len(v)
      BY <1>1, <2>1
    <3>2. u[i] = "w1" => t[i + 1] = u[i + 1] /\ i + 1 \in 1..Len(u)
      BY <1>1, <2>1 DEF HalvesMatch
    <3>3. u[i] = "w2" => t[i - 1] = u[i - 1] /\ i - 1 \in 1..Len(u)
      BY <1>1, <2>1 DEF HalvesMatch
    <3> QED BY <1>1, <2>1, <3>1, <3>2, <3>3 DEF HalvesMatch
  <2>2. CASE i \notin 1..Len(u)
    <3> PICK j : j = i - Len(u)
      OBVIOUS
    <3>1. j \in 1..Len(v) /\ i = Len(u) + j
      BY <1>1, <2>2
    <3>2. t[i] = v[j] /\ Len(t) = Len(u) + Len(v)
      BY <1>1, <3>1
    <3>3. v[j] = "w1" => t[i + 1] = v[j + 1] /\ j + 1 \in 1..Len(v) /\ v[j + 1] = "w2"
      <4> SUFFICES ASSUME v[j] = "w1"
                   PROVE  t[i + 1] = v[j + 1] /\ j + 1 \in 1..Len(v) /\ v[j + 1] = "w2"
        OBVIOUS
      <4>1. j + 1 \in 1..Len(v) /\ v[j + 1] = "w2"
        BY <3>1 DEF HalvesMatch
      <4>2. Len(u) + (j + 1) = i + 1
        BY <1>1, <3>1
      <4> QED BY <1>1, <4>1, <4>2
    <3>4. v[j] = "w2" => t[i - 1] = v[j - 1] /\ j - 1 \in 1..Len(v) /\ v[j - 1] = "w1"
      <4> SUFFICES ASSUME v[j] = "w2"
                   PROVE  t[i - 1] = v[j - 1] /\ j - 1 \in 1..Len(v) /\ v[j - 1] = "w1"
        OBVIOUS
      <4>1. j - 1 \in 1..Len(v) /\ v[j - 1] = "w1"
        BY <3>1 DEF HalvesMatch
      <4>2. Len(u) + (j - 1) = i - 1
        BY <1>1, <3>1
      <4> QED BY <1>1, <4>1, <4>2
    <3>5. v[j] # "?"
      BY <3>1 DEF HalvesMatch
    <3> QED BY <1>1, <3>1, <3>2, <3>3, <3>4, <3>5
  <2> QED BY <2>1, <2>2
<1> QED BY <1>1, <1>2 DEF HalvesMatch

\* The halves of a character match in a line, and in a line with its newline.
LEMMA LineHalves ==
  ASSUME NEW l \in Lines
  PROVE  /\ Append(l, Newline) \in Seq(Bytes) /\ HalvesMatch(Append(l, Newline))
         /\ l \in Seq(Bytes) /\ Len(Append(l, Newline)) = Len(l) + 1
         /\ Append(l, Newline)[Len(l) + 1] = Newline
         /\ \A j \in 1..Len(l) : Append(l, Newline)[j] = l[j]
<1>1. Newline \in Bytes /\ Newline \notin {"?", "w1", "w2"}
  <2>1. Newline \in Bytes
    BY Zenon DEF Bytes
  <2> QED BY <2>1 DEF Newline
<1> PICK s : s = Append(l, Newline)
  OBVIOUS
<1>2. /\ s \in Seq(Bytes) /\ Len(s) = Len(l) + 1 /\ s[Len(l) + 1] = Newline
      /\ \A i \in 1..Len(l) : s[i] = l[i]
  BY <1>1, LineBytes
<1>3. /\ Len(l) \in {1, 2} /\ l \in Seq(Bytes)
      /\ \A i \in 1..Len(l) : l[i] # "?"
      /\ \A i \in 1..Len(l) : l[i] = "w1" => i = 1 /\ Len(l) = 2 /\ l[2] = "w2"
      /\ \A i \in 1..Len(l) : l[i] = "w2" => i = 2 /\ l[1] = "w1"
  BY LineBytes
<1>4. HalvesMatch(s)
  <2>1. CASE Len(l) = 1
    BY ONLY <1>1, <1>2, <1>3, <2>1 DEF HalvesMatch
  <2>2. CASE Len(l) = 2
    BY ONLY <1>1, <1>2, <1>3, <2>2 DEF HalvesMatch
  <2> QED BY <1>3, <2>1, <2>2
<1> QED BY <1>2, <1>3, <1>4

\* What is in a body, the last newline with it: where each line ends, and which bytes
\* there are.
IsBody(ends, all, lines) ==
  /\ all \in Seq(Bytes) /\ HalvesMatch(all)
  /\ ends \in [0..Len(lines) -> Nat] /\ ends[0] = 0 /\ Len(all) = ends[Len(lines)]
  /\ \A k \in 0..Len(lines) : ends[k] <= Len(all)
  /\ \A k \in 1..Len(lines) :
       /\ ends[k] = ends[k - 1] + Len(lines[k]) + 1
       /\ \A j \in 1..Len(lines[k]) : all[ends[k - 1] + j] = lines[k][j]
       /\ all[ends[k]] = Newline

\* What the body of a response is made of, line by line.
LEMMA BodyIs ==
  ASSUME NEW lines \in Seq(Lines), NEW f, NEW seqs,
         seqs = [i \in DOMAIN lines |-> Append(lines[i], Newline)],
         IsFlat(f, seqs, Bytes)
  PROVE  IsBody([k \in 0..Len(lines) |-> Len(f[k])], f[Len(lines)], lines)
<1> PICK n : n = Len(lines)
  OBVIOUS
<1> PICK ends : ends = [k \in 0..n |-> Len(f[k])]
  OBVIOUS
<1>1. n \in Nat /\ \A k \in 1..n : lines[k] \in Lines
  OBVIOUS
<1>2. Len(seqs) = n /\ \A k \in 1..n : seqs[k] = Append(lines[k], Newline)
  <2>1. DOMAIN seqs = 1..n /\ seqs = [k \in 1..n |-> seqs[k]]
    OBVIOUS
  <2> QED BY <1>1, <2>1
<1>3. /\ f \in [0..n -> Seq(Bytes)] /\ f[0] = << >>
      /\ \A k \in 1..n : f[k] = f[k - 1] \o seqs[k]
  BY <1>2 DEF IsFlat
<1>4. ends \in [0..n -> Nat] /\ ends[0] = 0 /\ Len(f[n]) = ends[n] /\ f[n] \in Seq(Bytes)
  <2>1. 0 \in 0..n /\ n \in 0..n
    BY ONLY <1>1
  <2>2. \A k \in 0..n : f[k] \in Seq(Bytes) /\ Len(f[k]) \in Nat
    BY ONLY <1>3
  <2>3. ends \in [0..n -> Nat]
    BY ONLY <2>2, ends = [k \in 0..n |-> Len(f[k])]
  <2>4. ends[0] = Len(f[0]) /\ ends[n] = Len(f[n])
    BY ONLY <2>1, ends = [k \in 0..n |-> Len(f[k])]
  <2>5. Len(f[0]) = 0
    BY ONLY <1>3
  <2> QED BY ONLY <2>1, <2>2, <2>3, <2>4, <2>5
<1>5. ASSUME NEW k \in 1..n
      PROVE  /\ f[k - 1] \in Seq(Bytes) /\ f[k] \in Seq(Bytes)
             /\ Len(lines[k]) \in Nat /\ seqs[k] \in Seq(Bytes) /\ HalvesMatch(seqs[k])
             /\ f[k] = f[k - 1] \o seqs[k]
             /\ ends[k - 1] = Len(f[k - 1]) /\ ends[k] = Len(f[k])
             /\ ends[k] = ends[k - 1] + Len(lines[k]) + 1
             /\ Begins(f[k - 1], f[k])
             /\ \A j \in 1..Len(lines[k]) : f[k][ends[k - 1] + j] = lines[k][j]
             /\ f[k][ends[k]] = Newline
  <2>1. k - 1 \in 0..n /\ k \in 0..n /\ lines[k] \in Lines
    BY <1>1
  <2>2. /\ f[k - 1] \in Seq(Bytes) /\ f[k] \in Seq(Bytes) /\ f[k] = f[k - 1] \o seqs[k]
        /\ ends[k - 1] = Len(f[k - 1]) /\ ends[k] = Len(f[k])
    BY <1>3, <2>1
  <2>3. seqs[k] = Append(lines[k], Newline)
    BY <1>2
  <2>4. /\ seqs[k] \in Seq(Bytes) /\ HalvesMatch(seqs[k]) /\ Len(seqs[k]) = Len(lines[k]) + 1
        /\ Len(lines[k]) \in Nat /\ seqs[k][Len(lines[k]) + 1] = Newline
        /\ \A j \in 1..Len(lines[k]) : seqs[k][j] = lines[k][j]
    BY ONLY <2>1, <2>3, LineHalves
  <2> PICK s, t, u, l : s = f[k - 1] /\ t = f[k] /\ u = seqs[k] /\ l = lines[k]
    OBVIOUS
  <2>5. /\ s \in Seq(Bytes) /\ u \in Seq(Bytes) /\ t = s \o u
        /\ Len(u) = Len(l) + 1 /\ Len(l) \in Nat /\ u[Len(l) + 1] = Newline
        /\ \A j \in 1..Len(l) : u[j] = l[j]
    BY <2>2, <2>4
  <2>6. /\ Len(t) = Len(s) + Len(l) + 1 /\ Begins(s, t)
        /\ \A j \in 1..Len(l) : t[Len(s) + j] = l[j]
        /\ t[Len(t)] = Newline
    <3>1. /\ Len(s) \in Nat /\ Len(t) = Len(s) + Len(u)
          /\ \A j \in 1..Len(s) : t[j] = s[j]
          /\ \A j \in 1..Len(u) : t[Len(s) + j] = u[j]
      <4>1. s \in Seq(Bytes) /\ u \in Seq(Bytes) /\ t = s \o u
        BY <2>5
      <4> QED BY ONLY <4>1, Joined
    <3>2. /\ Len(t) = Len(s) + Len(l) + 1
          /\ \A j \in 1..Len(l) : t[Len(s) + j] = l[j]
      BY ONLY <2>5, <3>1
    <3>3. t[Len(s) + (Len(l) + 1)] = Newline /\ Len(t) = Len(s) + (Len(l) + 1)
      BY ONLY <2>5, <3>1
    <3>4. Begins(s, t)
      BY ONLY <2>5, <3>1 DEF Begins
    <3> QED BY <3>2, <3>3, <3>4
  <2> QED BY <2>2, <2>4, <2>6
<1>6. ASSUME NEW k \in 1..n
      PROVE  /\ \A j \in 1..Len(lines[k]) : f[n][ends[k - 1] + j] = lines[k][j]
             /\ f[n][ends[k]] = Newline
  <2>1. k \in 0..n /\ n \in k..n /\ k - 1 \in 0..n
    BY <1>1
  <2>2. \A i \in 1..n : Begins(f[i - 1], f[i])
    BY <1>5
  <2>3. Begins(f[k], f[n])
    BY <1>1, <1>3, <2>1, <2>2, Beginnings
  <2> PICK s, t, l, d, e : s = f[k] /\ t = f[n] /\ l = lines[k] /\ d = ends[k - 1] /\ e = ends[k]
    OBVIOUS
  <2>4. /\ e = Len(s) /\ e = d + Len(l) + 1 /\ s[e] = Newline
        /\ \A j \in 1..Len(l) : s[d + j] = l[j]
    <3>1. ends[k] = Len(f[k]) /\ ends[k] = ends[k - 1] + Len(lines[k]) + 1
      BY <1>5
    <3>2. f[k][ends[k]] = Newline
      BY <1>5
    <3>3. \A j \in 1..Len(lines[k]) : f[k][ends[k - 1] + j] = lines[k][j]
      BY <1>5
    <3> QED BY <3>1, <3>2, <3>3
  <2>5. Len(l) \in Nat
    BY <1>5
  <2>6. d \in Nat /\ e \in Nat
    BY <1>4, <2>1
  <2>7. Begins(s, t)
    BY <2>3
  <2>8. t[e] = Newline /\ \A j \in 1..Len(l) : t[d + j] = l[j]
    BY ONLY <2>4, <2>5, <2>6, <2>7 DEF Begins
  <2> QED BY <2>8
<1>7. HalvesMatch(f[n])
  <2> PICK P : P = {k \in Nat : k <= n => HalvesMatch(f[k])}
    OBVIOUS
  <2>1. 0 \in P
    BY <1>3 DEF HalvesMatch
  <2>2. ASSUME NEW k \in Nat, k \in P PROVE k + 1 \in P
    <3> SUFFICES ASSUME k + 1 <= n PROVE HalvesMatch(f[k + 1])
      OBVIOUS
    <3> PICK m : m = k + 1
      OBVIOUS
    <3>1. m \in 1..n /\ m - 1 = k
      BY <1>1
    <3>2. HalvesMatch(f[m - 1])
      BY <2>2, <3>1
    <3>3. /\ f[m - 1] \in Seq(Bytes) /\ f[m] = f[m - 1] \o seqs[m]
          /\ seqs[m] \in Seq(Bytes) /\ HalvesMatch(seqs[m])
      BY <1>5, <3>1
    <3>4. HalvesMatch(f[m])
      BY ONLY <3>2, <3>3, HalvesJoin
    <3> QED BY <3>4
  <2>3. Nat \subseteq P
    BY <2>1, <2>2, SetInduction
  <2> QED BY <1>1, <2>3
<1>8. \A k \in 1..n : ends[k] = ends[k - 1] + Len(lines[k]) + 1
  BY <1>5
<1>9. ASSUME NEW k \in 0..n PROVE ends[k] <= Len(f[n])
  <2>1. \A i \in 1..n : Begins(f[i - 1], f[i])
    BY <1>5
  <2>2. n \in k..n
    BY <1>1
  <2>3. Begins(f[k], f[n])
    BY <1>1, <1>3, <2>1, <2>2, Beginnings
  <2> QED BY <2>3 DEF Begins
<1>10. IsBody(ends, f[n], lines)
  BY <1>4, <1>6, <1>7, <1>8, <1>9 DEF IsBody
<1> QED BY <1>10

\* A body is all of it, or all but the last byte.
LEMMA BodyBegins ==
  ASSUME NEW lines \in Seq(Lines), NEW closed \in BOOLEAN
  PROVE  \E ends, all :
           /\ IsBody(ends, all, lines)
           /\ Body(lines, closed) \in Seq(Bytes)
           /\ Begins(Body(lines, closed), all) /\ Len(Body(lines, closed)) >= Len(all) - 1
<1> PICK n, seqs : n = Len(lines) /\ seqs = [i \in DOMAIN lines |-> Append(lines[i], Newline)]
  OBVIOUS
<1>1. seqs \in Seq(Seq(Bytes)) /\ Len(seqs) = n
  <2>1. n \in Nat /\ DOMAIN seqs = 1..n /\ seqs = [k \in 1..n |-> seqs[k]]
    OBVIOUS
  <2>2. ASSUME NEW k \in 1..n PROVE seqs[k] \in Seq(Bytes)
    <3>1. lines[k] \in Lines /\ seqs[k] = Append(lines[k], Newline)
      OBVIOUS
    <3> QED BY ONLY <3>1, LineHalves
  <2> PICK S : S = Seq(Bytes)
    OBVIOUS
  <2>3. seqs \in [1..n -> S]
    BY <2>1, <2>2
  <2>4. seqs \in Seq(S) /\ Len(seqs) = n
    BY ONLY <2>1, <2>3
  <2> QED BY <2>4
<1>2. PICK f : IsFlat(f, seqs, Bytes) /\ FlattenSeq(seqs) = f[n]
  BY <1>1, FlattenIs
<1> PICK all, ends : all = f[n] /\ ends = [k \in 0..n |-> Len(f[k])]
  OBVIOUS
<1>3. IsBody(ends, all, lines)
  BY <1>2, BodyIs
<1>4. Body(lines, closed) = IF closed \/ lines = << >> THEN all ELSE Front(all)
  BY <1>2 DEF Body
<1>5. all \in Seq(Bytes)
  BY <1>3 DEF IsBody
<1>6. lines # << >> => Len(all) >= 1
  <2> SUFFICES ASSUME lines # << >> PROVE Len(all) >= 1
    OBVIOUS
  <2>1. n \in 1..n /\ n - 1 \in 0..n /\ lines[n] \in Lines
    OBVIOUS
  <2>2. /\ ends[n] = ends[n - 1] + Len(lines[n]) + 1 /\ ends[n - 1] \in Nat
        /\ Len(all) = ends[n]
    BY <1>3, <2>1 DEF IsBody
  <2>3. Len(lines[n]) \in Nat
    BY <2>1, LineBytes
  <2> QED BY ONLY <2>2, <2>3
<1>7. /\ Body(lines, closed) \in Seq(Bytes)
      /\ Begins(Body(lines, closed), all) /\ Len(Body(lines, closed)) >= Len(all) - 1
  <2>1. CASE closed \/ lines = << >>
    BY <1>4, <1>5, <2>1 DEF Begins
  <2>2. CASE ~(closed \/ lines = << >>)
    <3>1. Body(lines, closed) = SubSeq(all, 1, Len(all) - 1) /\ Len(all) >= 1
      BY <1>4, <1>6, <2>2 DEF Front
    <3> QED BY ONLY <1>5, <3>1 DEF Begins
  <2> QED BY <2>1, <2>2
<1> QED BY <1>3, <1>7

-----------------------------------------------------------------------------
(* The decoder                                                             *)

\* b is what decoding has made of the line l: both halves of a character, or neither.
FitsLine(b, l) ==
  /\ b \in Seq(Bytes) /\ Len(b) = Len(l)
  /\ \A i \in 1..Len(l) : b[i] = l[i] \/ (b[i] = "?" /\ l[i] \in Halves)
  /\ l[1] = "w1" => (b[1] = "?" <=> b[2] = "?")

\* A whole line is parsed as it was sent.
LEMMA ParseWhole ==
  ASSUME NEW l \in Lines
  PROVE  /\ HasToken(l) => Parse(l) = TokenIn(l)
         /\ ~HasToken(l) => Parse(l) \in {"nothing", "error"}
         /\ Parse(<<"?", "?">>) = Torn
<1>1. HasToken(l) => Len(l) = 2 /\ l[1] # "?"
  BY LineForms
<1>2. HasToken(l) => l # << >> /\ l # <<"s">> /\ l # <<"?", "?">>
  BY <1>1
<1>3. ~HasToken(l) => l # <<"?", "?">>
  <2>1. ~HasToken(l) => Len(l) = 1
    BY LineForms
  <2> QED BY <2>1
<1>4. <<"?", "?">> # << >> /\ <<"?", "?">> # <<"s">>
  OBVIOUS
<1>5. ~HasToken(<<"?", "?">>)
  BY DEF HasToken, Tokens, TokenLines
<1>6. HasToken(l) => Parse(l) = TokenIn(l)
  BY <1>2 DEF Parse
<1>7. ~HasToken(l) => Parse(l) \in {"nothing", "error"}
  BY <1>3 DEF Parse
<1>8. Parse(<<"?", "?">>) = Torn
  BY <1>4, <1>5 DEF Parse
<1> QED BY <1>6, <1>7, <1>8

\* However it was cut, a line gives the token it holds, or a torn one.
LEMMA ParseLine ==
  ASSUME NEW l \in Lines, NEW b, FitsLine(b, l)
  PROVE  IF HasToken(l) THEN Parse(b) = TokenIn(l) \/ (Parse(b) = Torn /\ TokenIn(l) = "w")
                        ELSE Parse(b) \in {"nothing", "error"}
<1>1. b = l \/ (b = <<"?", "?">> /\ HasToken(l) /\ TokenIn(l) = "w")
  <2>1. CASE l = <<"w1", "w2">> /\ HasToken(l) /\ TokenIn(l) = "w"
    <3>1. Len(b) = 2 /\ b[1] \in {"w1", "?"} /\ b[2] \in {"w2", "?"}
          /\ (b[1] = "?" <=> b[2] = "?") /\ b \in Seq(Bytes)
      BY <2>1 DEF FitsLine
    <3>2. b = <<b[1], b[2]>>
      BY <3>1
    <3> QED BY <2>1, <3>1, <3>2
  <2>2. CASE \A i \in 1..Len(l) : l[i] \notin Halves
    <3>1. Len(b) = Len(l) /\ b \in Seq(Bytes) /\ \A i \in 1..Len(l) : b[i] = l[i]
      BY <2>2 DEF FitsLine
    <3>2. l \in Seq(Bytes)
      BY LineBytes
    <3>3. b = l
      BY <3>1, <3>2
    <3> QED BY <3>3
  <2>3. \/ l = <<"w1", "w2">> /\ HasToken(l) /\ TokenIn(l) = "w"
        \/ \A i \in 1..Len(l) : l[i] \notin Halves
    BY LineForms DEF Halves
  <2> QED BY <2>1, <2>2, <2>3
<1> QED BY <1>1, ParseWhole

\* Half a line is an error.
LEMMA ParsePart ==
  ASSUME NEW l \in Lines, Len(l) = 2, NEW b \in Seq(Bytes), Len(b) = 1,
         b[1] = l[1] \/ b[1] = "?"
  PROVE  Parse(b) = "error"
<1>1. l[1] # "s"
  BY LineForms
<1>2. b # << >> /\ b # <<"s">> /\ b # <<"?", "?">>
  BY <1>1
<1>3. ~HasToken(b)
  BY DEF HasToken, Tokens, TokenLines
<1> QED BY <1>2, <1>3 DEF Parse

\* b is what decoding has made of the bytes of all behind the first p, wherever they
\* were cut: of a character cut in two neither half is left.
Decoded(b, all, p) ==
  \A i \in 1..Len(b) :
    /\ b[i] = all[p + i] \/ (b[i] = "?" /\ all[p + i] \in Halves)
    /\ all[p + i] = "w1" => IF i < Len(b) THEN (b[i] = "?" <=> b[i + 1] = "?")
                                          ELSE b[i] = "?"

\* Behind the first p bytes of all stand those in the buffer b and then those on the
\* wire w, and behind these only a last newline, unless the transport has failed.
Reads(b, w, failed, all, p) ==
  /\ b \in Seq(Bytes) /\ w \in Seq(Bytes)
  /\ p + Len(b) + Len(w) <= Len(all)
  /\ IF failed THEN w = << >> ELSE p + Len(b) + Len(w) >= Len(all) - 1
  /\ Decoded(b, all, p)
  /\ \A i \in 1..Len(w) : w[i] = all[p + Len(b) + i]

\* What decoding makes of a byte: half a character without the other half is a "?".
IsDecoded(d, c) ==
  /\ d \in Seq(Bytes) /\ Len(d) = Len(c)
  /\ \A i \in 1..Len(c) :
       /\ c[i] \notin Halves => d[i] = c[i]
       /\ c[i] = "w1" => d[i] = IF i < Len(c) /\ c[i + 1] = "w2" THEN "w1" ELSE "?"
       /\ c[i] = "w2" => d[i] = IF i > 1 /\ c[i - 1] = "w1" THEN "w2" ELSE "?"

\* Of every chunk.
LEMMA DecodeChunk ==
  ASSUME NEW c \in Seq(Bytes), NEW d, d = Decode(c)
  PROVE  IsDecoded(d, c)
<1>1. "?" \in Bytes
  BY Zenon DEF Bytes
<1> PICK n : n = Len(c)
  OBVIOUS
<1>2. n \in Nat /\ DOMAIN c = 1..n /\ \A i \in 1..n : c[i] \in Bytes
  OBVIOUS
<1>3. d = [i \in 1..n |->
             CASE c[i] = "w1" /\ (i = n \/ c[i + 1] # "w2") -> "?"
               [] c[i] = "w2" /\ (i = 1 \/ c[i - 1] # "w1") -> "?"
               [] OTHER                                     -> c[i]]
  BY <1>2 DEF Decode
<1>4. ASSUME NEW i \in 1..n
      PROVE  /\ d[i] \in Bytes
             /\ c[i] \notin Halves => d[i] = c[i]
             /\ c[i] = "w1" => d[i] = IF i < n /\ c[i + 1] = "w2" THEN "w1" ELSE "?"
             /\ c[i] = "w2" => d[i] = IF i > 1 /\ c[i - 1] = "w1" THEN "w2" ELSE "?"
  <2>1. d[i] = CASE c[i] = "w1" /\ (i = n \/ c[i + 1] # "w2") -> "?"
                 [] c[i] = "w2" /\ (i = 1 \/ c[i - 1] # "w1") -> "?"
                 [] OTHER                                     -> c[i]
    BY <1>3
  <2>2. c[i] \in Bytes /\ i \in 1..n /\ n \in Nat
    BY <1>2
  <2> QED BY ONLY <1>1, <2>1, <2>2 DEF Halves
<1>5. d \in [1..n -> Bytes]
  BY <1>3, <1>4
<1>6. d \in Seq(Bytes) /\ Len(d) = n
  BY ONLY <1>2, <1>5
<1> QED BY <1>4, <1>6 DEF IsDecoded

\* Where the first newline in the buffer is.
LEMMA LineStands ==
  ASSUME NEW lines \in Seq(Lines), NEW ends, NEW all, IsBody(ends, all, lines),
         NEW k \in 0..Len(lines), k < Len(lines)
  PROVE  LET l == lines[k + 1] IN
         /\ k + 1 \in 1..Len(lines) /\ l \in Lines /\ l \in Seq(Bytes) /\ Len(l) \in {1, 2}
         /\ ends[k] \in Nat /\ ends[k + 1] \in Nat /\ Len(all) \in Nat
         /\ ends[k + 1] = ends[k] + Len(l) + 1 /\ ends[k + 1] <= Len(all)
         /\ \A j \in 1..Len(l) : all[ends[k] + j] = l[j] /\ l[j] # Newline /\ l[j] # "?"
         /\ all[ends[k] + Len(l) + 1] = Newline
<1> PICK m, l : m = k + 1 /\ l = lines[m]
  OBVIOUS
<1>1. m \in 1..Len(lines) /\ m - 1 = k /\ l \in Lines /\ m \in 0..Len(lines)
  OBVIOUS
<1>2. /\ l \in Seq(Bytes) /\ Len(l) \in {1, 2}
      /\ \A j \in 1..Len(l) : l[j] # Newline /\ l[j] # "?"
  BY <1>1, LineBytes
<1>3. /\ ends[k] \in Nat /\ ends[m] \in Nat /\ Len(all) \in Nat /\ ends[m] <= Len(all)
      /\ ends[m] = ends[m - 1] + Len(l) + 1 /\ all[ends[m]] = Newline
      /\ \A j \in 1..Len(l) : all[ends[m - 1] + j] = l[j]
  <2>1. /\ all \in Seq(Bytes) /\ ends \in [0..Len(lines) -> Nat]
        /\ \A i \in 0..Len(lines) : ends[i] <= Len(all)
        /\ \A i \in 1..Len(lines) :
             /\ ends[i] = ends[i - 1] + Len(lines[i]) + 1
             /\ \A j \in 1..Len(lines[i]) : all[ends[i - 1] + j] = lines[i][j]
             /\ all[ends[i]] = Newline
    BY DEF IsBody
  <2>2. ends[k] \in Nat /\ ends[m] \in Nat /\ Len(all) \in Nat /\ ends[m] <= Len(all)
    <3>1. Len(all) \in Nat
      BY ONLY <2>1
    <3> QED BY ONLY <1>1, <2>1, <3>1, k \in 0..Len(lines)
  <2>3. /\ ends[m] = ends[m - 1] + Len(l) + 1 /\ all[ends[m]] = Newline
        /\ \A j \in 1..Len(l) : all[ends[m - 1] + j] = l[j]
    BY <1>1, <2>1
  <2> QED BY <2>2, <2>3
<1> QED BY <1>1, <1>2, <1>3

\* The buffer holds another line while there is more in it or on the wire.
LEMMA MoreLines ==
  ASSUME NEW lines \in Seq(Lines), NEW ends, NEW all, IsBody(ends, all, lines),
         NEW k \in 0..Len(lines), NEW b, NEW w, NEW failed, Reads(b, w, failed, all, ends[k]),
         b # << >>
  PROVE  k < Len(lines)
<1> SUFFICES ASSUME k = Len(lines) PROVE FALSE
  OBVIOUS
<1>1. Len(all) = ends[k] /\ ends[k] \in Nat
  BY DEF IsBody
<1>2. Len(b) \in Nat \ {0} /\ Len(w) \in Nat /\ ends[k] + Len(b) + Len(w) <= Len(all)
  BY DEF Reads
<1> QED BY <1>1, <1>2

\* A newline in the buffer is one in the body, and the other way round.
LEMMA SameNewlines ==
  ASSUME NEW b, NEW w, NEW failed, NEW all, NEW p, Reads(b, w, failed, all, p),
         NEW i \in 1..Len(b)
  PROVE  b[i] = Newline <=> all[p + i] = Newline
<1>1. b[i] = all[p + i] \/ (b[i] = "?" /\ all[p + i] \in Halves)
  BY DEF Reads, Decoded
<1> QED BY <1>1 DEF Newline, Halves

\* What is left of a sequence when its beginning is taken away.
IsTail(t, s, k, S) ==
  /\ t \in Seq(S) /\ Len(t) = Len(s) - k /\ Len(t) \in Nat
  /\ \A i \in 1..Len(t) : t[i] = s[k + i] /\ k + i \in 1..Len(s)

\* SubSeq leaves that.
LEMMA TailIs ==
  ASSUME NEW S, NEW s \in Seq(S), NEW k \in 0..Len(s), NEW t, t = SubSeq(s, k + 1, Len(s))
  PROVE  IsTail(t, s, k, S)
<1> PICK n : n = Len(s)
  OBVIOUS
<1> PICK m : m = n - k
  OBVIOUS
<1>1. n \in Nat /\ k \in Nat /\ m \in Nat /\ n = k + m
  OBVIOUS
<1>2. t = [i \in 1..m |-> s[k + i]]
  <2>1. t = [i \in 1..(n - (k + 1)) + 1 |-> s[((k + 1) + i) - 1]]
    BY <1>1
  <2>2. (n - (k + 1)) + 1 = m /\ \A i \in 1..m : ((k + 1) + i) - 1 = k + i
    BY ONLY <1>1
  <2> QED BY ONLY <2>1, <2>2
<1>3. \A i \in 1..m : k + i \in 1..n
  BY ONLY <1>1
<1>4. \A i \in 1..m : s[k + i] \in S
  BY <1>3
<1>5. t \in [1..m -> S]
  BY ONLY <1>2, <1>4
<1>6. t \in Seq(S) /\ Len(t) = m
  BY ONLY <1>1, <1>5
<1> QED BY ONLY <1>1, <1>2, <1>3, <1>6, n = Len(s) DEF IsTail

\* What has come of the next line, up to its end at most, is what decoding makes of it.
LEMMA PartOfLine ==
  ASSUME NEW lines \in Seq(Lines), NEW ends, NEW all, IsBody(ends, all, lines),
         NEW k \in 0..Len(lines), k < Len(lines), NEW b, NEW w, NEW failed,
         Reads(b, w, failed, all, ends[k]), NEW m \in Nat, m <= Len(b),
         \A i \in 1..m : b[i] # Newline
  PROVE  /\ m <= Len(lines[k + 1])
         /\ m = Len(lines[k + 1]) => FitsLine(SubSeq(b, 1, m), lines[k + 1])
<1> PICK l, p : l = lines[k + 1] /\ p = ends[k]
  OBVIOUS
<1>1. /\ l \in Lines /\ l \in Seq(Bytes) /\ Len(l) \in {1, 2} /\ p \in Nat
      /\ \A j \in 1..Len(l) : all[p + j] = l[j]
      /\ all[p + Len(l) + 1] = Newline
  BY LineStands
<1>2. b \in Seq(Bytes) /\ Decoded(b, all, p) /\ Reads(b, w, failed, all, p)
  BY DEF Reads
<1>3. m <= Len(l)
  <2> SUFFICES ASSUME m > Len(l) PROVE FALSE
    BY <1>1
  <2> PICK i : i = Len(l) + 1
    OBVIOUS
  <2>0. /\ Len(l) \in Nat /\ Len(b) \in Nat /\ m \in Nat /\ p \in Nat
        /\ m <= Len(b) /\ m > Len(l) /\ i = Len(l) + 1
    BY <1>1, <1>2
  <2>1. i \in 1..Len(b) /\ i \in 1..m /\ p + i = p + Len(l) + 1
    BY ONLY <2>0
  <2>2. all[p + i] = Newline
    BY <1>1, <2>1
  <2>3. b[i] = Newline
    BY <1>2, <2>1, <2>2, SameNewlines
  <2> QED BY <2>1, <2>3
<1>4. ASSUME m = Len(l) PROVE FitsLine(SubSeq(b, 1, m), l)
  <2> PICK u : u = SubSeq(b, 1, m)
    OBVIOUS
  <2>1. u \in Seq(Bytes) /\ Len(u) = m /\ \A i \in 1..m : u[i] = b[i]
    BY <1>2
  <2>2. \A i \in 1..Len(l) : i \in 1..Len(b)
    BY <1>1, <1>2, <1>4
  <2>3. \A i \in 1..Len(l) : b[i] = l[i] \/ (b[i] = "?" /\ l[i] \in Halves)
    BY <1>1, <1>2, <2>2 DEF Decoded
  <2>4. l[1] = "w1" => (b[1] = "?" <=> b[2] = "?") /\ Len(l) = 2
    <3> SUFFICES ASSUME l[1] = "w1" PROVE (b[1] = "?" <=> b[2] = "?") /\ Len(l) = 2
      OBVIOUS
    <3>1. Len(l) = 2
      BY <1>1, LineBytes
    <3>2. 1 \in 1..Len(b) /\ 1 < Len(b) /\ 1 + 1 = 2
      BY <1>2, <1>4, <3>1
    <3>3. 1 \in 1..Len(l)
      BY <3>1
    <3>4. all[p + 1] = "w1"
      BY <1>1, <3>3
    <3> QED BY <1>2, <3>1, <3>2, <3>4 DEF Decoded
  <2>5. FitsLine(u, l)
    <3>1. \A i \in 1..Len(l) : u[i] = l[i] \/ (u[i] = "?" /\ l[i] \in Halves)
      BY ONLY <1>4, <2>1, <2>3
    <3>2. l[1] = "w1" => (u[1] = "?" <=> u[2] = "?")
      <4>1. l[1] = "w1" => u[1] = b[1] /\ u[2] = b[2]
        BY ONLY <1>4, <2>1, <2>4
      <4> QED BY ONLY <2>4, <4>1
    <3>3. u \in Seq(Bytes) /\ Len(u) = Len(l)
      BY ONLY <1>4, <2>1
    <3> QED BY ONLY <3>1, <3>2, <3>3 DEF FitsLine
  <2> QED BY <2>5
<1> QED BY <1>3, <1>4

\* A line is taken from the buffer.
LEMMA ReadsLine ==
  ASSUME NEW lines \in Seq(Lines), NEW ends, NEW all, IsBody(ends, all, lines),
         NEW k \in 0..Len(lines), NEW b, NEW w, NEW failed,
         Reads(b, w, failed, all, ends[k]), NEW m \in 1..Len(b),
         b[m] = Newline, \A i \in 1..m - 1 : b[i] # Newline
  PROVE  /\ k + 1 \in 1..Len(lines)
         /\ FitsLine(SubSeq(b, 1, m - 1), lines[k + 1])
         /\ Reads(SubSeq(b, m + 1, Len(b)), w, failed, all, ends[k + 1])
<1>1. k < Len(lines)
  <2>1. b # << >>
    BY DEF Reads
  <2> QED BY <2>1, MoreLines
<1> PICK l, p, n : l = lines[k + 1] /\ p = ends[k] /\ n = m - 1
  OBVIOUS
<1>2. /\ l \in Lines /\ l \in Seq(Bytes) /\ Len(l) \in {1, 2} /\ p \in Nat
      /\ \A j \in 1..Len(l) : all[p + j] = l[j] /\ l[j] # Newline
      /\ ends[k + 1] = p + Len(l) + 1 /\ ends[k + 1] \in Nat
  BY <1>1, LineStands
<1>3. /\ b \in Seq(Bytes) /\ w \in Seq(Bytes) /\ Decoded(b, all, p) /\ Len(b) \in Nat
      /\ p + Len(b) + Len(w) <= Len(all) /\ Len(w) \in Nat
      /\ \A i \in 1..Len(w) : w[i] = all[p + Len(b) + i]
      /\ IF failed THEN w = << >> ELSE p + Len(b) + Len(w) >= Len(all) - 1
  BY DEF Reads
<1>4. n \in Nat /\ n <= Len(b) /\ m = n + 1 /\ \A i \in 1..n : b[i] # Newline
  BY <1>3
<1>5. n <= Len(l) /\ (n = Len(l) => FitsLine(SubSeq(b, 1, n), l))
  BY <1>1, <1>4, PartOfLine
<1>6. n = Len(l)
  <2>0. n \in Nat /\ n <= Len(l) /\ Len(l) \in Nat /\ m = n + 1
    BY <1>2, <1>4, <1>5
  <2>1. ASSUME n < Len(l) PROVE FALSE
    <3>1. m \in 1..Len(l)
      BY ONLY <2>0, <2>1
    <3>2. all[p + m] = Newline
      BY SameNewlines
    <3> QED BY <1>2, <3>1, <3>2
  <2> QED BY ONLY <2>0, <2>1
<1>7. Reads(SubSeq(b, m + 1, Len(b)), w, failed, all, p + m)
  <2> PICK c : c = SubSeq(b, m + 1, Len(b))
    OBVIOUS
  <2>0. p \in Nat /\ m \in Nat /\ Len(b) \in Nat
    BY <1>2, <1>3
  <2>1. /\ c \in Seq(Bytes) /\ Len(c) = Len(b) - m /\ Len(c) \in Nat
        /\ \A i \in 1..Len(c) : c[i] = b[m + i] /\ m + i \in 1..Len(b)
    <3>1. b \in Seq(Bytes) /\ m \in 0..Len(b) /\ c = SubSeq(b, m + 1, Len(b))
      BY ONLY <1>3, <1>4, m \in 1..Len(b), c = SubSeq(b, m + 1, Len(b))
    <3>2. IsTail(c, b, m, Bytes)
      BY ONLY <3>1, TailIs
    <3> QED BY ONLY <3>2 DEF IsTail
  <2>2. (p + m) + Len(c) = p + Len(b)
    BY ONLY <2>0, <2>1
  <2>3. Decoded(c, all, p + m)
    <3> SUFFICES ASSUME NEW i \in 1..Len(c)
                 PROVE  /\ c[i] = all[p + m + i] \/ (c[i] = "?" /\ all[p + m + i] \in Halves)
                        /\ all[p + m + i] = "w1" =>
                             IF i < Len(c) THEN (c[i] = "?" <=> c[i + 1] = "?") ELSE c[i] = "?"
      BY DEF Decoded
    <3> PICK j : j = m + i
      OBVIOUS
    <3>0. i \in Nat /\ j = m + i
      BY <2>1
    <3>1. j \in 1..Len(b) /\ c[i] = b[j] /\ p + m + i = p + j
      <4>1. j \in 1..Len(b) /\ c[i] = b[j]
        BY ONLY <2>1, <3>0, i \in 1..Len(c)
      <4>2. p + m + i = p + j
        BY ONLY <2>0, <3>0
      <4> QED BY ONLY <4>1, <4>2
    <3>2. /\ b[j] = all[p + j] \/ (b[j] = "?" /\ all[p + j] \in Halves)
          /\ all[p + j] = "w1" => IF j < Len(b) THEN (b[j] = "?" <=> b[j + 1] = "?")
                                                ELSE b[j] = "?"
      BY <1>3, <3>1 DEF Decoded
    <3>3. i < Len(c) <=> j < Len(b)
      BY ONLY <2>0, <2>1, <3>0
    <3>4. i < Len(c) => c[i + 1] = b[j + 1]
      <4> SUFFICES ASSUME i < Len(c) PROVE c[i + 1] = b[j + 1]
        OBVIOUS
      <4>1. i + 1 \in 1..Len(c) /\ m + (i + 1) = j + 1
        BY <2>0, <2>1, <3>0
      <4> QED BY <2>1, <4>1
    <3> QED BY <3>1, <3>2, <3>3, <3>4
  <2>4. Reads(c, w, failed, all, p + m)
    BY <1>3, <2>1, <2>2, <2>3 DEF Reads
  <2> QED BY <2>4
<1>8. ends[k + 1] = p + m /\ k + 1 \in 1..Len(lines)
  <2>1. k + 1 \in 1..Len(lines)
    BY <1>1
  <2>2. p \in Nat /\ n \in Nat /\ m = n + 1 /\ ends[k + 1] = p + n + 1
    BY <1>2, <1>4, <1>6
  <2>3. ends[k + 1] = p + m
    BY ONLY <2>2
  <2> QED BY <2>1, <2>3
<1> QED BY <1>5, <1>6, <1>7, <1>8

\* A chunk comes: of a character it cuts in two both halves are lost.
LEMMA ReadsChunk ==
  ASSUME NEW all \in Seq(Bytes), HalvesMatch(all), NEW p \in Nat,
         NEW b, NEW w, NEW failed, Reads(b, w, failed, all, p), NEW n \in 1..Len(w)
  PROVE  Reads(b \o Decode(SubSeq(w, 1, n)), SubSeq(w, n + 1, Len(w)), failed, all, p)
<1>1. /\ b \in Seq(Bytes) /\ w \in Seq(Bytes) /\ Decoded(b, all, p) /\ Len(b) \in Nat
      /\ p + Len(b) + Len(w) <= Len(all) /\ Len(w) \in Nat /\ w # << >>
      /\ \A i \in 1..Len(w) : w[i] = all[p + Len(b) + i]
      /\ IF failed THEN w = << >> ELSE p + Len(b) + Len(w) >= Len(all) - 1
  BY DEF Reads
<1> PICK c, d, v, q : /\ c = SubSeq(w, 1, n) /\ d = Decode(c) /\ v = SubSeq(w, n + 1, Len(w))
                      /\ q = Len(b)
  OBVIOUS
<1>2. /\ c \in Seq(Bytes) /\ Len(c) = n /\ n \in Nat /\ q \in Nat
      /\ \A i \in 1..n : c[i] = all[p + q + i]
  <2>1. n \in Nat /\ n <= Len(w) /\ q \in Nat
    BY ONLY <1>1, n \in 1..Len(w), q = Len(b)
  <2>2. c \in Seq(Bytes) /\ Len(c) = n /\ \A i \in 1..n : c[i] = w[i]
    BY ONLY <1>1, <2>1, c = SubSeq(w, 1, n)
  <2>3. ASSUME NEW i \in 1..n PROVE c[i] = all[p + q + i]
    <3>1. i \in 1..Len(w)
      BY ONLY <1>1, <2>1, i \in 1..n
    <3>2. w[i] = all[p + Len(b) + i]
      BY ONLY <1>1, <3>1, Zenon
    <3> QED BY ONLY <2>2, <3>2, q = Len(b), i \in 1..n, Zenon
  <2> QED BY ONLY <2>1, <2>2, <2>3
<1>3. /\ v \in Seq(Bytes) /\ Len(v) = Len(w) - n
      /\ \A i \in 1..Len(v) : v[i] = w[n + i] /\ n + i \in 1..Len(w)
  <2>1. w \in Seq(Bytes) /\ n \in 0..Len(w) /\ v = SubSeq(w, n + 1, Len(w))
    BY ONLY <1>1, n \in 1..Len(w), v = SubSeq(w, n + 1, Len(w))
  <2>2. IsTail(v, w, n, Bytes)
    BY ONLY <2>1, TailIs
  <2> QED BY ONLY <2>2 DEF IsTail
<1>4. /\ d \in Seq(Bytes) /\ Len(d) = n
      /\ \A i \in 1..n :
           /\ c[i] \notin Halves => d[i] = c[i]
           /\ c[i] = "w1" => d[i] = IF i < n /\ c[i + 1] = "w2" THEN "w1" ELSE "?"
           /\ c[i] = "w2" => d[i] = IF i > 1 /\ c[i - 1] = "w1" THEN "w2" ELSE "?"
  <2>1. c \in Seq(Bytes) /\ d = Decode(c) /\ Len(c) = n
    BY <1>2
  <2>2. IsDecoded(d, c)
    BY ONLY <2>1, DecodeChunk
  <2> QED BY ONLY <2>1, <2>2 DEF IsDecoded
<1> PICK u : u = b \o d
  OBVIOUS
<1>5. /\ u \in Seq(Bytes) /\ Len(u) = q + n
      /\ \A i \in 1..q : u[i] = b[i]
      /\ \A i \in 1..n : u[q + i] = d[i]
  <2>1. b \in Seq(Bytes) /\ d \in Seq(Bytes) /\ u = b \o d /\ Len(b) = q /\ Len(d) = n
    BY <1>1, <1>4
  <2>2. /\ u \in Seq(Bytes) /\ Len(u) = Len(b) + Len(d)
        /\ \A i \in 1..Len(b) : u[i] = b[i]
        /\ \A i \in 1..Len(d) : u[Len(b) + i] = d[i]
    <3>1. b \in Seq(Bytes) /\ d \in Seq(Bytes) /\ u = b \o d
      BY <2>1
    <3> QED BY ONLY <3>1, Joined
  <2> QED BY ONLY <2>1, <2>2
<1>6. Decoded(u, all, p)
  <2> SUFFICES ASSUME NEW i \in 1..Len(u)
               PROVE  /\ u[i] = all[p + i] \/ (u[i] = "?" /\ all[p + i] \in Halves)
                      /\ all[p + i] = "w1" =>
                           IF i < Len(u) THEN (u[i] = "?" <=> u[i + 1] = "?") ELSE u[i] = "?"
    BY DEF Decoded
  <2>1. CASE i \in 1..q
    <3>1. /\ u[i] = b[i] /\ i < Len(u)
          /\ b[i] = all[p + i] \/ (b[i] = "?" /\ all[p + i] \in Halves)
          /\ all[p + i] = "w1" => IF i < q THEN (b[i] = "?" <=> b[i + 1] = "?") ELSE b[i] = "?"
      BY <1>1, <1>2, <1>5, <2>1 DEF Decoded
    <3>2. i < q => u[i + 1] = b[i + 1]
      BY <1>5, <2>1
    <3>3. ASSUME i = q, all[p + i] = "w1" PROVE u[i + 1] = "?"
      <4>1. p + i \in 1..Len(all) /\ (p + i) + 1 = p + q + 1
        BY <1>1, <1>2, <2>1, <3>3
      <4>2. all[p + q + 1] = "w2"
        BY <3>3, <4>1 DEF HalvesMatch
      <4>3. 1 \in 1..n /\ c[1] = "w2"
        BY <1>2, <4>2
      <4>4. d[1] = "?"
        BY <1>4, <4>3
      <4> QED BY <1>5, <3>3, <4>3, <4>4
    <3> QED BY <2>1, <3>1, <3>2, <3>3
  <2>2. CASE i \notin 1..q
    <3> PICK j : j = i - q
      OBVIOUS
    <3>1. j \in 1..n /\ i = q + j /\ p + i = p + q + j
      <4>1. j \in 1..n /\ i = q + j /\ i \in Nat /\ j \in Nat
        BY ONLY <1>2, <1>5, <2>2, i \in 1..Len(u), j = i - q
      <4>2. p + i = p + q + j
        BY ONLY <1>2, <4>1, p \in Nat
      <4> QED BY ONLY <4>1, <4>2
    <3>2. u[i] = d[j] /\ c[j] = all[p + i]
      BY <1>2, <1>5, <3>1
    <3>3. /\ c[j] \notin Halves => d[j] = c[j]
          /\ c[j] = "w1" => d[j] = IF j < n /\ c[j + 1] = "w2" THEN "w1" ELSE "?"
          /\ c[j] = "w2" => d[j] = IF j > 1 /\ c[j - 1] = "w1" THEN "w2" ELSE "?"
      BY <1>4, <3>1
    <3>4. u[i] = all[p + i] \/ (u[i] = "?" /\ all[p + i] \in Halves)
      BY <3>2, <3>3 DEF Halves
    <3>5. ASSUME all[p + i] = "w1", j < n
          PROVE  i < Len(u) /\ u[i] # "?" /\ u[i + 1] # "?"
      <4>1. j + 1 \in 1..n /\ i + 1 = q + (j + 1) /\ p + q + (j + 1) = (p + i) + 1
        <5>1. j \in Nat /\ j >= 1 /\ n \in Nat /\ j < n /\ q \in Nat /\ i = q + j
          BY <1>2, <3>1, <3>5
        <5> QED BY ONLY <5>1, p \in Nat
      <4>2. p + i \in 1..Len(all)
        BY <1>1, <1>2, <3>1
      <4>3. c[j + 1] = "w2"
        <5>1. all[(p + i) + 1] = "w2"
          BY <3>5, <4>2 DEF HalvesMatch
        <5> QED BY <1>2, <4>1, <5>1
      <4>4. (j + 1) - 1 = j /\ j + 1 > 1
        BY <3>1
      <4>5. d[j + 1] = IF j + 1 > 1 /\ c[(j + 1) - 1] = "w1" THEN "w2" ELSE "?"
        BY <1>4, <4>1, <4>3
      <4>6. d[j + 1] = "w2" /\ d[j] = "w1"
        BY <3>2, <3>3, <3>5, <4>3, <4>4, <4>5
      <4>7. u[i + 1] = d[j + 1]
        BY <1>5, <4>1
      <4>8. i < Len(u)
        <5>1. i = q + j /\ j \in Nat /\ q \in Nat /\ n \in Nat /\ j < n /\ Len(u) = q + n
          BY <1>2, <1>5, <3>1, <3>5
        <5> QED BY ONLY <5>1
      <4> QED BY <3>2, <4>6, <4>7, <4>8
    <3>6. ASSUME all[p + i] = "w1", ~(j < n) PROVE u[i] = "?" /\ ~(i < Len(u))
      <4>1. d[j] = "?"
        BY <3>2, <3>3, <3>6
      <4>2. ~(i < Len(u))
        <5>1. i = q + j /\ j \in Nat /\ q \in Nat /\ n \in Nat /\ ~(j < n) /\ Len(u) = q + n
          BY <1>2, <1>5, <3>1, <3>6
        <5> QED BY ONLY <5>1
      <4> QED BY <3>2, <4>1, <4>2
    <3> QED BY <3>4, <3>5, <3>6
  <2> QED BY <2>1, <2>2
<1>7. \A i \in 1..Len(v) : v[i] = all[p + Len(u) + i]
  <2> SUFFICES ASSUME NEW i \in 1..Len(v) PROVE v[i] = all[p + Len(u) + i]
    OBVIOUS
  <2> PICK j : j = n + i
    OBVIOUS
  <2>1. v[i] = w[j] /\ j \in 1..Len(w)
    BY <1>3
  <2>2. /\ i \in Nat /\ n \in Nat /\ q \in Nat /\ p \in Nat /\ j = n + i
        /\ Len(u) = q + n /\ Len(b) = q
    BY <1>2, <1>3, <1>5
  <2>3. p + Len(b) + j = p + Len(u) + i
    BY ONLY <2>2
  <2> QED BY <1>1, <2>1, <2>3
<1>8. Reads(u, v, failed, all, p)
  <2>1. /\ Len(w) \in Nat /\ n \in Nat /\ q \in Nat /\ p \in Nat /\ n <= Len(w)
        /\ Len(u) = q + n /\ Len(b) = q /\ Len(v) = Len(w) - n
    BY <1>1, <1>2, <1>3, <1>5
  <2>2. p + Len(u) + Len(v) = p + Len(b) + Len(w)
    BY ONLY <2>1
  <2>3. ~failed
    BY <1>1
  <2> QED BY <1>1, <1>3, <1>5, <1>6, <1>7, <2>2, <2>3 DEF Reads
<1> QED BY <1>8

\* What is left in the buffer behind the last newline is taken: a line whose newline
\* is missing, or after a failure the first half of one.
LEMMA ReadsRest ==
  ASSUME NEW lines \in Seq(Lines), NEW ends, NEW all, IsBody(ends, all, lines),
         NEW k \in 0..Len(lines), NEW b, NEW failed,
         Reads(b, << >>, failed, all, ends[k]), b # << >>,
         \A i \in 1..Len(b) : b[i] # Newline
  PROVE  /\ k < Len(lines)
         /\ \/ /\ FitsLine(b, lines[k + 1])
               /\ Reads(<< >>, << >>, failed, all, ends[k + 1])
            \/ /\ Parse(b) = "error"
               /\ Reads(<< >>, << >>, failed, all, ends[k])
<1>1. k < Len(lines)
  BY MoreLines
<1> PICK l, p, m : l = lines[k + 1] /\ p = ends[k] /\ m = Len(b)
  OBVIOUS
<1>2. /\ l \in Lines /\ Len(l) \in {1, 2} /\ p \in Nat /\ Len(all) \in Nat
      /\ \A j \in 1..Len(l) : all[p + j] = l[j]
      /\ ends[k + 1] = p + Len(l) + 1 /\ ends[k + 1] \in Nat /\ ends[k + 1] <= Len(all)
  BY <1>1, LineStands
<1>3. /\ b \in Seq(Bytes) /\ Decoded(b, all, p) /\ m \in Nat /\ m # 0
      /\ p + m <= Len(all) /\ (~failed => p + m >= Len(all) - 1)
  <2>1. Len(<< >>) = 0 /\ p + m + 0 = p + m
    BY <1>2
  <2> QED BY <1>2, <2>1 DEF Reads
<1>4. m <= Len(l) /\ (m = Len(l) => FitsLine(SubSeq(b, 1, m), l))
  <2> PICK w : w = << >>
    OBVIOUS
  <2>1. /\ Reads(b, w, failed, all, ends[k]) /\ m \in Nat /\ m <= Len(b)
        /\ \A i \in 1..m : b[i] # Newline
    BY <1>3
  <2>2. /\ m <= Len(lines[k + 1])
        /\ m = Len(lines[k + 1]) => FitsLine(SubSeq(b, 1, m), lines[k + 1])
    BY <1>1, <2>1, PartOfLine
  <2> QED BY <2>2
<1>5. ASSUME NEW q \in Nat, q <= Len(all), ~failed => q >= Len(all) - 1
      PROVE  Reads(<< >>, << >>, failed, all, q)
  <2>1. << >> \in Seq(Bytes) /\ Len(<< >>) = 0 /\ q + 0 + 0 = q /\ \A i \in 1..0 : FALSE
    OBVIOUS
  <2> QED BY <1>5, <2>1 DEF Reads, Decoded
<1>6. CASE m = Len(l)
  <2>1. SubSeq(b, 1, m) = b
    BY <1>3
  <2>2. ~failed => ends[k + 1] >= Len(all) - 1
    <3>1. /\ ends[k + 1] = p + m + 1 /\ p \in Nat /\ m \in Nat /\ Len(all) \in Nat
          /\ ~failed => p + m >= Len(all) - 1
      BY <1>2, <1>3, <1>6
    <3> QED BY ONLY <3>1
  <2>3. Reads(<< >>, << >>, failed, all, ends[k + 1])
    BY <1>2, <1>5, <2>2
  <2> QED BY <1>1, <1>4, <1>6, <2>1, <2>3
<1>7. CASE m # Len(l)
  <2>1. Len(l) = 2 /\ m = 1
    <3>1. Len(l) \in {1, 2} /\ m \in Nat /\ m # 0 /\ m <= Len(l) /\ m # Len(l)
      BY <1>2, <1>3, <1>4, <1>7
    <3>2. \A x \in {1, 2} : \A y \in Nat : y # 0 /\ y <= x /\ y # x => x = 2 /\ y = 1
      OBVIOUS
    <3> QED BY <3>1, <3>2, Zenon
  <2>2. failed
    <3>1. /\ ends[k + 1] = p + 2 + 1 /\ p \in Nat /\ m = 1 /\ Len(all) \in Nat
          /\ ends[k + 1] <= Len(all)
          /\ ~failed => p + m >= Len(all) - 1
      BY <1>2, <1>3, <2>1
    <3> QED BY ONLY <3>1
  <2>3. b[1] = l[1] \/ b[1] = "?"
    <3>1. 1 \in 1..Len(b) /\ all[p + 1] = l[1]
      BY <1>2, <2>1
    <3> QED BY <1>3, <3>1 DEF Decoded
  <2>4. Parse(b) = "error"
    BY <1>2, <1>3, <2>1, <2>3, ParsePart
  <2>5. p \in Nat /\ p <= Len(all)
    BY <1>2, <1>3
  <2>6. Reads(<< >>, << >>, failed, all, p)
    BY <1>5, <2>2, <2>5
  <2> QED BY <1>1, <2>4, <2>6
<1> QED BY <1>6, <1>7

-----------------------------------------------------------------------------
(* Conversation: the reply                                                 *)

\* What has been gathered of the tokens t: all of them, but a character may be torn.
Gathered(t) ==
  /\ Len(content) = Len(t)
  /\ \A i \in 1..Len(t) : content[i] = t[i] \/ (content[i] = Torn /\ t[i] = "w")

\* The stream has taken k of these lines; behind them stand the buffer and the wire.
StreamFits(lines, ends, all, tokens, k) ==
  /\ lines \in Seq(Lines) /\ IsBody(ends, all, lines) /\ IsTokens(tokens, lines)
  /\ k \in 0..Len(lines) /\ sent = tokens[Len(lines)] /\ Gathered(tokens[k])
  /\ Reads(buffer, wire, broken, all, ends[k])

\* The inductive invariant.
ReplyInv ==
  /\ sent \in Seq(Tokens) /\ content \in Seq(Tokens \cup {Torn})
  /\ shown \in Seq(Tokens \cup {Torn})
  /\ phase \in {"question", "complete"} =>
       /\ sent = << >> /\ content = << >> /\ shown = << >> /\ gone = FALSE
       /\ wire = << >> /\ buffer = << >> /\ broken = FALSE
  /\ phase = "streaming" =>
       /\ \E lines, ends, all, tokens, k : StreamFits(lines, ends, all, tokens, k)
       /\ ~gone => shown = content
  /\ ReplyIsWhatWasSent

\* What is gathered of the first k lines is a beginning of what was sent.
LEMMA FitsShape ==
  ASSUME NEW lines \in Seq(Lines), NEW tokens, IsTokens(tokens, lines), NEW k \in 0..Len(lines),
         NEW c \in Seq(Tokens \cup {Torn}), Len(c) = Len(tokens[k]),
         \A i \in 1..Len(tokens[k]) :
           c[i] = tokens[k][i] \/ (c[i] = Torn /\ tokens[k][i] = "w")
  PROVE  LET s == tokens[Len(lines)] IN
         /\ Len(c) <= Len(s)
         /\ \A i \in DOMAIN c : c[i] = s[i] \/ (c[i] = Torn /\ s[i] = "w")
<1>1. Len(lines) \in k..Len(lines)
  OBVIOUS
<1>2. Begins(tokens[k], tokens[Len(lines)])
  BY <1>1, TokensGrow
<1>3. DOMAIN c = 1..Len(c)
  OBVIOUS
<1> QED BY <1>2, <1>3 DEF Begins

\* The token of the next line is gathered.
LEMMA GatherLine ==
  ASSUME NEW lines \in Seq(Lines), NEW tokens, IsTokens(tokens, lines), NEW k \in 0..Len(lines),
         k < Len(lines), Gathered(tokens[k]), content \in Seq(Tokens \cup {Torn}),
         NEW b, FitsLine(b, lines[k + 1]),
         content' = IF Parse(b) \in {"nothing", "error"} THEN content
                    ELSE Append(content, Parse(b))
  PROVE  content' \in Seq(Tokens \cup {Torn}) /\ Gathered(tokens[k + 1])'
<1> PICK l, m : m = k + 1 /\ l = lines[m]
  OBVIOUS
<1>1. m \in 1..Len(lines) /\ m - 1 = k /\ l \in Lines
  OBVIOUS
<1>2. /\ tokens[k] \in Seq(Tokens)
      /\ tokens[m] = IF HasToken(l) THEN Append(tokens[m - 1], TokenIn(l)) ELSE tokens[m - 1]
  BY <1>1 DEF IsTokens
<1> PICK t, u : t = tokens[k] /\ u = tokens[m]
  OBVIOUS
<1>3. Len(content) = Len(t) /\ t \in Seq(Tokens)
      /\ \A i \in 1..Len(t) : content[i] = t[i] \/ (content[i] = Torn /\ t[i] = "w")
  BY <1>2 DEF Gathered
<1>4. CASE HasToken(l)
  <2>1. TokenIn(l) \in Tokens
    BY <1>1, <1>4, LineBytes
  <2>2. Parse(b) = TokenIn(l) \/ (Parse(b) = Torn /\ TokenIn(l) = "w")
    BY <1>1, <1>4, ParseLine
  <2>3. Parse(b) \notin {"nothing", "error"} /\ Parse(b) \in Tokens \cup {Torn}
    BY <2>1, <2>2 DEF Tokens, TokenLines, Torn
  <2>4. content' = Append(content, Parse(b)) /\ u = Append(t, TokenIn(l))
    BY <1>1, <1>2, <1>4, <2>3
  <2>5. content' \in Seq(Tokens \cup {Torn})
    BY <2>3, <2>4
  <2>6. /\ Len(content') = Len(u) /\ Len(u) = Len(t) + 1 /\ Len(t) \in Nat
        /\ \A i \in 1..Len(t) : content'[i] = content[i] /\ u[i] = t[i]
        /\ content'[Len(t) + 1] = Parse(b) /\ u[Len(t) + 1] = TokenIn(l)
    <3>1. TokenIn(l) \in Tokens /\ Parse(b) \in Tokens \cup {Torn}
      BY <2>1, <2>3
    <3> QED BY ONLY <1>3, <2>4, <3>1, content \in Seq(Tokens \cup {Torn})
  <2>7. Gathered(u)'
    <3>1. ASSUME NEW i \in 1..Len(u)
          PROVE  content'[i] = u[i] \/ (content'[i] = Torn /\ u[i] = "w")
      <4>1. i \in 1..Len(t) \/ i = Len(t) + 1
        BY <2>6
      <4> QED BY <1>3, <2>2, <2>6, <4>1
    <3> QED BY <2>6, <3>1 DEF Gathered
  <2> QED BY <2>5, <2>7
<1>5. CASE ~HasToken(l)
  <2>1. Parse(b) \in {"nothing", "error"}
    BY <1>1, <1>5, ParseLine
  <2>2. content' = content /\ u = t
    BY <1>1, <1>2, <1>5, <2>1
  <2>3. Gathered(u)'
    BY <1>3, <2>2 DEF Gathered
  <2> QED BY <2>2, <2>3
<1> QED BY <1>4, <1>5

\* Where the first newline in the buffer is.
LEMMA FirstNewline ==
  ASSUME buffer \in Seq(Bytes), HasLine
  PROVE  /\ LineEnd \in 1..Len(buffer) /\ buffer[LineEnd] = Newline
         /\ \A i \in 1..LineEnd - 1 : buffer[i] # Newline
<1> PICK P : P = {i \in 1..Len(buffer) : buffer[i] = Newline}
  OBVIOUS
<1>1. P # {} /\ LineEnd = Min(P)
  BY DEF HasLine, Contains, LineEnd, SelectInSeq
<1>2. Len(buffer) \in Nat /\ P \in SUBSET (0..Len(buffer))
  OBVIOUS
<1>3. LineEnd \in P /\ \A i \in P : LineEnd <= i
  BY <1>1, <1>2, MinOfSome
<1> QED BY <1>2, <1>3

\* Each answer of the stream: lines may have been taken with it.
LEMMA PollFits ==
  ASSUME NEW item \in Items, Poll(item), UNCHANGED sent,
         content' = IF item \in {"nothing", "error"} THEN content ELSE Append(content, item),
         content \in Seq(Tokens \cup {Torn}),
         \E lines, ends, all, tokens, k : StreamFits(lines, ends, all, tokens, k)
  PROVE  /\ content' \in Seq(Tokens \cup {Torn})
         /\ \E lines, ends, all, tokens, k : StreamFits(lines, ends, all, tokens, k)'
<1> PICK lines, ends, all, tokens, k : StreamFits(lines, ends, all, tokens, k)
  OBVIOUS
<1>1. /\ lines \in Seq(Lines) /\ IsBody(ends, all, lines) /\ IsTokens(tokens, lines)
      /\ k \in 0..Len(lines) /\ sent = tokens[Len(lines)] /\ Gathered(tokens[k])
      /\ Reads(buffer, wire, broken, all, ends[k])
  BY DEF StreamFits
<1>2. /\ all \in Seq(Bytes) /\ HalvesMatch(all) /\ ends[k] \in Nat
      /\ buffer \in Seq(Bytes)
  BY <1>1 DEF IsBody, Reads
<1>3. ASSUME NEW j \in 0..Len(lines), Gathered(tokens[j])',
             Reads(buffer, wire, broken, all, ends[j])'
      PROVE  \E lines_1, ends_1, all_1, tokens_1, k_1 :
               StreamFits(lines_1, ends_1, all_1, tokens_1, k_1)'
  <2>1. StreamFits(lines, ends, all, tokens, j)'
    BY <1>1, <1>3 DEF StreamFits
  <2> QED BY <2>1
<1>4. ASSUME content' = content PROVE Gathered(tokens[k])'
  BY <1>1, <1>4 DEF Gathered
<1>5. CASE Line(item)
  <2>1. /\ HasLine /\ item = Parse(SubSeq(buffer, 1, LineEnd - 1))
        /\ buffer' = SubSeq(buffer, LineEnd + 1, Len(buffer)) /\ UNCHANGED <<wire, broken>>
    BY <1>5 DEF Line
  <2> PICK m : m = LineEnd
    OBVIOUS
  <2>2. m \in 1..Len(buffer) /\ buffer[m] = Newline /\ \A i \in 1..m - 1 : buffer[i] # Newline
    BY <1>2, <2>1, FirstNewline
  <2>3. /\ k + 1 \in 1..Len(lines) /\ FitsLine(SubSeq(buffer, 1, m - 1), lines[k + 1])
        /\ Reads(SubSeq(buffer, m + 1, Len(buffer)), wire, broken, all, ends[k + 1])
    BY <1>1, <2>2, ReadsLine
  <2>4. k < Len(lines) /\ k + 1 \in 0..Len(lines)
    BY <1>1, <2>3
  <2> PICK b : b = SubSeq(buffer, 1, m - 1)
    OBVIOUS
  <2>5. /\ FitsLine(b, lines[k + 1])
        /\ content' = IF Parse(b) \in {"nothing", "error"} THEN content
                      ELSE Append(content, Parse(b))
    BY <2>1, <2>3
  <2>6. content' \in Seq(Tokens \cup {Torn}) /\ Gathered(tokens[k + 1])'
    BY <1>1, <2>4, <2>5, GatherLine
  <2>7. Reads(buffer, wire, broken, all, ends[k + 1])'
    BY <2>1, <2>3
  <2> QED BY <1>3, <2>4, <2>6, <2>7
<1>6. CASE Chunk(item)
  <2>1. PICK n \in 1..Len(wire) : /\ buffer' = buffer \o Decode(SubSeq(wire, 1, n))
                                  /\ wire' = SubSeq(wire, n + 1, Len(wire))
    BY <1>6 DEF Chunk
  <2>2. broken' = broken /\ content' = content
    BY <1>6 DEF Chunk
  <2>3. Reads(buffer \o Decode(SubSeq(wire, 1, n)), SubSeq(wire, n + 1, Len(wire)), broken,
              all, ends[k])
    BY <1>1, <1>2, ReadsChunk
  <2>4. Reads(buffer, wire, broken, all, ends[k])'
    BY <2>1, <2>2, <2>3
  <2> QED BY <1>1, <1>3, <1>4, <2>2, <2>4
<1>7. CASE Break(item)
  <2>1. wire' = << >> /\ broken' = TRUE /\ buffer' = buffer /\ content' = content
    BY <1>7 DEF Break
  <2>2. Reads(buffer, << >>, TRUE, all, ends[k])
    <3>1. /\ ends[k] + Len(buffer) + Len(wire) <= Len(all) /\ Len(wire) \in Nat
          /\ Len(buffer) \in Nat /\ Len(all) \in Nat /\ Decoded(buffer, all, ends[k])
      BY <1>1, <1>2 DEF Reads
    <3>2. ends[k] + Len(buffer) + 0 <= Len(all)
      BY <1>2, <3>1
    <3>3. << >> \in Seq(Bytes) /\ Len(<< >>) = 0 /\ \A i \in 1..0 : FALSE
      OBVIOUS
    <3> QED BY <1>2, <3>1, <3>2, <3>3 DEF Reads
  <2>3. Reads(buffer, wire, broken, all, ends[k])'
    BY <2>1, <2>2
  <2> QED BY <1>1, <1>3, <1>4, <2>1, <2>3
<1>8. CASE Rest(item)
  <2>1. /\ ~HasLine /\ wire = << >> /\ buffer # << >> /\ item = Parse(buffer)
        /\ buffer' = << >> /\ wire' = << >> /\ broken' = broken
    BY <1>8 DEF Rest
  <2>2. \A i \in 1..Len(buffer) : buffer[i] # Newline
    BY <2>1 DEF HasLine, Contains
  <2>3. Reads(buffer, << >>, broken, all, ends[k])
    BY <1>1, <2>1
  <2>4. /\ k < Len(lines)
        /\ \/ /\ FitsLine(buffer, lines[k + 1])
              /\ Reads(<< >>, << >>, broken, all, ends[k + 1])
           \/ /\ Parse(buffer) = "error"
              /\ Reads(<< >>, << >>, broken, all, ends[k])
    BY <1>1, <2>1, <2>2, <2>3, ReadsRest
  <2>5. CASE /\ FitsLine(buffer, lines[k + 1])
             /\ Reads(<< >>, << >>, broken, all, ends[k + 1])
    <3>1. k + 1 \in 0..Len(lines)
      BY <1>1, <2>4
    <3>2. content' = IF Parse(buffer) \in {"nothing", "error"} THEN content
                     ELSE Append(content, Parse(buffer))
      BY <2>1
    <3>3. content' \in Seq(Tokens \cup {Torn}) /\ Gathered(tokens[k + 1])'
      BY <1>1, <2>4, <2>5, <3>2, GatherLine
    <3>4. Reads(buffer, wire, broken, all, ends[k + 1])'
      BY <2>1, <2>5
    <3> QED BY <1>3, <3>1, <3>3, <3>4
  <2>6. CASE /\ Parse(buffer) = "error"
             /\ Reads(<< >>, << >>, broken, all, ends[k])
    <3>1. content' = content
      BY <2>1, <2>6
    <3>2. Reads(buffer, wire, broken, all, ends[k])'
      BY <2>1, <2>6
    <3> QED BY <1>1, <1>3, <1>4, <3>1, <3>2
  <2> QED BY <2>4, <2>5, <2>6
<1> QED BY <1>5, <1>6, <1>7, <1>8 DEF Poll

\* A stream that is over without a failure has given all its lines.
LEMMA AllRead ==
  ASSUME NEW lines, NEW ends, NEW all, NEW tokens, NEW k,
         StreamFits(lines, ends, all, tokens, k), StreamOver, ~broken
  PROVE  Len(content) = Len(sent)
<1>1. /\ lines \in Seq(Lines) /\ IsBody(ends, all, lines)
      /\ k \in 0..Len(lines) /\ sent = tokens[Len(lines)] /\ Gathered(tokens[k])
      /\ Reads(buffer, wire, broken, all, ends[k])
  BY DEF StreamFits
<1>2. k = Len(lines)
  <2> SUFFICES ASSUME k < Len(lines) PROVE FALSE
    BY <1>1
  <2>1. /\ Len(lines[k + 1]) \in {1, 2} /\ ends[k] \in Nat /\ Len(all) \in Nat
        /\ ends[k + 1] = ends[k] + Len(lines[k + 1]) + 1 /\ ends[k + 1] <= Len(all)
    BY <1>1, LineStands
  <2>2. ends[k] + 0 + 0 >= Len(all) - 1
    <3>1. buffer = << >> /\ wire = << >> /\ Len(<< >>) = 0
      BY DEF StreamOver
    <3> QED BY <1>1, <3>1 DEF Reads
  <2> PICK p, n, m : p = ends[k] /\ n = Len(all) /\ m = Len(lines[k + 1])
    OBVIOUS
  <2>3. /\ p \in Nat /\ n \in Nat /\ m \in Nat /\ m >= 1
        /\ p + m + 1 <= n /\ p + 0 + 0 >= n - 1
    <3>1. p \in Nat /\ n \in Nat /\ m \in {1, 2}
      BY <2>1
    <3>2. p + 0 + 0 >= n - 1
      BY <2>2
    <3>3. p + m + 1 <= n
      BY <2>1
    <3> QED BY ONLY <3>1, <3>2, <3>3
  <2> QED BY ONLY <2>3
<1> QED BY <1>1, <1>2 DEF Gathered

\* An answer begins to come.
LEMMA StreamStarts ==
  ASSUME ReplyInv, StartStream
  PROVE  ReplyInv'
<1>1. PICK lines \in BoundedSeq(Lines, MaxLines), closed \in BOOLEAN :
        wire' = Body(lines, closed) /\ sent' = TokensOf(lines)
  BY DEF StartStream
<1>2. /\ phase' = "streaming" /\ UNCHANGED <<content, shown, gone, buffer, broken>>
      /\ content = << >> /\ shown = << >> /\ buffer = << >> /\ ~broken /\ ~gone
      /\ broken = FALSE
  BY DEF StartStream, ReplyInv
<1>3. lines \in Seq(Lines)
  <2>1. MaxLines \in Nat
    BY ConversationAssumption
  <2>2. PICK m \in 0..MaxLines : lines \in [1..m -> Lines]
    BY <2>1 DEF BoundedSeq, SeqOf
  <2> QED BY <2>1, <2>2
<1>4. PICK ends, all : /\ IsBody(ends, all, lines)
                       /\ wire' \in Seq(Bytes) /\ Begins(wire', all) /\ Len(wire') >= Len(all) - 1
  BY <1>1, <1>3, BodyBegins
<1>5. PICK tokens : IsTokens(tokens, lines) /\ sent' = tokens[Len(lines)]
  BY <1>1, <1>3, TokensAre
<1>6. /\ tokens[0] = << >> /\ tokens[Len(lines)] \in Seq(Tokens) /\ ends[0] = 0
      /\ 0 \in 0..Len(lines) /\ all \in Seq(Bytes)
  BY <1>3, <1>4, <1>5 DEF IsTokens, IsBody
<1>7. Reads(<< >>, wire', FALSE, all, 0)
  <2>1. /\ << >> \in Seq(Bytes) /\ Len(<< >>) = 0 /\ \A i \in 1..0 : FALSE
        /\ Len(wire') \in Nat /\ Len(all) \in Nat
    BY <1>4, <1>6
  <2>2. /\ Len(wire') <= Len(all) /\ \A i \in 1..Len(wire') : wire'[i] = all[i]
    BY <1>4 DEF Begins
  <2>3. /\ 0 + 0 + Len(wire') = Len(wire') /\ \A i \in 1..Len(wire') : 0 + 0 + i = i
    BY <2>1
  <2>4. Decoded(<< >>, all, 0)
    BY <2>1 DEF Decoded
  <2> QED BY <1>4, <2>1, <2>2, <2>3, <2>4 DEF Reads
<1>8. Gathered(<< >>)'
  BY <1>2 DEF Gathered
<1>9. StreamFits(lines, ends, all, tokens, 0)'
  BY <1>2, <1>3, <1>4, <1>5, <1>6, <1>7, <1>8 DEF StreamFits
<1>10. sent' \in Seq(Tokens) /\ ReplyIsWhatWasSent'
  <2>1. sent' \in Seq(Tokens) /\ Len(content') = 0 /\ DOMAIN content' = {} /\ Len(sent') \in Nat
    BY <1>2, <1>5, <1>6
  <2>2. IsPrefix(shown', content')
    BY <1>2 DEF IsPrefix
  <2> QED BY <1>2, <2>1, <2>2 DEF ReplyIsWhatWasSent
<1> QED BY <1>2, <1>9, <1>10 DEF ReplyInv

\* A beginning of a sequence is one of a longer one.
LEMMA PrefixGrows ==
  ASSUME NEW S, NEW s \in Seq(S), NEW t \in Seq(S), NEW x \in S, IsPrefix(s, t)
  PROVE  IsPrefix(s, Append(t, x))
<1>1. Len(s) <= Len(t) /\ SubSeq(s, 1, Len(s)) = SubSeq(t, 1, Len(s))
  BY DEF IsPrefix
<1>2. Len(Append(t, x)) = Len(t) + 1 /\ Len(s) \in Nat /\ Len(t) \in Nat
  OBVIOUS
<1>3. SubSeq(Append(t, x), 1, Len(s)) = SubSeq(t, 1, Len(s))
  BY <1>1
<1> QED BY <1>1, <1>2, <1>3 DEF IsPrefix

\* The loop of stream_llm_reply() goes round once.
LEMMA StreamGoesOn ==
  ASSUME ReplyInv, StreamNext
  PROVE  ReplyInv'
<1>1. PICK item \in Items :
        Poll(item) /\ IF item = "nothing" THEN UNCHANGED <<content, shown, phase>>
                      ELSE Receive(item)
  BY DEF StreamNext
<1>2. /\ phase = "streaming" /\ UNCHANGED <<sent, gone>>
      /\ sent \in Seq(Tokens) /\ content \in Seq(Tokens \cup {Torn})
      /\ shown \in Seq(Tokens \cup {Torn}) /\ (~gone => shown = content)
      /\ IsPrefix(shown, content)
      /\ \E lines, ends, all, tokens, k : StreamFits(lines, ends, all, tokens, k)
  BY DEF StreamNext, ReplyInv, ReplyIsWhatWasSent
<1>3. /\ content' = IF item \in {"nothing", "error"} THEN content ELSE Append(content, item)
      /\ shown' = IF gone \/ item \in {"nothing", "error"} THEN shown ELSE Append(shown, item)
      /\ phase' = "streaming" \/ (phase' = "reply" /\ gone)
  BY <1>1, <1>2 DEF Receive
<1>4. /\ content' \in Seq(Tokens \cup {Torn})
      /\ \E lines, ends, all, tokens, k : StreamFits(lines, ends, all, tokens, k)'
  BY <1>1, <1>2, <1>3, PollFits
<1>5. PICK lines, ends, all, tokens, k : StreamFits(lines, ends, all, tokens, k)'
  BY <1>4
<1>6. /\ Len(content') <= Len(sent')
      /\ \A i \in DOMAIN content' :
           content'[i] = sent'[i] \/ (content'[i] = Torn /\ sent'[i] = "w")
  <2>1. /\ lines \in Seq(Lines) /\ IsTokens(tokens, lines) /\ k \in 0..Len(lines)
        /\ sent' = tokens[Len(lines)] /\ Len(content') = Len(tokens[k])
        /\ \A i \in 1..Len(tokens[k]) :
             content'[i] = tokens[k][i] \/ (content'[i] = Torn /\ tokens[k][i] = "w")
    BY <1>5 DEF StreamFits, Gathered
  <2> PICK c : c = content'
    OBVIOUS
  <2>2. LET s == tokens[Len(lines)] IN
        /\ Len(c) <= Len(s)
        /\ \A i \in DOMAIN c : c[i] = s[i] \/ (c[i] = Torn /\ s[i] = "w")
    <3>1. /\ c \in Seq(Tokens \cup {Torn}) /\ Len(c) = Len(tokens[k])
          /\ \A i \in 1..Len(tokens[k]) :
               c[i] = tokens[k][i] \/ (c[i] = Torn /\ tokens[k][i] = "w")
      BY ONLY <1>4, <2>1, c = content'
    <3> QED BY ONLY <2>1, <3>1, FitsShape
  <2> QED BY <2>1, <2>2
<1>7. ~gone => shown' = content'
  BY <1>2, <1>3
<1>8. IsPrefix(shown', content')
  <2>1. CASE gone
    <3>1. shown' = shown /\ (content' = content \/ content' = Append(content, item))
      BY <1>3, <2>1
    <3>2. item \in {"nothing", "error"} \/ item \in Tokens \cup {Torn}
      BY DEF Items
    <3>3. CASE content' = content
      BY <1>2, <3>1, <3>3
    <3>4. CASE item \in Tokens \cup {Torn} /\ content' = Append(content, item)
      <4>1. IsPrefix(shown, Append(content, item))
        BY <1>2, <3>4, PrefixGrows
      <4> QED BY <3>1, <3>4, <4>1
    <3> QED BY <1>3, <3>1, <3>2, <3>3, <3>4
  <2>2. CASE ~gone
    BY <1>4, <1>7, <2>2 DEF IsPrefix
  <2> QED BY <2>1, <2>2
<1>9. shown' \in Seq(Tokens \cup {Torn})
  <2>1. CASE gone
    BY <1>2, <1>3, <2>1
  <2>2. CASE ~gone
    BY <1>4, <1>7, <2>2
  <2> QED BY <2>1, <2>2
<1>10. ReplyIsWhatWasSent'
  BY <1>2, <1>3, <1>6, <1>8 DEF ReplyIsWhatWasSent
<1> QED BY <1>2, <1>3, <1>4, <1>5, <1>7, <1>9, <1>10 DEF ReplyInv

\* The other steps.
LEMMA ReplyStep == ReplyInv /\ [Next]_vars => ReplyInv'
<1> SUFFICES ASSUME ReplyInv, [Next]_vars PROVE ReplyInv'
  OBVIOUS
<1> USE DEF ReplyInv
<1>1. CASE Ask
  <2>1. /\ sent' = << >> /\ content' = << >> /\ shown' = << >> /\ gone' = FALSE
        /\ wire' = << >> /\ buffer' = << >> /\ broken' = FALSE
        /\ phase' \in {"question", "complete"}
    BY <1>1 DEF Ask, AskWith
  <2>2. ReplyIsWhatWasSent'
    BY <2>1 DEF ReplyIsWhatWasSent, IsPrefix
  <2> QED BY <2>1, <2>2
<1>2. CASE StoreQuestion \/ StoreReply \/ Fail \/ Complete \/ Fallback
  <2>1. /\ UNCHANGED <<replyVars, streamVars>>
        /\ phase \in {"question", "complete", "reply"}
        /\ phase' \in {"question", "complete", "reply", "idle"}
        /\ phase' \in {"question", "complete"} => phase \in {"question", "complete"}
    BY <1>2 DEF StoreQuestion, StoreReply, Fail, Complete, Fallback
  <2>2. phase' = "reply" => Len(shown) = Len(sent) \/ gone \/ broken
    <3>1. phase' = "reply" => phase \in {"question", "complete"}
      BY <1>2 DEF StoreQuestion, StoreReply, Fail, Complete, Fallback
    <3> QED BY <3>1
  <2> QED BY <2>1, <2>2 DEF replyVars, streamVars, ReplyIsWhatWasSent
<1>3. CASE StartStream
  BY <1>3, StreamStarts
<1>4. CASE StreamNext
  BY <1>4, StreamGoesOn
<1>5. CASE StreamEnds
  <2>1. /\ phase = "streaming" /\ phase' = "reply" /\ StreamOver
        /\ UNCHANGED <<replyVars, streamVars>>
    BY <1>5 DEF StreamEnds
  <2>2. ~gone /\ ~broken => Len(shown) = Len(sent)
    BY <2>1, AllRead
  <2> QED BY <2>1, <2>2 DEF replyVars, streamVars, ReplyIsWhatWasSent
<1>6. CASE Leave
  <2>1. /\ phase = "streaming" /\ gone' = TRUE
        /\ UNCHANGED <<phase, sent, content, shown, streamVars>>
    BY <1>6 DEF Leave
  <2>2. \A lines, ends, all, tokens, k : StreamFits(lines, ends, all, tokens, k)' <=>
                                         StreamFits(lines, ends, all, tokens, k)
    BY <2>1 DEF StreamFits, Gathered, streamVars
  <2>3. ReplyIsWhatWasSent'
    BY <2>1 DEF ReplyIsWhatWasSent
  <2> QED BY <2>1, <2>2, <2>3
<1>7. CASE UNCHANGED vars
  <2>1. UNCHANGED <<phase, replyVars, streamVars>>
    BY <1>7 DEF vars
  <2>2. \A lines, ends, all, tokens, k : StreamFits(lines, ends, all, tokens, k)' <=>
                                         StreamFits(lines, ends, all, tokens, k)
    BY <2>1 DEF StreamFits, Gathered, streamVars, replyVars
  <2> QED BY <2>1, <2>2 DEF replyVars, streamVars, ReplyIsWhatWasSent
<1> QED BY <1>1, <1>2, <1>3, <1>4, <1>5, <1>6, <1>7 DEF Next

\* ReplyInv holds in every reachable state.
THEOREM ReplyInductive == Spec => []ReplyInv
<1>1. Init => ReplyInv
  BY DEF Init, ReplyInv, ReplyIsWhatWasSent, IsPrefix
<1> QED BY <1>1, ReplyStep, PTL DEF Spec

\* However the body is cut into chunks, the reply that is gathered and stored is what
\* the LLM sent, and the client sees it.
THEOREM RepliesAreWhole == Spec => []ReplyIsWhatWasSent
<1>1. ReplyInv => ReplyIsWhatWasSent
  BY DEF ReplyInv
<1> QED BY <1>1, ReplyInductive, PTL

-----------------------------------------------------------------------------
(* FallbackAnswers: what the responder reads                               *)

Counts == Numerals \cup {"none"}
Words == Numerals \cup {"memory", "disks", "networks", "processes"}
ServerNames == {"plain", "dotted", "other"}

\* What a message may be, and what may have been read of some.
Handed ==
  [role : {"system", "user", "assistant"}, text : {"said", "metrics", "headed", "none", "wrapped"},
   about : SUBSET ToSet(Topics), cpu : Counts, words : Seq(Words), servers : Seq(ServerNames),
   lines : Seq(ServerNames), tops : BOOLEAN]
Reading ==
  [cpu : Counts, memory : Counts, disks : Counts, networks : Counts, processes : Counts]

\* A word of eight that is nowhere else is found where it is.
LEMMA FoundOnce ==
  ASSUME NEW words, NEW word, NEW k \in 1..8, NEW by \in {1, -1}, Len(words) = 8,
         DOMAIN words = 1..8, words[k] = word, \A i \in 1..8 : i # k => words[i] # word,
         k + by \in 1..8
  PROVE  At(words, word, by) = Parsed(words[k + by])
<1> PICK I : I = {i \in 1..Len(words) : words[i] = word}
  OBVIOUS
<1>1. I = {k}
  OBVIOUS
<1>2. Max(I) = k
  <2>1. Max(I) \in I /\ \A y \in I : y <= Max(I)
    <3>1. 8 \in Nat /\ I \in SUBSET (0..8) /\ I # {}
      BY <1>1
    <3> QED BY <3>1, MaxOfSome
  <2> QED BY <1>1, <2>1
<1>3. SelectLastInSeq(words, LAMBDA w : w = word) = k
  BY <1>1, <1>2 DEF SelectLastInSeq
<1>4. k > 0
  OBVIOUS
<1> QED BY <1>3, <1>4 DEF At

\* The words of a line of metrics.
WordsFor(c, d, n, p) == <<"memory", c, d, "disks", n, "networks", p, "processes">>

\* Where each of them is.
LEMMA WordsOfLine ==
  ASSUME NEW c \in Numerals, NEW d \in Numerals, NEW n \in Numerals, NEW p \in Numerals,
         NEW u, u = WordsFor(c, d, n, p)
  PROVE  /\ Len(u) = 8 /\ DOMAIN u = 1..8 /\ u[2] \in Numerals /\ u[7] = p
         /\ u[1] = "memory" /\ \A i \in 1..8 : i # 1 => u[i] # "memory"
         /\ u[8] = "processes" /\ \A i \in 1..8 : i # 8 => u[i] # "processes"
         /\ u \in Seq(Words)
<1> PICK T : T = Words
  OBVIOUS
<1>1. /\ "memory" \in T /\ c \in T /\ d \in T /\ "disks" \in T /\ n \in T
      /\ "networks" \in T /\ p \in T /\ "processes" \in T
  BY DEF Words, Numerals
<1>2. WordsFor(c, d, n, p) \in Seq(T)
  BY ONLY <1>1 DEF WordsFor
<1>3. /\ Len(WordsFor(c, d, n, p)) = 8 /\ WordsFor(c, d, n, p)[1] = "memory"
      /\ WordsFor(c, d, n, p)[2] = c /\ WordsFor(c, d, n, p)[3] = d
      /\ WordsFor(c, d, n, p)[4] = "disks" /\ WordsFor(c, d, n, p)[5] = n
      /\ WordsFor(c, d, n, p)[6] = "networks" /\ WordsFor(c, d, n, p)[7] = p
      /\ WordsFor(c, d, n, p)[8] = "processes"
  BY ONLY TRUE DEF WordsFor
<1>4. /\ Len(u) = 8 /\ u[1] = "memory" /\ u[2] = c /\ u[3] = d /\ u[4] = "disks"
      /\ u[5] = n /\ u[6] = "networks" /\ u[7] = p /\ u[8] = "processes"
      /\ u \in Seq(T)
  BY ONLY <1>2, <1>3, u = WordsFor(c, d, n, p), Zenon
<1>5. DOMAIN u = 1..8
  BY ONLY <1>4
<1>6. /\ c \in {"1", "2"} /\ d \in {"1", "2"} /\ n \in {"1", "2"} /\ p \in {"1", "2"}
      /\ c \in Numerals
  BY DEF Numerals
<1>7. \A i \in 1..8 : i # 1 => u[i] # "memory"
  BY ONLY <1>4, <1>6
<1>8. \A i \in 1..8 : i # 8 => u[i] # "processes"
  BY ONLY <1>4, <1>6
<1> QED BY <1>4, <1>5, <1>6, <1>7, <1>8

\* The lines there may be, the pasted ones with them.
AnyServers == ServerLists \cup {<<"other">>}
AnyLines ==
  {MetricLine(c, d, n, p, s) :
     c \in Numerals, d \in Numerals, n \in Numerals, p \in Numerals, s \in AnyServers}

\* What the responder finds in a line of metrics.
LEMMA LineIsRead ==
  ASSUME NEW line \in AnyLines
  PROVE  /\ line.role = "user" /\ line.text = "metrics" /\ line.words # << >>
         /\ line.cpu \in Counts /\ line.words[2] \in Counts /\ line.words[7] \in Counts
         /\ line.servers \in Seq(ServerNames) /\ line.lines = << >>
         /\ line.tops <=> line.servers # << >>
         /\ At(line.words, "memory", 1) = line.words[2]
         /\ At(line.words, "processes", -1) = line.words[7]
         /\ line \in Handed
<1>1. PICK c \in Numerals, d \in Numerals, n \in Numerals, p \in Numerals, s \in AnyServers :
        line = MetricLine(c, d, n, p, s)
  BY DEF AnyLines
<1> PICK u : u = WordsFor(c, d, n, p)
  OBVIOUS
<1> PICK e : e = (s # << >>)
  OBVIOUS
<1>2. /\ line.role = "user" /\ line.text = "metrics" /\ line.cpu = c /\ line.servers = s
      /\ line.lines = << >> /\ line.tops = e /\ line.words = u /\ line.about = {"cpu", "memory", "disk", "network", "process"}
      /\ line = [role |-> "user", text |-> "metrics",
                 about |-> {"cpu", "memory", "disk", "network", "process"},
                 cpu |-> c, words |-> u, servers |-> s, lines |-> << >>, tops |-> e]
  BY <1>1 DEF MetricLine, WordsFor
<1>3. /\ Len(u) = 8 /\ DOMAIN u = 1..8 /\ u[2] \in Numerals /\ u[7] = p
      /\ u[1] = "memory" /\ u[8] = "processes" /\ u \in Seq(Words)
  BY WordsOfLine
<1>4. \A i \in 1..8 : i # 1 => u[i] # "memory"
  BY WordsOfLine
<1>5. \A i \in 1..8 : i # 8 => u[i] # "processes"
  BY WordsOfLine
<1>6. At(u, "memory", 1) = Parsed(u[2])
  <2>1. 1 \in 1..8 /\ 1 \in {1, -1} /\ 1 + 1 \in 1..8 /\ 1 + 1 = 2
    OBVIOUS
  <2>2. At(u, "memory", 1) = Parsed(u[1 + 1])
    BY ONLY <1>3, <1>4, <2>1, FoundOnce
  <2> QED BY <2>1, <2>2
<1>7. At(u, "processes", -1) = Parsed(u[7])
  <2>1. 8 \in 1..8 /\ -1 \in {1, -1} /\ 8 + -1 \in 1..8 /\ 8 + -1 = 7
    OBVIOUS
  <2>2. At(u, "processes", -1) = Parsed(u[8 + -1])
    BY ONLY <1>3, <1>5, <2>1, FoundOnce
  <2> QED BY <2>1, <2>2
<1>8. Parsed(u[2]) = u[2] /\ Parsed(u[7]) = u[7] /\ u[2] \in Counts /\ u[7] \in Counts
  BY <1>3 DEF Parsed, Numerals, Counts
<1>9. u # << >>
  <2>1. Len(<< >>) = 0
    OBVIOUS
  <2>2. 0 # 8
    OBVIOUS
  <2> QED BY ONLY <1>3, <2>1, <2>2
<1>10. s \in Seq(ServerNames)
  <2> PICK T : T = ServerNames
    OBVIOUS
  <2>1. "plain" \in T /\ "dotted" \in T /\ "other" \in T
    BY DEF ServerNames
  <2>2. /\ << >> \in Seq(T) /\ <<"plain">> \in Seq(T) /\ <<"dotted", "plain">> \in Seq(T)
        /\ <<"plain", "dotted">> \in Seq(T) /\ <<"other">> \in Seq(T)
    BY ONLY <2>1
  <2> QED BY <2>2, Zenon DEF AnyServers, ServerLists
<1>11. u \in Seq(Words)
  BY <1>3
<1>12. line \in Handed
  <2>1. {"cpu", "memory", "disk", "network", "process"} \subseteq ToSet(Topics)
    <3>1. DOMAIN Topics = 1..9 /\ Topics[2] = "cpu" /\ Topics[3] = "memory"
          /\ Topics[4] = "disk" /\ Topics[5] = "network" /\ Topics[7] = "process"
      BY DEF Topics
    <3>2. 2 \in 1..9 /\ 3 \in 1..9 /\ 4 \in 1..9 /\ 5 \in 1..9 /\ 7 \in 1..9
      OBVIOUS
    <3> QED BY <3>1, <3>2 DEF ToSet
  <2>2. c \in Counts
    BY DEF Counts
  <2>3. << >> \in Seq(ServerNames) /\ e \in BOOLEAN
    OBVIOUS
  <2> QED BY <1>2, <1>10, <1>11, <2>1, <2>2, <2>3 DEF Handed
<1>13. line.cpu \in Counts
  BY <1>2 DEF Counts
<1>14. line.tops <=> line.servers # << >>
  BY <1>2
<1> QED BY <1>2, <1>14, <1>6, <1>7, <1>8, <1>9, <1>10, <1>12, <1>13

\* Reading a message, and reading the line that was written.
LEMMA ReadIsReading ==
  ASSUME NEW out \in Reading, NEW m \in Handed
  PROVE  /\ Read(out, m) \in Reading
         /\ m.text # "metrics" => Read(out, m) = out
<1>1. ASSUME NEW w PROVE Parsed(w) \in Counts
  BY DEF Parsed, Counts
<1>2. ASSUME NEW words, NEW word, NEW by PROVE At(words, word, by) \in Counts
  BY <1>1, "none" \in Counts DEF At, Counts
<1>3. /\ out.memory \in Counts /\ out.disks \in Counts /\ out.networks \in Counts
      /\ out.processes \in Counts /\ m.cpu \in Counts
  BY DEF Reading, Handed
<1>4. ASSUME m.text = "metrics", m.role = "user" PROVE Read(out, m) \in Reading
  <2> PICK a1, a2, a3, a4 :
        /\ a1 = IF m.words = << >> THEN out.memory ELSE At(m.words, "memory", 1)
        /\ a2 = IF m.words = << >> THEN out.disks ELSE At(m.words, "disks", 1)
        /\ a3 = IF m.words = << >> THEN out.networks ELSE At(m.words, "networks", 1)
        /\ a4 = IF m.words = << >> THEN out.processes ELSE At(m.words, "processes", -1)
    OBVIOUS
  <2>1. a1 \in Counts /\ a2 \in Counts /\ a3 \in Counts /\ a4 \in Counts
    BY <1>2, <1>3
  <2>2. Read(out, m) = [cpu |-> m.cpu, memory |-> a1, disks |-> a2, networks |-> a3,
                        processes |-> a4]
    BY <1>4 DEF Read
  <2> QED BY <1>3, <2>1, <2>2 DEF Reading
<1>5. ASSUME m.text # "metrics" \/ m.role # "user" PROVE Read(out, m) = out
  BY <1>5 DEF Read
<1> QED BY <1>4, <1>5

\* The lines that may be written, and the one that may be pasted.
LEMMA WrittenLines == MetricLines \subseteq AnyLines /\ Pasted \in AnyLines
<1>1. "1" \in Numerals /\ "2" \in Numerals /\ <<"other">> \in AnyServers
      /\ ServerLists \subseteq AnyServers
  BY DEF Numerals, AnyServers
<1>2. Pasted \in AnyLines
  <2>1. \E c \in Numerals, d \in Numerals, n \in Numerals, p \in Numerals, s \in AnyServers :
          Pasted = MetricLine(c, d, n, p, s)
    BY <1>1, Zenon DEF Pasted
  <2> QED BY <2>1 DEF AnyLines
<1>3. ASSUME NEW line \in MetricLines PROVE line \in AnyLines
  <2>1. \E p \in Numerals, s \in AnyServers : line = MetricLine("1", "1", "2", p, s)
    BY <1>1 DEF MetricLines
  <2>2. \E c \in Numerals, d \in Numerals, n \in Numerals, p \in Numerals, s \in AnyServers :
          line = MetricLine(c, d, n, p, s)
    BY <1>1, <2>1, Zenon
  <2> QED BY <2>2 DEF AnyLines
<1> QED BY <1>2, <1>3

\* A line replaces what was read of those before it.
LEMMA LineReplaces ==
  ASSUME NEW out \in Reading, NEW line \in AnyLines
  PROVE  /\ Read(out, line).cpu = line.cpu
         /\ Read(out, line).memory = line.words[2]
         /\ Read(out, line).processes = line.words[7]
  BY LineIsRead DEF Read

\* What extract_metrics() computes: what has been read up to each place.
IsRead(r, msgs) ==
  /\ r \in [0..Len(msgs) -> Reading]
  /\ r[0] = Unread
  /\ \A k \in 1..Len(msgs) : r[k] = Read(r[k - 1], msgs[k])

\* Metrics is the last value of that function.
LEMMA MetricsAre ==
  ASSUME given \in Seq(Handed)
  PROVE  \E r : IsRead(r, given) /\ Metrics = r[Len(given)]
<1> PICK msgs : msgs = given
  OBVIOUS
<1> PICK n : n = Len(msgs)
  OBVIOUS
<1>1. n \in Nat /\ \A k \in 1..n : msgs[k] \in Handed
  OBVIOUS
<1> PICK step : step = [k \in 1..n |-> [s \in Reading |-> Read(s, msgs[k])]]
  OBVIOUS
<1>2. ASSUME NEW k \in 1..n, NEW s \in Reading
      PROVE  step[k][s] = Read(s, msgs[k]) /\ step[k][s] \in Reading
  <2>1. step[k] = [u \in Reading |-> Read(u, msgs[k])]
    OBVIOUS
  <2>2. step[k][s] = Read(s, msgs[k])
    BY <2>1
  <2> QED BY <1>1, <2>2, ReadIsReading
<1>3. step \in [1..n -> [Reading -> Reading]]
  <2>1. ASSUME NEW k \in 1..n PROVE step[k] \in [Reading -> Reading]
    <3>1. \A s \in Reading : step[k][s] \in Reading
      BY <1>2
    <3>2. step[k] = [s \in Reading |-> step[k][s]]
      OBVIOUS
    <3> QED BY <3>1, <3>2
  <2>2. step = [k \in 1..n |-> step[k]]
    OBVIOUS
  <2> QED BY <2>1, <2>2
<1>4. Unread \in Reading
  BY DEF Unread, Reading, Counts
<1>5. PICK f : IsRecursive(f, Reading, Unread, n, step)
  BY <1>1, <1>3, <1>4, RecursionExists, Zenon
<1>6. /\ f \in [0..n -> Reading] /\ f[0] = Unread
      /\ \A k \in 1..n : f[k] = step[k][f[k - 1]]
  BY <1>5 DEF IsRecursive
<1>7. ASSUME NEW k \in 1..n PROVE f[k] = Read(f[k - 1], msgs[k])
  <2>1. k - 1 \in 0..n
    BY <1>1
  <2>2. f[k - 1] \in Reading /\ f[k] = step[k][f[k - 1]]
    BY <1>6, <2>1
  <2> QED BY <1>2, <2>2
<1>8. IsRead(f, msgs)
  BY <1>6, <1>7 DEF IsRead
<1> DEFINE Equation(g) ==
      g = [i \in 0..Len(given) |-> IF i = 0 THEN Unread ELSE Read(g[i - 1], given[i])]
<1>9. Equation(f)
  <2>1. \A k \in 0..n : f[k] = IF k = 0 THEN Unread ELSE Read(f[k - 1], msgs[k])
    <3> SUFFICES ASSUME NEW k \in 0..n
                 PROVE  f[k] = IF k = 0 THEN Unread ELSE Read(f[k - 1], msgs[k])
      OBVIOUS
    <3>1. CASE k = 0
      BY <1>6, <3>1
    <3>2. CASE k # 0
      <4>1. k \in 1..n
        BY <3>2
      <4> QED BY <1>7, <3>2, <4>1
    <3> QED BY <3>1, <3>2
  <2> QED BY <1>6, <2>1
<1>10. ASSUME NEW g, Equation(g) PROVE g = f
  <2>1. ASSUME NEW k \in 1..n, g[k - 1] \in Reading PROVE g[k] = step[k][g[k - 1]]
    <3>1. step[k][g[k - 1]] = Read(g[k - 1], msgs[k])
      BY <1>2, <2>1
    <3>2. k \in 0..Len(given) /\ k # 0
      OBVIOUS
    <3>3. g[k] = Read(g[k - 1], given[k])
      BY <1>10, <3>2
    <3> QED BY <3>1, <3>3
  <2>2. g[0] = Unread
    BY <1>10
  <2>3. Follows(g, Reading, Unread, n, step)
    BY <2>1, <2>2 DEF Follows
  <2>4. \A k \in 0..n : g[k] = f[k]
    BY ONLY <1>1, <1>5, <2>3, RecursionOnce
  <2>5. DOMAIN g = 0..n /\ g = [k \in 0..n |-> g[k]]
    BY <1>10
  <2> QED BY <1>6, <2>4, <2>5
<1>11. Metrics = (CHOOSE g : Equation(g))[Len(given)]
  BY DEF Metrics
<1>12. (CHOOSE g : Equation(g)) = f
  BY <1>9, <1>10
<1> HIDE DEF Equation
<1> QED BY <1>8, <1>11, <1>12

\* The messages that name only servers of others.
Foreign == {m \in Handed : m.servers \in Seq({"other"}) /\ m.lines \in Seq({"other"})}

\* Where the line is, that no line comes after it, and that no other message names a
\* server of its.
BehindAt(j, msgs, line) ==
  /\ j \in DOMAIN msgs /\ msgs[j] = line
  /\ \A i \in j + 1..Len(msgs) : msgs[i].text # "metrics"
  /\ \A i \in DOMAIN msgs : i # j => msgs[i] \in Foreign

\* Then what is told of the line is what has been read in the end.
LEMMA LastLineCounts ==
  ASSUME given \in Seq(Handed), NEW j, NEW line \in AnyLines, BehindAt(j, given, line)
  PROVE  /\ Metrics.cpu = line.cpu /\ Metrics.memory = line.words[2]
         /\ Metrics.processes = line.words[7]
<1> PICK r : IsRead(r, given) /\ Metrics = r[Len(given)]
  BY MetricsAre, Zenon
<1> PICK n : n = Len(given)
  OBVIOUS
<1>1. /\ n \in Nat /\ j \in 1..n /\ given[j] = line
      /\ \A i \in 1..n : given[i] \in Handed
      /\ \A i \in j + 1..n : given[i].text # "metrics"
  BY DEF BehindAt
<1>2. /\ r \in [0..n -> Reading] /\ \A k \in 1..n : r[k] = Read(r[k - 1], given[k])
  BY DEF IsRead
<1>3. j - 1 \in 0..n /\ r[j - 1] \in Reading /\ r[j] = Read(r[j - 1], line)
  BY <1>1, <1>2
<1>4. r[j].cpu = line.cpu /\ r[j].memory = line.words[2] /\ r[j].processes = line.words[7]
  BY <1>3, LineReplaces
<1> PICK P : P = {k \in Nat : j + k <= n => r[j + k] = r[j]}
  OBVIOUS
<1>5. 0 \in P
  BY <1>1
<1>6. ASSUME NEW k \in Nat, k \in P PROVE k + 1 \in P
  <2> SUFFICES ASSUME j + (k + 1) <= n PROVE r[j + (k + 1)] = r[j]
    OBVIOUS
  <2> PICK i : i = j + (k + 1)
    OBVIOUS
  <2>1. i \in j + 1..n /\ i \in 1..n /\ i - 1 = j + k /\ j + k <= n /\ i - 1 \in 0..n
    BY <1>1
  <2>2. r[i - 1] = r[j]
    BY <1>6, <2>1
  <2>3. r[i] = Read(r[i - 1], given[i]) /\ r[i - 1] \in Reading /\ given[i] \in Handed
        /\ given[i].text # "metrics"
    BY <1>1, <1>2, <2>1
  <2>4. r[i] = r[i - 1]
    BY <2>3, ReadIsReading
  <2> QED BY <2>2, <2>4
<1>7. n - j \in P
  <2>1. Nat \subseteq P
    BY <1>5, <1>6, SetInduction
  <2>2. n - j \in Nat
    BY <1>1
  <2> QED BY <2>1, <2>2
<1>8. r[n] = r[j]
  <2>1. j + (n - j) = n /\ n <= n
    BY <1>1
  <2> QED BY <1>7, <2>1
<1> QED BY <1>4, <1>8

\* The names up to the dot.
LEMMA UpToDotIs ==
  ASSUME NEW S, NEW names \in Seq(S)
  PROVE  UpToDot(names) \in Seq(S)
<1> PICK n : n = Len(names)
  OBVIOUS
<1> PICK I : I = {i \in 1..Len(names) : names[i] = "dotted"}
  OBVIOUS
<1>1. n \in Nat /\ I \in SUBSET (0..n) /\ I \subseteq 1..n
  OBVIOUS
<1>2. SelectInSeq(names, LAMBDA s : s = "dotted") = IF I # {} THEN Min(I) ELSE 0
  BY DEF SelectInSeq
<1>3. CASE I = {}
  BY <1>2, <1>3 DEF UpToDot
<1>4. CASE I # {}
  <2>1. Min(I) \in I
    BY <1>1, <1>4, MinOfSome
  <2> PICK m : m = Min(I)
    OBVIOUS
  <2>2. m \in 1..n /\ m # 0 /\ m - 1 \in 0..n
    BY <1>1, <2>1
  <2>3. UpToDot(names) = SubSeq(names, 1, m - 1)
    BY <1>2, <1>4, <2>2 DEF UpToDot
  <2>4. SubSeq(names, 1, m - 1) \in Seq(S)
    <3>1. \A i \in 1..m - 1 : names[i] \in S /\ i \in 1..n
      BY <2>2
    <3>2. [i \in 1..m - 1 |-> names[i]] \in [1..m - 1 -> S] /\ m - 1 \in Nat
      BY <2>2, <3>1
    <3>3. SubSeq(names, 1, m - 1) = [i \in 1..m - 1 |-> names[i]]
      BY <2>2, <3>1
    <3> QED BY <3>2, <3>3
  <2> QED BY <2>3, <2>4
<1> QED BY <1>3, <1>4

\* A sequence is over every set that has its elements.
LEMMA OverMore ==
  ASSUME NEW S, NEW T, S \subseteq T, NEW s \in Seq(S)
  PROVE  s \in Seq(T)
<1>1. Len(s) \in Nat /\ s \in [1..Len(s) -> S]
  OBVIOUS
<1>2. s \in [1..Len(s) -> T]
  BY <1>1
<1> QED BY <1>1, <1>2

\* The servers of the line are told, and else only those of others.
LEMMA ServersAreTold ==
  ASSUME given \in Seq(Handed), NEW j, NEW line \in AnyLines, BehindAt(j, given, line)
  PROVE  /\ Within(UpToDot(line.servers), Servers)
         /\ Servers \in Seq(ToSet(UpToDot(line.servers)) \cup {"other"})
<1> PICK n : n = Len(given)
  OBVIOUS
<1> PICK u : u = UpToDot(line.servers)
  OBVIOUS
<1> PICK X : X = ToSet(u) \cup {"other"}
  OBVIOUS
<1> PICK seqs : seqs = [i \in DOMAIN given |-> ServersIn(given[i])]
  OBVIOUS
<1>1. /\ n \in Nat /\ DOMAIN given = 1..n /\ j \in 1..n /\ given[j] = line
      /\ \A i \in 1..n : i # j => given[i] \in Foreign
  BY DEF BehindAt
<1>2. u \in Seq(X)
  <2>1. u \in Seq(ServerNames)
    BY LineIsRead, UpToDotIs
  <2>2. Len(u) \in Nat /\ u \in [1..Len(u) -> ServerNames] /\ DOMAIN u = 1..Len(u)
    BY <2>1
  <2>3. \A i \in 1..Len(u) : u[i] \in X
    BY <2>2 DEF ToSet
  <2>4. u \in [1..Len(u) -> X]
    BY <2>2, <2>3
  <2> QED BY <2>2, <2>4
<1>3. ServersIn(given[j]) = u
  <2>1. ServersIn(given[j]) = u \o << >>
    BY <1>1, LineIsRead DEF ServersIn
  <2> QED BY <1>2, <2>1
<1>4. ASSUME NEW m \in Foreign PROVE ServersIn(m) \in Seq(X)
  <2>1. m.servers \in Seq({"other"}) /\ m.lines \in Seq({"other"})
    BY DEF Foreign
  <2>2. UpToDot(m.servers) \in Seq({"other"})
    BY <2>1, UpToDotIs
  <2>3. UpToDot(m.servers) \o m.lines \in Seq({"other"}) /\ << >> \in Seq({"other"})
    BY ONLY <2>1, <2>2
  <2>4. ServersIn(m) \in Seq({"other"})
    BY <2>3 DEF ServersIn
  <2>5. {"other"} \subseteq X
    OBVIOUS
  <2> QED BY ONLY <2>4, <2>5, OverMore
<1>5. seqs \in Seq(Seq(X)) /\ Len(seqs) = n /\ seqs[j] = u
  <2>1. \A i \in 1..n : ServersIn(given[i]) \in Seq(X)
    BY <1>1, <1>2, <1>3, <1>4
  <2>2. seqs \in [1..n -> Seq(X)]
    BY <1>1, <2>1
  <2> QED BY <1>1, <1>3, <2>2
<1>6. PICK f : IsFlat(f, seqs, X) /\ FlattenSeq(seqs) = f[Len(seqs)]
  BY ONLY <1>5, FlattenIs, Zenon
<1>7. /\ f \in [0..n -> Seq(X)] /\ \A k \in 1..n : f[k] = f[k - 1] \o seqs[k]
  BY ONLY <1>5, <1>6 DEF IsFlat
<1> PICK a : a = f[j]
  OBVIOUS
<1>8. j \in 0..n /\ a \in Seq(X) /\ Len(a) \in Nat
  BY ONLY <1>1, <1>7, a = f[j]
<1> PICK P : P = {k \in Nat : j + k <= n =>
                    /\ Len(a) <= Len(f[j + k])
                    /\ \A i \in 1..Len(a) : f[j + k][i] = a[i]}
  OBVIOUS
<1>9. 0 \in P
  <2>1. j + 0 = j
    BY ONLY <1>1
  <2> QED BY ONLY <1>8, <2>1, a = f[j], P = {k \in Nat : j + k <= n =>
                    /\ Len(a) <= Len(f[j + k])
                    /\ \A i \in 1..Len(a) : f[j + k][i] = a[i]}
<1>10. ASSUME NEW k \in Nat, k \in P PROVE k + 1 \in P
  <2> SUFFICES ASSUME j + (k + 1) <= n
               PROVE  /\ Len(a) <= Len(f[j + (k + 1)])
                      /\ \A i \in 1..Len(a) : f[j + (k + 1)][i] = a[i]
    OBVIOUS
  <2> PICK e : e = j + (k + 1)
    OBVIOUS
  <2>1. e \in 1..n /\ e - 1 = j + k /\ j + k <= n /\ e - 1 \in 0..n
    BY ONLY <1>1, k \in Nat, j + (k + 1) <= n, e = j + (k + 1)
  <2> PICK g : g = f[e - 1]
    OBVIOUS
  <2>2. Len(a) <= Len(g) /\ \A i \in 1..Len(a) : g[i] = a[i]
    BY <1>10, <2>1
  <2>3. f[e] = g \o seqs[e] /\ g \in Seq(X) /\ seqs[e] \in Seq(X)
    <3>1. f[e] = f[e - 1] \o seqs[e]
      BY ONLY <1>7, <2>1, Zenon
    <3>2. f[e - 1] \in Seq(X)
      BY ONLY <1>7, <2>1
    <3>3. seqs[e] \in Seq(X)
      BY ONLY <1>5, <2>1
    <3>4. f[e] = g \o seqs[e]
      BY ONLY <3>1, g = f[e - 1], Zenon
    <3> QED BY ONLY <3>2, <3>3, <3>4, g = f[e - 1]
  <2>4. Len(g) <= Len(f[e]) /\ \A i \in 1..Len(g) : f[e][i] = g[i]
    <3>1. /\ Len(g) \in Nat /\ Len(seqs[e]) \in Nat /\ Len(f[e]) = Len(g) + Len(seqs[e])
          /\ \A i \in 1..Len(g) : f[e][i] = g[i]
      BY ONLY <2>3, Joined
    <3> QED BY ONLY <3>1
  <2>5. Len(g) \in Nat /\ Len(f[e]) \in Nat
    <3>1. f[e] \in Seq(X)
      BY ONLY <1>7, <2>1
    <3> QED BY ONLY <2>3, <3>1
  <2>6. Len(a) <= Len(f[e]) /\ \A i \in 1..Len(a) : f[e][i] = a[i]
    BY ONLY <1>8, <2>2, <2>4, <2>5
  <2> QED BY ONLY <2>6, e = j + (k + 1)
<1>11. n - j \in P
  <2>1. Nat \subseteq P
    BY <1>9, <1>10, SetInduction
  <2>2. n - j \in Nat
    BY <1>1
  <2> QED BY <2>1, <2>2
<1>12. Len(a) <= Len(f[n]) /\ \A i \in 1..Len(a) : f[n][i] = a[i]
  <2>1. j + (n - j) = n /\ n <= n
    BY ONLY <1>1
  <2> QED BY ONLY <1>11, <2>1, P = {k \in Nat : j + k <= n =>
                    /\ Len(a) <= Len(f[j + k])
                    /\ \A i \in 1..Len(a) : f[j + k][i] = a[i]}
<1>13. Servers = f[n]
  BY <1>5, <1>6 DEF Servers
<1>14. Servers \in Seq(X) /\ Len(Servers) \in Nat
  <2>1. f[n] \in Seq(X)
    BY ONLY <1>1, <1>7
  <2> QED BY ONLY <1>13, <2>1
<1> PICK b : b = f[j - 1]
  OBVIOUS
<1>15. b \in Seq(X) /\ a = b \o u
  <2>1. j - 1 \in 0..n
    BY ONLY <1>1
  <2>2. f[j] = f[j - 1] \o seqs[j]
    BY ONLY <1>1, <1>7, Zenon
  <2>3. f[j - 1] \in Seq(X)
    BY ONLY <1>7, <2>1
  <2>4. a = b \o u
    BY ONLY <1>5, <2>2, a = f[j], b = f[j - 1], Zenon
  <2> QED BY ONLY <2>3, <2>4, b = f[j - 1]
<1>16. /\ Len(b) \in Nat /\ Len(u) \in Nat /\ Len(a) = Len(b) + Len(u)
       /\ \A i \in 1..Len(u) : a[Len(b) + i] = u[i]
  BY ONLY <1>2, <1>15, Joined
<1>17. Len(a) <= Len(Servers) /\ \A i \in 1..Len(a) : Servers[i] = a[i]
  BY ONLY <1>12, <1>13
<1>18. Len(b) \in 0..Len(Servers)
  BY ONLY <1>14, <1>16, <1>17
<1>19. ASSUME NEW k \in 1..Len(u)
       PROVE  Len(b) + k <= Len(Servers) /\ Servers[Len(b) + k] = u[k]
  <2>1. Len(b) + k \in 1..Len(a) /\ Len(b) + k <= Len(Servers)
    BY ONLY <1>14, <1>16, <1>17, k \in 1..Len(u)
  <2> QED BY ONLY <1>16, <1>17, <2>1
<1>20. Within(u, Servers)
  BY ONLY <1>18, <1>19, Zenon DEF Within
<1> QED BY ONLY <1>14, <1>20, u = UpToDot(line.servers), X = ToSet(u) \cup {"other"}, Zenon

\* The topic answered is one whose word there is.
LEMMA TopicHasWord ==
  ASSUME NEW about
  PROVE  Topic(about) \in about \cup {"hint"} /\ Topic(about) \in ToSet(Topics) \cup {"hint"}
<1> PICK I : I = {i \in 1..Len(Topics) : Topics[i] \in about}
  OBVIOUS
<1>1. SelectInSeq(Topics, LAMBDA t : t \in about) = IF I # {} THEN Min(I) ELSE 0
  BY DEF SelectInSeq
<1>2. Len(Topics) = 9 /\ DOMAIN Topics = 1..9
  BY DEF Topics
<1>3. CASE I = {}
  BY <1>1, <1>3 DEF Topic
<1>4. CASE I # {}
  <2>1. 9 \in Nat /\ I \in SUBSET (0..9)
    BY <1>2
  <2>2. Min(I) \in I
    BY <1>4, <2>1, MinOfSome
  <2>3. Min(I) # 0 /\ Topics[Min(I)] \in about /\ Min(I) \in DOMAIN Topics
    BY <1>2, <2>2
  <2>4. Topic(about) = Topics[Min(I)]
    BY <1>1, <1>4, <2>3 DEF Topic
  <2> QED BY <2>3, <2>4 DEF ToSet
<1> QED BY <1>3, <1>4

\* A question that came last is the one that is heard.
LEMMA LastIsHeard ==
  ASSUME given \in Seq(Handed), given # << >>, Last(given).role = "user",
         Last(given).text \notin {"metrics", "headed"}
  PROVE  Heard = Last(given).about
<1> PICK n : n = Len(given)
  OBVIOUS
<1> PICK asked : asked = {i \in DOMAIN given : /\ given[i].role = "user"
                                              /\ given[i].text \notin {"metrics", "headed"}}
  OBVIOUS
<1>1. n \in Nat /\ n >= 1 /\ DOMAIN given = 1..n /\ Last(given) = given[n]
  BY DEF Last
<1>2. n \in asked /\ asked \in SUBSET (0..n)
  BY <1>1
<1>3. Max(asked) \in asked /\ n <= Max(asked)
  BY <1>1, <1>2, MaxOfSome
<1>4. Max(asked) = n
  BY <1>1, <1>2, <1>3
<1>5. Heard = given[n].about
  BY <1>2, <1>4 DEF Heard
<1> QED BY <1>1, <1>5

-----------------------------------------------------------------------------
(* FallbackAnswers: what is told                                           *)

\* The line is among the messages, and nothing after it reads like one.
Behind == \E j : BehindAt(j, given, written)

\* The inductive invariant.  SnapshotIsTold says nothing of the messages an answer is yet
\* to be found in.
FallbackInv ==
  /\ given \in Seq(Handed)
  /\ given = << >> => answer = NoAnswer
  /\ question \in Questions \cup {NoLine}
  /\ written # NoLine =>
       written \in MetricLines /\ (question.text = "said" => Behind)
  /\ SnapshotIsTold

\* The topics the messages of Assemble are about.
LEMMA SomeTopics ==
  /\ {} \subseteq ToSet(Topics) /\ {"disk"} \subseteq ToSet(Topics)
  /\ {"cpu"} \subseteq ToSet(Topics) /\ {"log"} \subseteq ToSet(Topics)
  /\ {"log", "cpu"} \subseteq ToSet(Topics) /\ {"ai", "process"} \subseteq ToSet(Topics)
<1>1. DOMAIN Topics = 1..9 /\ Topics[2] = "cpu" /\ Topics[4] = "disk" /\ Topics[6] = "ai"
      /\ Topics[7] = "process" /\ Topics[8] = "log"
  BY DEF Topics
<1>2. 2 \in 1..9 /\ 4 \in 1..9 /\ 6 \in 1..9 /\ 7 \in 1..9 /\ 8 \in 1..9
  OBVIOUS
<1> QED BY <1>1, <1>2 DEF ToSet

\* What a message that is not a line of metrics is.
LEMMA PlainMessages ==
  ASSUME NEW role \in {"system", "user", "assistant"},
         NEW text \in {"said", "metrics", "headed", "none", "wrapped"},
         NEW about \in SUBSET ToSet(Topics)
  PROVE  /\ Plain(role, text, about) \in Foreign
         /\ Plain(role, text, about).text = text /\ Plain(role, text, about).role = role
<1> PICK empty : empty = << >>
  OBVIOUS
<1>1. /\ empty \in Seq(ServerNames) /\ empty \in Seq({"other"}) /\ empty \in Seq(Words)
      /\ "none" \in Counts
  BY DEF Counts
<1>2. Plain(role, text, about) =
        [role |-> role, text |-> text, about |-> about, cpu |-> "none", words |-> empty,
         servers |-> empty, lines |-> empty, tops |-> FALSE]
  BY DEF Plain
<1> QED BY ONLY <1>1, <1>2, role \in {"system", "user", "assistant"},
           text \in {"said", "metrics", "headed", "none", "wrapped"},
           about \in SUBSET ToSet(Topics) DEF Foreign, Handed

\* What a message is that names servers of others.
LEMMA NamingMessages ==
  ASSUME NEW text \in {"said", "wrapped"}, NEW about \in {{}, {"log"}},
         NEW m \in Naming(text, about)
  PROVE  m \in Foreign /\ m.text = text /\ m.role = "user"
<1>1. PICK more \in SUBSET ToSet(Topics), s \in {<<"other">>, << >>}, l \in {<<"other">>, << >>},
           t \in BOOLEAN :
        m = [role |-> "user", text |-> text, about |-> more, cpu |-> "none", words |-> << >>,
             servers |-> s, lines |-> l, tops |-> t]
  <2>1. about \cup {"ai"} \in SUBSET ToSet(Topics) /\ about \cup {"ai", "process"} \in SUBSET ToSet(Topics)
    BY SomeTopics
  <2>2. CASE m = [Plain("user", text, about \cup {"ai"}) EXCEPT !.servers = <<"other">>]
    BY <2>1, <2>2 DEF Plain
  <2>3. CASE m = [Plain("user", text, about \cup {"ai"}) EXCEPT !.lines = <<"other">>]
    BY <2>1, <2>3 DEF Plain
  <2>4. CASE m = [Plain("user", text, about \cup {"ai", "process"})
                    EXCEPT !.servers = <<"other">>, !.tops = TRUE]
    BY <2>1, <2>4 DEF Plain
  <2> QED BY <2>2, <2>3, <2>4 DEF Naming
<1>2. /\ \A x \in {<<"other">>, << >>} : x \in Seq(ServerNames) /\ x \in Seq({"other"})
      /\ << >> \in Seq(Words) /\ "none" \in Counts
  BY DEF ServerNames, Counts
<1> QED BY <1>1, <1>2 DEF Foreign, Handed

\* What is known of a question, and of a line a user has pasted.
LEMMA QuestionsAre ==
  /\ Pasted \in Foreign /\ Mangled \in Foreign /\ Headed \in Foreign
  /\ \A q \in Questions : q \in Foreign /\ (q.text = "said" => q.role = "user")
<1> PICK other : other = <<"other">>
  OBVIOUS
<1>1. /\ << >> \in Seq({"other"}) /\ << >> \in Seq(ServerNames) /\ << >> \in Seq(Words)
      /\ other \in Seq({"other"}) /\ "none" \in Counts
  BY DEF Counts
<1>2. Pasted \in Foreign /\ Pasted.text = "metrics"
  <2>1. Pasted \in Handed /\ Pasted.text = "metrics" /\ Pasted.lines = << >>
    BY WrittenLines, LineIsRead
  <2>2. Pasted.servers = other
    BY DEF Pasted, MetricLine
  <2> QED BY <1>1, <2>1, <2>2 DEF Foreign
<1>3. Mangled \in Foreign /\ Mangled.text = "metrics"
  BY <1>1, <1>2 DEF Mangled, Foreign, Handed
<1>4. Headed \in Foreign /\ Headed.text = "headed"
  BY PlainMessages, SomeTopics DEF Headed
<1>5. ASSUME NEW q \in Questions
      PROVE  q \in Foreign /\ (q.text = "said" => q.role = "user")
  <2>1. CASE q \in {Pasted, Mangled, Headed}
    BY <1>2, <1>3, <1>4, <2>1
  <2>2. CASE q \in Naming("said", {})
    BY <2>2, NamingMessages
  <2>3. CASE \E a \in Abouts : q = Plain("user", "said", a)
    <3>1. PICK a \in Abouts : q = Plain("user", "said", a)
      BY <2>3
    <3>2. a \in SUBSET ToSet(Topics)
      BY AboutsAssumption
    <3> QED BY <3>1, <3>2, PlainMessages
  <2> QED BY <2>1, <2>2, <2>3 DEF Questions
<1> QED BY <1>2, <1>3, <1>4, <1>5

\* Short sequences, and the beginning of one.
LEMMA OneOrNone ==
  ASSUME NEW S, NEW s, s = << >> \/ \E x \in S : s = <<x>>
  PROVE  s \in Seq(S)
<1>1. ASSUME NEW x \in S PROVE <<x>> \in Seq(S)
  OBVIOUS
<1>2. << >> \in Seq(S)
  OBVIOUS
<1> QED BY <1>1, <1>2

\* A sequence cut short is over the same set.
LEMMA BeginningIn ==
  ASSUME NEW S, NEW s \in Seq(S), NEW k \in 1..Len(s)
  PROVE  SubSeq(s, 1, k) \in Seq(S)
<1>1. k \in Nat /\ \A i \in 1..k : i \in 1..Len(s) /\ s[i] \in S
  OBVIOUS
<1>2. SubSeq(s, 1, k) = [i \in 1..k |-> s[i]]
  BY <1>1
<1>3. [i \in 1..k |-> s[i]] \in [1..k -> S]
  BY <1>1
<1> QED BY <1>1, <1>2, <1>3

\* Where everything comes in the messages.
LEMMA LinePlace ==
  ASSUME NEW S, NEW past \in Seq(S), NEW line \in S, NEW rest \in Seq(S), NEW q \in S,
         NEW before, before = past \o <<line>>, NEW all, all = (before \o rest) \o <<q>>,
         NEW kept \in 1..Len(all), kept >= Len(before)
  PROVE  /\ Len(before) \in DOMAIN SubSeq(all, 1, kept)
         /\ DOMAIN SubSeq(all, 1, kept) = 1..Len(SubSeq(all, 1, kept))
         /\ Len(before) \in Nat /\ Len(SubSeq(all, 1, kept)) \in Nat
         /\ SubSeq(all, 1, kept)[Len(before)] = line
         /\ \A i \in 1..Len(before) - 1 : i \in 1..Len(past) /\ SubSeq(all, 1, kept)[i] = past[i]
         /\ \A i \in Len(before) + 1..Len(SubSeq(all, 1, kept)) :
              \/ SubSeq(all, 1, kept)[i] = q
              \/ \E k \in 1..Len(rest) : SubSeq(all, 1, kept)[i] = rest[k]
<1>1. <<line>> \in Seq(S) /\ <<q>> \in Seq(S) /\ Len(<<line>>) = 1 /\ Len(<<q>>) = 1
      /\ <<line>>[1] = line /\ <<q>>[1] = q
  OBVIOUS
<1> PICK a : a = Len(past)
  OBVIOUS
<1> PICK c : c = Len(rest)
  OBVIOUS
<1>2. /\ before \in Seq(S) /\ Len(before) = a + 1 /\ before[a + 1] = line /\ a \in Nat
      /\ \A i \in 1..a : before[i] = past[i]
  BY <1>1, Joined
<1> PICK mid : mid = before \o rest
  OBVIOUS
<1>3. /\ mid \in Seq(S) /\ Len(mid) = (a + 1) + c /\ c \in Nat
      /\ \A i \in 1..a + 1 : mid[i] = before[i]
      /\ \A i \in 1..c : mid[(a + 1) + i] = rest[i]
  BY <1>2, Joined
<1>4. /\ all \in Seq(S) /\ Len(all) = ((a + 1) + c) + 1
      /\ \A i \in 1..(a + 1) + c : all[i] = mid[i]
      /\ all[((a + 1) + c) + 1] = q
  BY <1>1, <1>3, Joined
<1>5. /\ Len(SubSeq(all, 1, kept)) = kept /\ DOMAIN SubSeq(all, 1, kept) = 1..kept
      /\ \A i \in 1..kept : SubSeq(all, 1, kept)[i] = all[i]
  BY <1>4
<1>6. all[a + 1] = line /\ a + 1 \in 1..kept
  <2>1. a + 1 \in 1..a + 1 /\ a + 1 \in 1..(a + 1) + c /\ a + 1 \in 1..kept
    BY <1>2, <1>3, <1>4
  <2> QED BY <1>2, <1>3, <1>4, <2>1
<1>7. ASSUME NEW i \in (a + 1) + 1..kept
      PROVE  all[i] = q \/ \E k \in 1..c : all[i] = rest[k]
  <2>1. CASE i = ((a + 1) + c) + 1
    BY <1>4, <2>1
  <2>2. CASE i # ((a + 1) + c) + 1
    <3> PICK k : k = i - (a + 1)
      OBVIOUS
    <3>1. k \in 1..c /\ i = (a + 1) + k /\ i \in 1..(a + 1) + c
      BY ONLY <1>2, <1>3, <1>4, <2>2, kept \in 1..Len(all), i \in (a + 1) + 1..kept,
              k = i - (a + 1)
    <3>2. all[i] = rest[k]
      BY <1>3, <1>4, <3>1
    <3> QED BY <3>1, <3>2
  <2> QED BY <2>1, <2>2
<1>8. \A i \in (a + 1) + 1..kept : i \in 1..kept
  BY <1>2
<1>9. Len(before) \in DOMAIN SubSeq(all, 1, kept) /\ SubSeq(all, 1, kept)[Len(before)] = line
  BY <1>2, <1>5, <1>6
<1>10. ASSUME NEW i \in 1..a PROVE SubSeq(all, 1, kept)[i] = past[i]
  <2>1. i \in 1..a + 1 /\ i \in 1..(a + 1) + c /\ i \in 1..kept
    BY <1>2, <1>3, <1>4
  <2> QED BY <1>2, <1>3, <1>4, <1>5, <2>1
<1>11. Len(before) \in Nat /\ Len(SubSeq(all, 1, kept)) \in Nat
       /\ DOMAIN SubSeq(all, 1, kept) = 1..Len(SubSeq(all, 1, kept))
  BY <1>2, <1>5
<1>12. \A i \in 1..Len(before) - 1 : i \in 1..Len(past) /\ SubSeq(all, 1, kept)[i] = past[i]
  BY <1>2, <1>10
<1>13. \A i \in Len(before) + 1..Len(SubSeq(all, 1, kept)) :
         \/ SubSeq(all, 1, kept)[i] = q
         \/ \E k \in 1..Len(rest) : SubSeq(all, 1, kept)[i] = rest[k]
  BY <1>2, <1>5, <1>7, <1>8
<1> QED BY ONLY <1>9, <1>11, <1>12, <1>13

\* The messages are put together.
LEMMA AssembleStep == FallbackInv /\ Assemble => FallbackInv'
<1> SUFFICES ASSUME FallbackInv, Assemble PROVE FallbackInv'
  OBVIOUS
<1>1. given = << >> /\ answer' = answer /\ answer = NoAnswer
  BY DEF Assemble, FallbackInv
<1>2. PICK past \in {<< >>} \cup {<<q>> : q \in {Plain("user", "said", {"disk"}),
                                               Plain("assistant", "metrics", {"cpu"}),
                                               Pasted, Mangled, Headed} \cup Naming("said", {})},
           line \in MetricLines \cup {NoLine}, logs \in {<< >>} \cup {<<l>> : l \in Logs},
           q \in Questions :
        LET system == <<Plain("system", "said", {})>>
            metrics == IF line = NoLine THEN << >> ELSE <<line>>
            before == system \o past \o metrics
            all == before \o logs \o <<q>>
        IN \E kept \in 1..Len(all) :
             /\ given' = SubSeq(all, 1, kept)
             /\ written' = IF kept >= Len(before) THEN line ELSE NoLine
             /\ question' = q
  BY DEF Assemble
<1> PICK system : system = <<Plain("system", "said", {})>>
  OBVIOUS
<1> PICK metrics : metrics = IF line = NoLine THEN << >> ELSE <<line>>
  OBVIOUS
<1> PICK first : first = system \o past
  OBVIOUS
<1> PICK before : before = first \o metrics
  OBVIOUS
<1> PICK all : all = (before \o logs) \o <<q>>
  OBVIOUS
<1>3. PICK kept \in 1..Len(all) :
        /\ given' = SubSeq(all, 1, kept)
        /\ written' = IF kept >= Len(before) THEN line ELSE NoLine
        /\ question' = q
  BY <1>2
<1>a. Foreign \subseteq Handed
  BY DEF Foreign
<1>4. system \in Seq(Foreign)
  <2>1. Plain("system", "said", {}) \in Foreign
    BY PlainMessages, SomeTopics
  <2> QED BY ONLY <2>1, system = <<Plain("system", "said", {})>>
<1>5. past \in Seq(Foreign)
  <2>1. /\ Plain("user", "said", {"disk"}) \in Foreign
        /\ Plain("assistant", "metrics", {"cpu"}) \in Foreign
        /\ Pasted \in Foreign /\ Mangled \in Foreign /\ Headed \in Foreign
    BY PlainMessages, SomeTopics, QuestionsAre
  <2>2. \A m \in Naming("said", {}) : m \in Foreign
    BY NamingMessages
  <2>3. past = << >> \/ \E m \in Foreign : past = <<m>>
    BY <2>1, <2>2, Zenon
  <2> QED BY <2>3, OneOrNone
<1>6. /\ logs \in Seq(Foreign)
      /\ \A k \in 1..Len(logs) : logs[k].text # "metrics"
  <2>1. \A l \in Logs : l \in Foreign /\ l.text # "metrics"
    <3>1. ASSUME NEW a \in SUBSET ToSet(Topics)
          PROVE  /\ Plain("user", "wrapped", a) \in Foreign
                 /\ Plain("user", "wrapped", a).text = "wrapped"
      BY PlainMessages
    <3>2. \A m \in Naming("wrapped", {"log"}) : m \in Foreign /\ m.text = "wrapped"
      BY NamingMessages
    <3> QED BY <3>1, <3>2, SomeTopics DEF Logs
  <2>2. logs = << >> \/ \E l \in Logs : logs = <<l>>
    BY Zenon
  <2>3. CASE logs = << >>
    BY ONLY <2>3
  <2>4. ASSUME NEW l \in Logs, logs = <<l>>
        PROVE  /\ logs \in Seq(Foreign)
               /\ \A k \in 1..Len(logs) : logs[k].text # "metrics"
    <3>1. l \in Foreign /\ l.text # "metrics"
      BY <2>1
    <3>2. logs \in Seq(Foreign) /\ Len(logs) = 1 /\ logs[1] = l
      BY ONLY <2>4, <3>1
    <3> QED BY ONLY <3>1, <3>2
  <2> QED BY <2>2, <2>3, <2>4
<1>7. q \in Foreign
  BY QuestionsAre
<1>8. metrics \in Seq(Handed)
  <2>1. line # NoLine => line \in Handed
    BY LineIsRead, WrittenLines
  <2> QED BY ONLY <2>1, metrics = IF line = NoLine THEN << >> ELSE <<line>>
<1>9. first \in Seq(Foreign)
  BY ONLY <1>4, <1>5, first = system \o past, Joined
<1>b. first \in Seq(Handed) /\ logs \in Seq(Handed) /\ q \in Handed
  BY ONLY <1>a, <1>6, <1>7, <1>9, OverMore
<1>10. all \in Seq(Handed)
  <2>1. before \in Seq(Handed)
    BY ONLY <1>8, <1>b, before = first \o metrics, Joined
  <2>2. before \o logs \in Seq(Handed)
    BY ONLY <1>b, <2>1, Joined
  <2>3. <<q>> \in Seq(Handed)
    BY ONLY <1>b
  <2> QED BY ONLY <2>2, <2>3, all = (before \o logs) \o <<q>>, Joined
<1>11. given' \in Seq(Handed)
  <2>1. SubSeq(all, 1, kept) \in Seq(Handed)
    BY ONLY <1>10, kept \in 1..Len(all), BeginningIn
  <2> QED BY ONLY <1>3, <2>1
<1>12. ASSUME written' # NoLine
       PROVE  written' \in MetricLines /\ (question'.text = "said" => Behind')
  <2>1. written' = line /\ kept >= Len(before) /\ line # NoLine
    BY ONLY <1>3, <1>12
  <2>2. line \in MetricLines /\ line \in Handed /\ metrics = <<line>>
    BY <2>1, LineIsRead, WrittenLines
  <2>3. before = first \o <<line>>
    BY ONLY <2>2, before = first \o metrics
  <2>4. /\ Len(before) \in DOMAIN SubSeq(all, 1, kept)
        /\ DOMAIN SubSeq(all, 1, kept) = 1..Len(SubSeq(all, 1, kept))
        /\ Len(before) \in Nat /\ Len(SubSeq(all, 1, kept)) \in Nat
        /\ SubSeq(all, 1, kept)[Len(before)] = line
        /\ \A i \in 1..Len(before) - 1 : i \in 1..Len(first) /\ SubSeq(all, 1, kept)[i] = first[i]
        /\ \A i \in Len(before) + 1..Len(SubSeq(all, 1, kept)) :
             \/ SubSeq(all, 1, kept)[i] = q
             \/ \E k \in 1..Len(logs) : SubSeq(all, 1, kept)[i] = logs[k]
    BY ONLY <1>b, <2>1, <2>2, <2>3, all = (before \o logs) \o <<q>>,
            kept \in 1..Len(all), LinePlace, SMTT(30)
  <2>5. ASSUME question'.text = "said" PROVE BehindAt(Len(before), given', written')
    <3> PICK msgs : msgs = SubSeq(all, 1, kept)
      OBVIOUS
    <3> PICK b : b = Len(before)
      OBVIOUS
    <3>1. q.text # "metrics"
      BY ONLY <1>3, <2>5
    <3>2. /\ b \in DOMAIN msgs /\ DOMAIN msgs = 1..Len(msgs) /\ b \in Nat /\ Len(msgs) \in Nat
          /\ msgs[b] = line
          /\ \A i \in 1..b - 1 : i \in 1..Len(first) /\ msgs[i] = first[i]
          /\ \A i \in b + 1..Len(msgs) : msgs[i] = q \/ \E k \in 1..Len(logs) : msgs[i] = logs[k]
      BY ONLY <2>4, msgs = SubSeq(all, 1, kept), b = Len(before), Zenon
    <3>3. \A i \in b + 1..Len(msgs) : msgs[i].text # "metrics"
      BY ONLY <1>6, <3>1, <3>2
    <3>4. ASSUME NEW i \in DOMAIN msgs, i # b PROVE msgs[i] \in Foreign
      <4>1. i \in 1..b - 1 \/ i \in b + 1..Len(msgs)
        BY ONLY <3>2, <3>4
      <4>2. \A k \in 1..Len(first) : first[k] \in Foreign
        BY ONLY <1>9
      <4>3. \A k \in 1..Len(logs) : logs[k] \in Foreign
        BY ONLY <1>6
      <4> QED BY ONLY <1>7, <3>2, <4>1, <4>2, <4>3
    <3>5. BehindAt(b, msgs, line)
      BY ONLY <3>2, <3>3, <3>4 DEF BehindAt
    <3> QED BY ONLY <1>3, <2>1, <3>5, msgs = SubSeq(all, 1, kept), b = Len(before)
  <2>6. question'.text = "said" => Behind'
    BY ONLY <2>5, Zenon DEF Behind
  <2> QED BY ONLY <2>1, <2>2, <2>6
<1>13. question' \in Questions \cup {NoLine}
  BY ONLY <1>3, q \in Questions
<1>14. SnapshotIsTold'
  BY <1>1 DEF SnapshotIsTold, NoAnswer
<1>15. answer' = NoAnswer
  BY <1>1
<1> QED BY ONLY <1>11, <1>12, <1>13, <1>14, <1>15 DEF FallbackInv, NoAnswer

\* What is told of the messages that were given.
LEMMA ToldStep == FallbackInv /\ Answer => FallbackInv'
<1> SUFFICES ASSUME FallbackInv, Answer PROVE FallbackInv'
  OBVIOUS
<1>1. /\ given # << >> /\ given' = given /\ written' = written /\ question' = question
      /\ answer' = [topic |-> Topic(Heard), told |-> Told(Topic(Heard))]
  BY DEF Answer
<1>2. /\ given \in Seq(Handed) /\ question \in Questions \cup {NoLine}
      /\ written # NoLine => written \in MetricLines /\ (question.text = "said" => Behind)
  BY DEF FallbackInv
<1> PICK t : t = Topic(Heard)
  OBVIOUS
<1> PICK told : told = Told(t)
  OBVIOUS
<1>3. answer'.topic = t /\ answer'.told = told
  BY <1>1
<1>4. ASSUME written # NoLine, question.text = "said"
      PROVE  /\ t = "cpu" => told = <<written.cpu, written.words[7]>>
             /\ t = "memory" => told = <<written.words[2]>>
             /\ t = "process" => /\ told \in {<<"names">>, <<written.words[7]>>}
                                 /\ written.servers # << >> => told = <<"names">>
             /\ t = "ai" => /\ Within(UpToDot(written.servers), told)
                            /\ told \in Seq(ToSet(UpToDot(written.servers)) \cup {"other"})
  <2>1. written \in AnyLines
    BY <1>2, <1>4, WrittenLines
  <2> PICK j : BehindAt(j, given, written)
    BY <1>2, <1>4 DEF Behind
  <2>2. /\ Metrics.cpu = written.cpu /\ Metrics.memory = written.words[2]
        /\ Metrics.processes = written.words[7]
    BY <1>2, <2>1, LastLineCounts
  <2>3. /\ Within(UpToDot(written.servers), Servers)
        /\ Servers \in Seq(ToSet(UpToDot(written.servers)) \cup {"other"})
    BY ONLY <1>2, <2>1, BehindAt(j, given, written), ServersAreTold
  <2>4. t = "cpu" => told = <<written.cpu, written.words[7]>>
    BY <2>2 DEF Told
  <2>5. t = "memory" => told = <<written.words[2]>>
    BY <2>2 DEF Told
  <2>6. t = "process" => /\ told \in {<<"names">>, <<written.words[7]>>}
                         /\ written.servers # << >> => told = <<"names">>
    <3>1. written.servers # << >> => ProcessesNamed
      <4>1. written \in ToSet(given)
        BY DEF BehindAt, ToSet
      <4>2. written.role = "user" /\ (written.tops <=> written.servers # << >>)
        BY <2>1, LineIsRead
      <4> QED BY ONLY <4>1, <4>2 DEF ProcessesNamed
    <3> QED BY <2>2, <3>1 DEF Told
  <2>7. t = "ai" => /\ Within(UpToDot(written.servers), told)
                    /\ told \in Seq(ToSet(UpToDot(written.servers)) \cup {"other"})
    BY <2>3 DEF Told
  <2> QED BY <2>4, <2>5, <2>6, <2>7
<1>5. ASSUME question.text = "said", Last(given) = question
      PROVE  t \in question.about \cup {"hint"}
  <2>1. question.role = "user" /\ question.text \notin {"metrics", "headed"}
    BY <1>2, <1>5, QuestionsAre DEF NoLine, Plain
  <2>2. Heard = question.about
    BY <1>1, <1>2, <1>5, <2>1, LastIsHeard
  <2> QED BY <2>2, TopicHasWord
<1>6. SnapshotIsTold'
  BY <1>1, <1>3, <1>4, <1>5 DEF SnapshotIsTold, Last
<1>7. Behind => Behind'
  BY <1>1 DEF Behind
<1> QED BY <1>1, <1>2, <1>6, <1>7 DEF FallbackInv

\* FallbackInv holds in every reachable state.
THEOREM FallbackInductive == FallbackSpec => []FallbackInv
<1>1. FallbackInit => FallbackInv
  BY DEF FallbackInit, FallbackInv, SnapshotIsTold, NoAnswer
<1>2. ASSUME FallbackInv, [FallbackNext]_fallbackVars PROVE FallbackInv'
  <2>1. CASE NextQuestion
    BY <2>1 DEF NextQuestion, FallbackInv, SnapshotIsTold, NoAnswer
  <2>2. CASE UNCHANGED fallbackVars
    <3>1. given' = given /\ written' = written /\ question' = question /\ answer' = answer
      BY <2>2 DEF fallbackVars
    <3>2. (Behind => Behind') /\ (SnapshotIsTold => SnapshotIsTold')
      BY <3>1 DEF Behind, SnapshotIsTold
    <3> QED BY <1>2, <3>1, <3>2 DEF FallbackInv
  <2> QED BY <1>2, <2>1, <2>2, AssembleStep, ToldStep DEF FallbackNext
<1> QED BY <1>1, <1>2, PTL DEF FallbackSpec

\* A question that does not begin like a line of metrics is answered from the line that
\* was written, whatever lines came before it and whatever words the question has; and
\* whatever servers the messages around it name, the line's are told.
THEOREM SnapshotsAreTold == FallbackSpec => []SnapshotIsTold
<1>1. FallbackInv => SnapshotIsTold
  BY DEF FallbackInv
<1> QED BY <1>1, FallbackInductive, PTL

-----------------------------------------------------------------------------
(* Conversation: types                                                     *)

\* How many messages the turn may yet store.
Due ==
  IF phase = "idle" THEN 0
  ELSE IF phase \in {"streaming", "reply"} \/ (phase = "complete" /\ kind = "stream") THEN 1
  ELSE 2

\* A turn stores two messages at most, and a body holds no more tokens than lines.
TypeInv == TypeOK /\ Len(history) + Due <= 2 * turns /\ Len(sent) <= MaxLines

\* Messages of the lengths there may be.
LEMMA MessageIs ==
  ASSUME NEW role \in Roles, NEW text \in Texts, NEW len \in 0..MaxInput + 1
  PROVE  Text(role, text, len) \in Message
<1>1. len \in 0..MaxInput + MaxLines
  BY ConversationAssumption
<1> QED BY <1>1 DEF Text, Message

\* Collecting and clamping such messages leaves such messages.
LEMMA CollectedType ==
  ASSUME NEW past \in Seq(Message), NEW system \in 1..MaxSystem, NEW metrics \in Seq(Message),
         NEW logs \in Seq(Message), NEW q \in Message
  PROVE  Collected(past, system, metrics, logs, q) \in Seq(Message)
<1>1. system \in 0..MaxInput + 1
  BY ConversationAssumption
<1> PICK a : a = Text("system", "system", system)
  OBVIOUS
<1>2. a \in Message
  BY <1>1, MessageIs DEF Roles, Texts
<1>3. <<a>> \in Seq(Message) /\ <<q>> \in Seq(Message)
  BY ONLY <1>2, q \in Message
<1>4. <<a>> \o past \in Seq(Message)
  BY ONLY <1>3, past \in Seq(Message), Joined
<1>5. (<<a>> \o past) \o metrics \in Seq(Message)
  BY ONLY <1>4, metrics \in Seq(Message), Joined
<1>6. ((<<a>> \o past) \o metrics) \o logs \in Seq(Message)
  BY ONLY <1>5, logs \in Seq(Message), Joined
<1>7. (((<<a>> \o past) \o metrics) \o logs) \o <<q>> \in Seq(Message)
  BY ONLY <1>3, <1>6, Joined
<1> QED BY ONLY <1>7, a = Text("system", "system", system) DEF Collected

\* What is left of a prompt is messages, too.
LEMMA ClampType ==
  ASSUME NEW c, Composed(c)
  PROVE  Clamp(c) \in Seq(Message)
<1> PICK p : p = Clamp(c)
  OBVIOUS
<1>1. p \in Seq(Piece) /\ \A i \in 1..Len(p) : p[i].len <= MaxInput
  BY ClampShape
<1>2. \A i \in 1..Len(p) : p[i] \in Message
  <2> SUFFICES ASSUME NEW i \in 1..Len(p) PROVE p[i] \in Message
    OBVIOUS
  <2>1. p[i] \in Piece /\ p[i].len <= MaxInput
    BY <1>1
  <2>2. MaxInput \in Nat /\ MaxLines \in Nat
    BY ConversationAssumption
  <2> QED BY ONLY <2>1, <2>2 DEF Piece, Message
<1>3. Len(p) \in Nat /\ p \in [1..Len(p) -> Message]
  BY <1>1, <1>2
<1> QED BY <1>3

\* A body has no more tokens than lines.
LEMMA TokensAreFew ==
  ASSUME NEW lines \in Seq(Lines), NEW f, IsTokens(f, lines)
  PROVE  \A k \in 0..Len(lines) : Len(f[k]) <= k
<1> PICK n : n = Len(lines)
  OBVIOUS
<1>0. n \in Nat /\ f \in [0..n -> Seq(Tokens)] /\ f[0] = << >>
  BY DEF IsTokens
<1> PICK P : P = {k \in Nat : k <= n => Len(f[k]) <= k}
  OBVIOUS
<1>1. 0 \in P
  BY <1>0
<1>2. ASSUME NEW k \in Nat, k \in P PROVE k + 1 \in P
  <2> SUFFICES ASSUME k + 1 <= n PROVE Len(f[k + 1]) <= k + 1
    OBVIOUS
  <2>1. k + 1 \in 1..n /\ k \in 0..n /\ (k + 1) - 1 = k /\ Len(f[k]) <= k
    BY <1>0, <1>2
  <2>2. f[k] \in Seq(Tokens)
    BY <1>0, <2>1
  <2>3. \/ f[k + 1] = f[k]
        \/ HasToken(lines[k + 1]) /\ f[k + 1] = Append(f[k], TokenIn(lines[k + 1]))
    BY <2>1 DEF IsTokens
  <2>4. Len(f[k + 1]) \in {Len(f[k]), Len(f[k]) + 1}
    BY <2>2, <2>3
  <2>5. Len(f[k]) \in Nat
    BY ONLY <2>2
  <2> QED BY ONLY <2>1, <2>4, <2>5, k \in Nat
<1>3. Nat \subseteq P
  BY <1>1, <1>2, SetInduction
<1> QED BY <1>3

\* What the fallback takes for the question is one of the texts, or nothing.
LEMMA TakenIsText ==
  ASSUME NEW msgs \in Seq(Message)
  PROVE  TakenForQuestion(msgs) \in Texts \cup {"blank"}
<1> PICK n : n = Len(msgs)
  OBVIOUS
<1> PICK asked : asked = {i \in DOMAIN msgs : msgs[i].role = "user" /\ ~msgs[i].line}
  OBVIOUS
<1>1. n \in Nat /\ asked \in SUBSET (0..n) /\ \A i \in asked : msgs[i] \in Message
  OBVIOUS
<1>2. CASE asked = {}
  BY <1>2 DEF TakenForQuestion
<1>3. CASE asked # {}
  <2>1. Max(asked) \in asked
    BY <1>1, <1>3, MaxOfSome
  <2>2. msgs[Max(asked)].text \in Texts
    BY <1>1, <2>1 DEF Message
  <2> QED BY <1>3, <2>2 DEF TakenForQuestion
<1> QED BY <1>2, <1>3

\* A turn begins.
LEMMA AskTypes == TypeInv /\ ConversationInv' /\ Ask => TypeInv'
<1> SUFFICES ASSUME TypeInv, ConversationInv', Ask PROVE TypeInv'
  OBVIOUS
<1>1. PICK k \in {"ask", "stream"}, past \in {<<>>, history}, system \in 1..MaxSystem,
           metrics \in {<<>>, <<Text("user", "metrics", 1)>>},
           lengths \in BoundedSeq(1..MaxInput + 1, MaxLogs),
           asked \in ByUser("question", 0..MaxInput + 1) :
        AskWith(k, past, system, metrics,
                [i \in DOMAIN lengths |-> Text("user", "log", lengths[i])], asked)
  BY DEF Ask
<1> PICK logs : logs = [i \in DOMAIN lengths |-> Text("user", "log", lengths[i])]
  OBVIOUS
<1>2. MaxInput \in Nat /\ MaxLogs \in Nat /\ MaxLines \in Nat /\ MaxInput >= 1
  BY ConversationAssumption
<1>3. past \in Seq(Message)
  <2>1. history \in Seq(Message) /\ << >> \in Seq(Message)
    BY DEF TypeInv, TypeOK
  <2> QED BY ONLY <2>1, past \in {<<>>, history}
<1>4. metrics \in Seq(Message)
  <2>1. Text("user", "metrics", 1) \in Message
    BY <1>2, MessageIs DEF Roles, Texts
  <2>2. <<Text("user", "metrics", 1)>> \in Seq(Message) /\ << >> \in Seq(Message)
    BY ONLY <2>1
  <2> QED BY <2>2
<1>5. logs \in Seq(Message)
  <2>1. PICK m \in 0..MaxLogs : lengths \in [1..m -> 1..MaxInput + 1]
    BY <1>2 DEF BoundedSeq, SeqOf
  <2>2. \A i \in 1..m : lengths[i] \in 0..MaxInput + 1
    BY <1>2, <2>1
  <2>3. \A i \in 1..m : Text("user", "log", lengths[i]) \in Message
    BY <2>2, MessageIs DEF Roles, Texts
  <2>4. logs \in [1..m -> Message] /\ m \in Nat
    BY <1>2, <2>1, <2>3
  <2> QED BY <2>4
<1>6. AskWith(k, past, system, metrics, logs, asked)
  BY <1>1
<1>7. context' = Collected(past, system, metrics, logs, asked) /\ prompt' = Clamp(context')
  BY <1>6 DEF AskWith
<1>8. context' \in Seq(Message)
  <2>1. asked \in Message
    <3>1. asked \in [role : {"user"}, text : {"question"}, len : 0..MaxInput + 1, line : BOOLEAN]
      BY <1>2 DEF ByUser
    <3>2. 0..MaxInput + 1 \subseteq 0..MaxInput + MaxLines
      BY ConversationAssumption
    <3> QED BY <3>1, <3>2 DEF Message, Roles, Texts
  <2> QED BY ONLY <1>3, <1>4, <1>5, <1>7, <2>1, system \in 1..MaxSystem, CollectedType
<1>9. context' # << >>
  <2>1. phase' = "complete" \/ (phase' = "question" /\ kind' = "stream")
    BY <1>6 DEF AskWith
  <2> QED BY <2>1 DEF ConversationInv, PromptInv
<1>10. prompt' \in Seq(Message)
  <2>1. Composed(context')
    BY <1>9 DEF ConversationInv, PromptInv
  <2> QED BY <1>7, <2>1, ClampType
<1>11. /\ phase' \in {"question", "complete"} /\ kind' = k /\ replied' = "none"
       /\ phase' = (IF k = "stream" THEN "question" ELSE "complete")
       /\ turns' = turns + 1 /\ turns < MaxTurns /\ phase = "idle" /\ history' = history
       /\ sent' = << >> /\ content' = << >> /\ shown' = << >> /\ gone' = FALSE
       /\ wire' = << >> /\ buffer' = << >> /\ broken' = FALSE
  BY <1>6 DEF AskWith
<1>12. /\ history \in Seq(Message) /\ turns \in 0..MaxTurns /\ MaxTurns \in Nat
       /\ Len(history) <= 2 * turns
  BY ConversationAssumption DEF TypeInv, TypeOK
<1>13. /\ Len(history) \in Nat /\ turns' \in 0..MaxTurns
       /\ Len(history') <= 2 * turns' /\ Len(history') + 2 <= 2 * turns'
  <2>1. Len(history) \in Nat
    BY ONLY <1>12
  <2>2. turns \in Nat /\ turns' = turns + 1 /\ turns < MaxTurns /\ Len(history') = Len(history)
    BY ONLY <1>11, <1>12
  <2>3. 2 * turns' = 2 * turns + 2
    BY ONLY <2>2
  <2> QED BY ONLY <1>12, <2>1, <2>2, <2>3
<1>14. Len(history') + Due' <= 2 * turns'
  <2>1. Due' = 2
    BY <1>11 DEF Due
  <2> QED BY <1>13, <2>1
<1>15. TypeOK'
  <2>1. /\ history' \in Seq(Message) /\ kind' \in {"ask", "stream"} /\ gone' \in BOOLEAN
        /\ phase' \in {"idle", "complete", "question", "streaming", "reply"}
        /\ replied' \in Texts \cup {"none", "blank"} /\ broken' \in BOOLEAN
    BY ONLY <1>11, <1>12, k \in {"ask", "stream"}
  <2>2. /\ sent' \in Seq(Tokens) /\ content' \in Seq(Tokens \cup {Torn})
        /\ shown' \in Seq(Tokens \cup {Torn})
    BY ONLY <1>11
  <2>3. wire' \in Seq(Bytes) /\ buffer' \in Seq(Bytes)
    BY ONLY <1>11
  <2> QED BY ONLY <1>8, <1>10, <1>13, <2>1, <2>2, <2>3 DEF TypeOK
<1>16. Len(sent') <= MaxLines
  BY <1>2, <1>11
<1> QED BY <1>14, <1>15, <1>16 DEF TypeInv

\* A message is stored.
LEMMA StoreTypes ==
  ASSUME TypeInv, ReplyInv, StoreQuestion \/ StoreReply
  PROVE  TypeInv'
<1>1. PICK said \in Message : history' = Append(history, said)
  <2>1. CASE StoreQuestion
    <3>1. PICK said \in ByUser("said", 0..MaxInput) : history' = Append(history, said)
      BY <2>1 DEF StoreQuestion
    <3>2. said \in Message
      BY ConversationAssumption DEF ByUser, Message, Roles, Texts
    <3> QED BY <3>1, <3>2
  <2>2. CASE StoreReply
    <3>1. PICK len \in ReplyLengths : history' = Append(history, Text("assistant", "said", len))
      BY <2>2 DEF StoreReply
    <3>2. Len(content) \in 0..MaxLines
      <4>1. Len(content) <= Len(sent) /\ Len(content) \in Nat /\ Len(sent) \in Nat
        BY DEF ReplyInv, ReplyIsWhatWasSent
      <4>2. Len(sent) <= MaxLines /\ MaxLines \in Nat
        BY ConversationAssumption DEF TypeInv
      <4> QED BY ONLY <4>1, <4>2
    <3>3. MaxLines \in Nat /\ MaxLines >= 1 /\ MaxInput \in Nat
      BY ConversationAssumption
    <3>4. len \in 0..MaxLines \/ len \in 0..MaxInput + 1
      BY <3>2 DEF ReplyLengths
    <3>5. len \in 0..MaxInput + MaxLines
      BY ONLY <3>3, <3>4
    <3>6. Text("assistant", "said", len) \in Message
      BY <3>5 DEF Text, Message, Roles, Texts
    <3> QED BY <3>1, <3>6
  <2> QED BY <2>1, <2>2
<1>3. history \in Seq(Message) /\ Len(history) \in Nat /\ turns \in Nat
  BY DEF TypeInv, TypeOK
<1>4. history' \in Seq(Message) /\ Len(history') = Len(history) + 1
  BY ONLY <1>1, <1>3
<1>5. UNCHANGED <<kind, replied, turns, context, prompt, sent, content, shown, gone,
                  wire, buffer, broken>>
      /\ phase' \in {"idle", "complete", "question", "streaming", "reply"}
  BY DEF StoreQuestion, StoreReply, turnVars, promptVars, replyVars, streamVars
<1>6. Due \in {1, 2} /\ Due' = Due - 1
  BY DEF StoreQuestion, StoreReply, Due, turnVars, TypeInv, TypeOK
<1>7. /\ Len(history') + Due' <= 2 * turns' /\ Len(history') <= 2 * turns'
  <2>1. Len(history) + Due <= 2 * turns /\ turns' = turns
    BY <1>5 DEF TypeInv
  <2> QED BY ONLY <1>3, <1>4, <1>6, <2>1
<1>8. TypeOK'
  BY <1>4, <1>5, <1>7 DEF TypeOK, TypeInv
<1> QED BY <1>5, <1>7, <1>8 DEF TypeInv

\* The body comes.
LEMMA StartTypes ==
  ASSUME TypeInv, ReplyInv, StartStream
  PROVE  TypeInv'
<1>1. PICK lines \in BoundedSeq(Lines, MaxLines), closed \in BOOLEAN :
        wire' = Body(lines, closed) /\ sent' = TokensOf(lines)
  BY DEF StartStream
<1>2. lines \in Seq(Lines) /\ Len(lines) <= MaxLines /\ Len(lines) \in Nat
  <2>1. MaxLines \in Nat
    BY ConversationAssumption
  <2>2. PICK m \in 0..MaxLines : lines \in [1..m -> Lines]
    BY <2>1 DEF BoundedSeq, SeqOf
  <2> QED BY <2>1, <2>2
<1>3. wire' \in Seq(Bytes)
  BY <1>1, <1>2, BodyBegins
<1>4. PICK tokens : IsTokens(tokens, lines) /\ sent' = tokens[Len(lines)]
  BY <1>1, <1>2, TokensAre
<1>5. Len(lines) \in 0..Len(lines)
  BY <1>2
<1>6. sent' \in Seq(Tokens) /\ Len(sent') <= Len(lines)
  BY <1>2, <1>4, <1>5, TokensAreFew DEF IsTokens
<1>7. Len(sent') <= MaxLines
  <2>1. Len(sent') \in Nat /\ MaxLines \in Nat
    BY <1>6, ConversationAssumption
  <2> QED BY ONLY <1>2, <1>6, <2>1
<1>8. /\ UNCHANGED <<history, kind, replied, turns, content, shown, gone, buffer, broken>>
      /\ phase' = "streaming" /\ context' = << >> /\ prompt' = << >>
  BY DEF StartStream, PromptUsed, turnVars
<1>9. Due' = Due
  BY <1>8 DEF Due, StartStream
<1>10. TypeOK'
  BY <1>3, <1>6, <1>8 DEF TypeOK, TypeInv
<1> QED BY <1>7, <1>8, <1>9, <1>10 DEF TypeInv

\* The stream goes on.
LEMMA StreamTypes ==
  ASSUME TypeInv, ReplyInv, ReplyInv', StreamNext
  PROVE  TypeInv'
<1>1. PICK item \in Items :
        Poll(item) /\ IF item = "nothing" THEN UNCHANGED <<content, shown, phase>>
                      ELSE Receive(item)
  BY DEF StreamNext
<1>2. /\ phase = "streaming" /\ UNCHANGED <<history, turnVars, promptVars, sent, gone>>
      /\ content \in Seq(Tokens \cup {Torn})
      /\ \E lines, ends, all, tokens, k : StreamFits(lines, ends, all, tokens, k)
  BY DEF StreamNext, ReplyInv
<1>3. /\ content' = IF item \in {"nothing", "error"} THEN content ELSE Append(content, item)
      /\ phase' \in {"streaming", "reply"}
  BY <1>1, <1>2 DEF Receive
<1>4. \E lines, ends, all, tokens, k : StreamFits(lines, ends, all, tokens, k)'
  BY <1>1, <1>2, <1>3, PollFits
<1>5. wire' \in Seq(Bytes) /\ buffer' \in Seq(Bytes)
  BY <1>4 DEF StreamFits, Reads
<1>6. broken' \in BOOLEAN
  BY <1>1 DEF Poll, Line, Chunk, Break, Rest, TypeInv, TypeOK
<1>7. /\ sent' \in Seq(Tokens) /\ content' \in Seq(Tokens \cup {Torn})
      /\ shown' \in Seq(Tokens \cup {Torn})
  BY DEF ReplyInv
<1>8. Due' = Due
  BY <1>2, <1>3 DEF Due
<1>9. TypeOK'
  BY <1>2, <1>3, <1>5, <1>6, <1>7 DEF TypeOK, TypeInv, turnVars, promptVars
<1> QED BY <1>2, <1>8, <1>9 DEF TypeInv, turnVars

\* The other steps.
LEMMA TurnTypes ==
  ASSUME TypeInv, ConversationInv, ReplyInv, ConversationInv', ReplyInv', [Next]_vars
  PROVE  TypeInv'
<1>1. CASE Fallback
  <2>1. replied' \in Texts \cup {"blank"}
    BY <1>1, TakenIsText DEF Fallback, TypeInv, TypeOK
  <2>2. /\ UNCHANGED <<history, kind, turns, replyVars, streamVars>>
        /\ phase' = (IF kind = "stream" THEN "reply" ELSE "question") /\ phase = "complete"
        /\ context' = << >> /\ prompt' = << >>
    BY <1>1 DEF Fallback, PromptUsed
  <2>3. Due' = Due
    BY <2>2 DEF Due
  <2>4. TypeOK'
    BY <2>1, <2>2 DEF TypeOK, TypeInv, replyVars, streamVars
  <2> QED BY <2>2, <2>3, <2>4 DEF TypeInv, replyVars
<1>2. CASE Fail \/ Complete \/ StreamEnds
  <2>1. /\ UNCHANGED <<history, turnVars, replyVars, streamVars>>
        /\ (context' = << >> /\ prompt' = << >>) \/ UNCHANGED promptVars
        /\ phase' \in {"idle", "question", "reply"}
    BY <1>2 DEF Fail, Complete, StreamEnds, PromptUsed
  <2>2. Due' <= Due /\ Due' \in Nat /\ Due \in Nat
    BY <1>2, <2>1 DEF Fail, Complete, StreamEnds, Due, turnVars
  <2>3. TypeOK'
    <3>1. context' \in Seq(Message) /\ prompt' \in Seq(Message)
      <4>1. << >> \in Seq(Message)
        OBVIOUS
      <4> QED BY <2>1, <4>1 DEF promptVars, TypeInv, TypeOK
    <3>2. UNCHANGED <<history, kind, replied, turns, sent, content, shown, gone,
                      wire, buffer, broken>>
      BY <2>1 DEF turnVars, replyVars, streamVars
    <3> QED BY <2>1, <3>1, <3>2 DEF TypeOK, TypeInv
  <2>4. Len(history') + Due' <= 2 * turns'
    <3>1. /\ Len(history) \in Nat /\ turns \in Nat /\ Len(history) + Due <= 2 * turns
          /\ history' = history /\ turns' = turns
      BY <2>1 DEF TypeInv, TypeOK, turnVars
    <3> QED BY ONLY <2>2, <3>1
  <2> QED BY <2>1, <2>3, <2>4 DEF TypeInv, replyVars
<1>3. CASE Leave
  <2>1. Due' = Due
    BY <1>3 DEF Leave, Due, turnVars
  <2>2. UNCHANGED <<history, phase, kind, replied, turns, context, prompt, sent, content,
                    shown, wire, buffer, broken>> /\ gone' = TRUE
    BY <1>3 DEF Leave, turnVars, promptVars, streamVars
  <2>3. TypeOK'
    BY <2>2 DEF TypeOK, TypeInv
  <2> QED BY <2>1, <2>2, <2>3 DEF TypeInv
<1>4. CASE UNCHANGED vars
  <2>1. TypeOK'
    BY <1>4 DEF vars, TypeOK, TypeInv, turnVars, promptVars, replyVars, streamVars
  <2>2. Due' = Due
    BY <1>4 DEF vars, Due, turnVars
  <2> QED BY <1>4, <2>1, <2>2 DEF TypeInv, vars, turnVars, replyVars
<1> QED BY <1>1, <1>2, <1>3, <1>4, AskTypes, StoreTypes, StartTypes, StreamTypes DEF Next

\* Type correctness of the turns: among other things a turn stores two messages at most.
THEOREM ConversationTypeCorrect == Spec => []TypeOK
<1>1. Init => TypeInv
  <2> SUFFICES ASSUME Init PROVE TypeInv
    OBVIOUS
  <2>1. /\ history = << >> /\ phase = "idle" /\ kind = "ask" /\ replied = "none" /\ turns = 0
        /\ context = << >> /\ prompt = << >> /\ sent = << >> /\ content = << >>
        /\ shown = << >> /\ gone = FALSE /\ wire = << >> /\ buffer = << >> /\ broken = FALSE
    BY DEF Init
  <2>2. MaxTurns \in Nat /\ MaxLines \in Nat
    BY ConversationAssumption
  <2>3. /\ history \in Seq(Message) /\ Len(history) = 0 /\ Len(sent) = 0
        /\ context \in Seq(Message) /\ prompt \in Seq(Message)
    BY ONLY <2>1
  <2>4. /\ sent \in Seq(Tokens) /\ content \in Seq(Tokens \cup {Torn})
        /\ shown \in Seq(Tokens \cup {Torn})
    BY ONLY <2>1
  <2>5. wire \in Seq(Bytes) /\ buffer \in Seq(Bytes)
    BY ONLY <2>1
  <2>6. /\ kind \in {"ask", "stream"} /\ gone \in BOOLEAN /\ broken \in BOOLEAN
        /\ phase \in {"idle", "complete", "question", "streaming", "reply"}
        /\ replied \in Texts \cup {"none", "blank"}
    BY ONLY <2>1
  <2>7. turns \in 0..MaxTurns /\ Len(history) <= 2 * turns /\ Len(sent) <= MaxLines
    BY ONLY <2>1, <2>2, <2>3
  <2>8. TypeOK
    BY ONLY <2>3, <2>4, <2>5, <2>6, <2>7 DEF TypeOK
  <2>9. Due = 0
    BY ONLY <2>1 DEF Due
  <2> QED BY ONLY <2>1, <2>3, <2>7, <2>8, <2>9 DEF TypeInv
<1>2. TypeInv => TypeOK
  BY DEF TypeInv
<1> QED BY <1>1, <1>2, TurnTypes, ConversationInductive, ReplyInductive, PTL DEF Spec

-----------------------------------------------------------------------------
(* FallbackAnswers: types                                                  *)

TopicIsKnown == answer.topic \in ToSet(Topics) \cup {"hint", "none"}

\* Type correctness of the fallback's answers: what is answered is a topic, and the
\* messages are about topics.
THEOREM FallbackTypeCorrect == FallbackSpec => []FallbackTypeOK
<1>1. FallbackInit => TopicIsKnown
  BY DEF FallbackInit, TopicIsKnown, NoAnswer
<1>2. ASSUME TopicIsKnown, [FallbackNext]_fallbackVars PROVE TopicIsKnown'
  <2>1. CASE Answer
    <3>1. answer'.topic = Topic(Heard)
      BY <2>1 DEF Answer
    <3> QED BY <3>1, TopicHasWord DEF TopicIsKnown
  <2>2. CASE Assemble \/ UNCHANGED fallbackVars
    <3>1. answer' = answer
      BY <2>2 DEF Assemble, fallbackVars
    <3> QED BY <1>2, <3>1 DEF TopicIsKnown
  <2>3. CASE NextQuestion
    BY <2>3 DEF NextQuestion, NoAnswer, TopicIsKnown
  <2> QED BY <1>2, <2>1, <2>2, <2>3 DEF FallbackNext
<1>3. FallbackInv /\ TopicIsKnown => FallbackTypeOK
  <2> SUFFICES ASSUME FallbackInv, TopicIsKnown PROVE FallbackTypeOK
    OBVIOUS
  <2>1. given \in Seq(Handed)
    BY DEF FallbackInv
  <2>2. \A m \in ToSet(given) : m \in Handed
    BY ONLY <2>1 DEF ToSet
  <2>3. \A m \in Handed : m.about \subseteq ToSet(Topics)
    BY DEF Handed
  <2>4. written \in MetricLines \cup {NoLine} /\ question \in Questions \cup {NoLine}
    BY DEF FallbackInv
  <2> QED BY ONLY <2>2, <2>3, <2>4, TopicIsKnown DEF FallbackTypeOK, TopicIsKnown
<1> QED BY <1>1, <1>2, <1>3, FallbackInductive, PTL DEF FallbackSpec
=============================================================================
