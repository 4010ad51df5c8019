----------------------------- MODULE ChatPages ------------------------------
(***************************************************************************)
(* The chat pages of one browser (chat_page, partial_chat, the delete      *)
(* button and build_chat_context): which session a page shows and whose    *)
(* token it carries.  Several tabs share one cookie, their requests run    *)
(* side by side, and each answer that sets the cookie replaces it.         *)
(*                                                                         *)
(* Ids and tokens come in pairs: the n-th session is made with id n and    *)
(* token n.  Session 1 is another browser's; a link may lead to it.        *)
(***************************************************************************)
EXTENDS Integers, FiniteSets

CONSTANTS
  Tabs,         \* tabs of the browser
  MaxSessions,  \* bound on the sessions made
  MaxFailures   \* bound on the calls of the store that fail

ASSUME ChatPagesAssumption == MaxSessions \in Nat \ {0} /\ MaxFailures \in Nat

VARIABLES
  hasDatabase,  \* fixed at the start
  locked,       \* a dashboard token is configured; fixed at the start
  admitted,     \* the browser has the cookie of a login
  owners,       \* chat_sessions: id -> token
  made,         \* how many sessions have been made
  cookie,       \* observa_chat_owner_token
  page,         \* tab -> the id and the token in its page
  load,         \* tab -> the request under way
  removed,      \* history: the ids that have been deleted
  failures

chatPagesVars == <<hasDatabase, locked, admitted, owners, made, cookie, page, load,
                   removed, failures>>

Ids == 1..MaxSessions
\* No cookie, and an empty token.
NoCookie == -1
Blank == 0
NoPage == [id |-> Blank, token |-> Blank]
NoLoad == [at |-> "none"]
Loads == {NoLoad}
  \cup [at : {"verify", "lookup", "create", "read"}, kind : {"page", "partial", "delete"},
        link : BOOLEAN, id : Ids \cup {Blank}, token : Ids \cup {Blank}, new : BOOLEAN,
        failed : BOOLEAN, due : SUBSET Ids]

ChatPagesTypeOK ==
  /\ {hasDatabase, locked, admitted} \subseteq BOOLEAN
  /\ made \in 1..MaxSessions
  /\ DOMAIN owners \subseteq 1..made /\ \A i \in DOMAIN owners : owners[i] \in 1..made
  /\ cookie \in Ids \cup {Blank, NoCookie}
  /\ page \in [Tabs -> [id : Ids \cup {Blank}, token : Ids \cup {Blank}]]
  /\ load \in [Tabs -> Loads]
  /\ removed \subseteq 1..made
  /\ failures \in 0..MaxFailures

ChatPagesInit ==
  /\ hasDatabase \in BOOLEAN /\ locked \in BOOLEAN
  /\ admitted = FALSE
  /\ owners = IF hasDatabase THEN [i \in {1} |-> 1] ELSE << >>
  /\ made = 1
  /\ cookie = NoCookie
  /\ page = [t \in Tabs |-> NoPage]
  /\ load = [t \in Tabs |-> NoLoad]
  /\ removed = {}
  /\ failures = 0

SessionsOf(token) == {i \in DOMAIN owners : owners[i] = token}
CookieToken == IF cookie = NoCookie THEN Blank ELSE cookie
CallFails == failures < MaxFailures /\ failures' = failures + 1

-----------------------------------------------------------------------------
(* auth_middleware                                                         *)

\* The first of the bearer token, X-Owner-Token and the login's cookie counts.  The
\* page's script sends the chat token in X-Owner-Token, which hides the cookie.
LetIn(kind) == ~locked \/ (admitted /\ kind # "partial")

Login ==
  /\ locked /\ ~admitted
  /\ admitted' = TRUE
  /\ UNCHANGED <<hasDatabase, locked, owners, made, cookie, page, load, removed, failures>>

\* POST /logout is not exempt: only who is logged in gets to it.
Logout ==
  /\ locked /\ admitted
  /\ admitted' = FALSE
  /\ UNCHANGED <<hasDatabase, locked, owners, made, cookie, page, load, removed, failures>>

-----------------------------------------------------------------------------
(* The requests                                                            *)

\* id is Blank when the URL names no session.
Begin(t, kind, id, token) ==
  load' = [load EXCEPT ![t] =
    [at |-> IF id = Blank THEN "lookup" ELSE "verify", kind |-> kind, link |-> id # Blank,
     id |-> id, token |-> token, new |-> FALSE, failed |-> FALSE, due |-> SessionsOf(token)]]

\* /chat, with or without a session_id.
OpenChat(t) ==
  /\ load[t] = NoLoad
  /\ LetIn("page")
  /\ \E id \in {Blank} \cup 1..made : Begin(t, "page", id, CookieToken)
  /\ UNCHANGED <<hasDatabase, locked, admitted, owners, made, cookie, page, removed, failures>>

\* The script of a page loads its messages, with the token of the page.
LoadMessages(t) ==
  /\ load[t] = NoLoad /\ page[t] # NoPage
  /\ LetIn("partial")
  /\ Begin(t, "partial", page[t].id, page[t].token)
  /\ UNCHANGED <<hasDatabase, locked, admitted, owners, made, cookie, page, removed, failures>>

\* Whose a question is: the cookie that the tabs share goes before the token of the page,
\* which the script sends in the body.
AskedBy(t) == IF CookieToken = Blank THEN page[t].token ELSE CookieToken

\* A question from a page makes its session again if it is gone, for whoever asks
\* (ensure_session).  One of another's session is turned away and changes nothing.
AskFromPage(t) ==
  /\ page[t] # NoPage
  /\ LetIn("ask")
  /\ hasDatabase /\ page[t].id \notin DOMAIN owners
  /\ owners' = [i \in DOMAIN owners \cup {page[t].id} |->
                  IF i = page[t].id THEN AskedBy(t) ELSE owners[i]]
  /\ UNCHANGED <<hasDatabase, locked, admitted, made, cookie, page, load, removed, failures>>

\* The button beside a session, with the token of the cookie (of another owner's
\* session nothing but the messages would go, see Chat).  The answer is a page of
\* its own inside the page, made like one without a session_id.
Delete(t) ==
  /\ load[t] = NoLoad /\ page[t] # NoPage
  /\ LetIn("delete")
  /\ \E id \in SessionsOf(CookieToken) :
       /\ owners' = [i \in DOMAIN owners \ {id} |-> owners[i]]
       /\ removed' = removed \cup {id}
  /\ Begin(t, "delete", Blank, CookieToken)
  /\ UNCHANGED <<hasDatabase, locked, admitted, made, cookie, page, failures>>

-----------------------------------------------------------------------------
(* build_chat_context                                                      *)

Step(t, at) == load[t] # NoLoad /\ load[t].at = at
Move(t, to, id) == load' = [load EXCEPT ![t].at = to, ![t].id = id]

\* Without a database every token will do.
IsOwner(id, token) == hasDatabase => id \in DOMAIN owners /\ owners[id] = token

\* Mutant of Verify: any session that exists is shown.
VerifyExists(t) ==
  /\ Step(t, "verify")
  /\ IF load[t].id \in DOMAIN owners THEN Move(t, "read", load[t].id) ELSE Move(t, "create", Blank)
  /\ UNCHANGED <<hasDatabase, locked, admitted, owners, made, cookie, page, removed, failures>>

\* A session that is somebody else's, or gone, is answered with a new one.
Verify(t) ==
  /\ Step(t, "verify")
  /\ IF IsOwner(load[t].id, load[t].token) THEN Move(t, "read", load[t].id)
                                           ELSE Move(t, "create", Blank)
  /\ UNCHANGED <<hasDatabase, locked, admitted, owners, made, cookie, page, removed, failures>>

\* Mutant of Lookup: what is under way is taken for a first visit.
LookupForgets(t) ==
  /\ Step(t, "lookup")
  /\ Move(t, "create", Blank)
  /\ UNCHANGED <<hasDatabase, locked, admitted, owners, made, cookie, page, removed, failures>>

\* Any session of the token is restored; with none, one is made.
Lookup(t) ==
  /\ Step(t, "lookup")
  /\ LET mine == SessionsOf(load[t].token) IN
       IF mine = {} THEN Move(t, "create", Blank) ELSE \E id \in mine : Move(t, "read", id)
  /\ UNCHANGED <<hasDatabase, locked, admitted, owners, made, cookie, page, removed, failures>>

\* An error counts as no session.
LookupFails(t) ==
  /\ Step(t, "lookup") /\ load[t].token # Blank
  /\ CallFails
  /\ load' = [load EXCEPT ![t].at = "create", ![t].failed = TRUE]
  /\ UNCHANGED <<hasDatabase, locked, admitted, owners, made, cookie, page, removed>>

\* Without a database a session is not kept anywhere.
MakeSession ==
  /\ made < MaxSessions
  /\ made' = made + 1
  /\ owners' = IF hasDatabase
               THEN [i \in DOMAIN owners \cup {made'} |-> IF i = made' THEN made' ELSE owners[i]]
               ELSE owners

\* The script asks for a session where a page came without one (POST /api/chat/session).
AskForSession ==
  /\ LetIn("session")
  /\ MakeSession
  /\ cookie' = made'
  /\ UNCHANGED <<hasDatabase, locked, admitted, page, load, removed, failures>>

Create(t) ==
  /\ Step(t, "create")
  /\ MakeSession
  /\ load' = [load EXCEPT ![t].at = "read", ![t].id = made', ![t].new = TRUE]
  /\ UNCHANGED <<hasDatabase, locked, admitted, cookie, page, removed, failures>>

\* Without a session the page cannot be rendered: 500, but the cookie is set.
Broken(t) ==
  /\ Step(t, "verify") \/ Step(t, "create")
  /\ CallFails
  /\ load' = [load EXCEPT ![t] = NoLoad]
  /\ IF load[t].kind = "page"
     THEN /\ page' = [page EXCEPT ![t] = NoPage]
          /\ cookie' = load[t].token
     ELSE UNCHANGED <<page, cookie>>
  /\ UNCHANGED <<hasDatabase, locked, admitted, owners, made, removed>>

PageToken(t) == IF load[t].new THEN load[t].id ELSE load[t].token

\* The messages and the list are read and the answer sent.  Only /chat sets the
\* cookie, to the token of a session that was made or else the request's own.
Show(t) ==
  /\ Step(t, "read")
  /\ load' = [load EXCEPT ![t] = NoLoad]
  /\ IF load[t].kind = "page"
     THEN /\ page' = [page EXCEPT ![t] = [id |-> load[t].id, token |-> PageToken(t)]]
          /\ cookie' = PageToken(t)
     ELSE UNCHANGED <<page, cookie>>
  /\ UNCHANGED <<hasDatabase, locked, admitted, owners, made, removed, failures>>

ChatPagesNext ==
  \/ Login \/ Logout \/ AskForSession
  \/ \E t \in Tabs :
       \/ OpenChat(t) \/ LoadMessages(t) \/ AskFromPage(t) \/ Delete(t)
       \/ Verify(t) \/ Lookup(t) \/ LookupFails(t) \/ Create(t) \/ Broken(t) \/ Show(t)

ChatPagesSpec == ChatPagesInit /\ [][ChatPagesNext]_chatPagesVars

-----------------------------------------------------------------------------
(* Properties                                                              *)

\* A page carries the id of a session and the token of its owner, whichever tab made
\* or deleted what since, unless the session was deleted (who makes it again may be
\* another).  So a question asked from it is turned away only where another tab's page
\* has replaced the cookie.  The cookie is the token of a session too, or of one that
\* was deleted.
PagesCarryTheirOwner ==
  hasDatabase =>
    /\ \A t \in Tabs : page[t] # NoPage /\ page[t].id \notin removed =>
         /\ page[t].id \in DOMAIN owners /\ owners[page[t].id] = page[t].token
         /\ AskedBy(t) # owners[page[t].id] => cookie \in Ids \ {page[t].token}
    /\ cookie \in Ids => SessionsOf(cookie) # {} \/ cookie \in removed

\* Who comes back to /chat is shown a session he had when he came, or one that was
\* deleted once and made again under his token, and no new one is made, unless the
\* lookup failed or every session of his was deleted on the way.
ComingBackFindsASession ==
  [][\A t \in Tabs :
       /\ load[t] # NoLoad /\ load[t].at = "read" /\ load'[t] = NoLoad
       /\ load[t].kind = "page" /\ ~load[t].link /\ ~load[t].failed
       => \/ load[t].due \subseteq removed
          \/ ~load[t].new /\ page'[t].id \in load[t].due \cup removed]_chatPagesVars
=============================================================================
