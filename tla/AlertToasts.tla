---------------------------- MODULE AlertToasts -----------------------------
(***************************************************************************)
(* The dashboard's page in the browser (observa.js): the event streams it  *)
(* keeps open and the toasts of the alerts that come over them.  Whether a *)
(* toast is due is asked of the server, and while the answer is on its way *)
(* the same alert may come over another stream, or be acknowledged.        *)
(***************************************************************************)
EXTENDS Integers, Sequences, FiniteSets

CONSTANTS
  Alerts,      \* the keys of alerts: severity, message and time
  KeepLocal,   \* how many acknowledged keys the browser keeps (100)
  MaxStreams,  \* bound on the streams one load of the page makes
  MaxChecks    \* bound on the checks under way together

ASSUME AlertToastsAssumption ==
  KeepLocal \in Nat \ {0} /\ MaxStreams \in Nat \ {0} /\ MaxChecks \in Nat

VARIABLES
  visible,  \* document.visibilityState
  streams,  \* the readyState of each EventSource made; the last one is "source"
  timers,   \* reconnects that wait for their timeout
  checks,   \* calls of showAlertToast that wait for shouldShowAlert
  toasts,   \* alert -> how many toasts of it are on the screen
  local,    \* observa-acknowledged-alerts, the oldest first
  server,   \* the server's list, kept in its memory
  posts     \* acknowledgements on their way to the server

toastVars == <<visible, streams, timers, checks, toasts, local, server, posts>>
pageVars == <<visible, streams, timers>>
listVars == <<local, server, posts>>

\* A check also has what only the properties look at: who had the alert as
\* acknowledged when its event came, and whether the server's list was to be had.
Checks == [alert : Alerts, passed : BOOLEAN, known : SUBSET {"here", "server"}, blind : BOOLEAN]

ToastsTypeOK ==
  /\ visible \in BOOLEAN
  /\ streams \in Seq({"connecting", "open", "closed"}) /\ Len(streams) \in 1..MaxStreams
  /\ timers \in 0..MaxStreams
  /\ checks \subseteq Checks
  /\ toasts \in [Alerts -> Nat]
  /\ local \in Seq(Alerts) /\ Len(local) <= KeepLocal
  /\ server \subseteq Alerts /\ posts \subseteq Alerts

ToastsInit ==
  /\ visible = TRUE
  /\ streams = <<"connecting">>
  /\ timers = 0
  /\ checks = {}
  /\ toasts = [a \in Alerts |-> 0]
  /\ local = << >> /\ server = {} /\ posts = {}

Local == {local[i] : i \in 1..Len(local)}
KnownTo(a) == {x \in {"here"} : a \in Local} \cup {x \in {"server"} : a \in server}

\* Navigation makes the page anew; only the browser's storage outlives it.
PageLoads ==
  /\ streams' = <<"connecting">>
  /\ timers' = 0
  /\ checks' = {}
  /\ toasts' = [a \in Alerts |-> 0]
  /\ UNCHANGED <<visible, listVars>>

-----------------------------------------------------------------------------
(* wireSse                                                                 *)

\* The stream made before is not closed here, so that two may be open at once.
CreateSource ==
  /\ Len(streams) < MaxStreams
  /\ streams' = Append(streams, "connecting")

StreamOpens(i) ==
  /\ streams[i] = "connecting"
  /\ streams' = [streams EXCEPT ![i] = "open"]
  /\ UNCHANGED <<visible, timers, checks, toasts, listVars>>

\* The error handler closes the stream; a page that is hidden does not reconnect.
StreamFails(i) ==
  /\ streams[i] # "closed"
  /\ streams' = [streams EXCEPT ![i] = "closed"]
  /\ timers' = IF visible THEN timers + 1 ELSE timers
  /\ UNCHANGED <<visible, checks, toasts, listVars>>

TimerFires ==
  /\ timers > 0
  /\ timers' = timers - 1
  /\ CreateSource
  /\ UNCHANGED <<visible, checks, toasts, listVars>>

PageHides ==
  /\ visible
  /\ visible' = FALSE
  /\ UNCHANGED <<streams, timers, checks, toasts, listVars>>

\* Mutant of PageShows: it is left to the timers to reconnect.
PageShowsWaits ==
  /\ ~visible
  /\ visible' = TRUE
  /\ UNCHANGED <<streams, timers, checks, toasts, listVars>>

PageShows ==
  /\ ~visible
  /\ visible' = TRUE
  /\ IF streams[Len(streams)] = "closed" THEN CreateSource ELSE UNCHANGED streams
  /\ UNCHANGED <<timers, checks, toasts, listVars>>

-----------------------------------------------------------------------------
(* showAlertToast and acknowledgeAlert                                     *)

\* The server sends an alert over every stream that is open, and a log that is read
\* again brings the same key again.  What the browser has as acknowledged is dropped,
\* the rest waits for the server.
AlertComes(a, i) ==
  /\ streams[i] = "open"
  /\ a \notin Local
  /\ Cardinality(checks) < MaxChecks
  /\ checks' = checks \cup {[alert |-> a, passed |-> FALSE, blind |-> FALSE,
                             known |-> KnownTo(a)]}
  /\ UNCHANGED <<pageVars, toasts, listVars>>

ListAnswers(c) ==
  /\ ~c.passed
  /\ checks' = IF c.alert \in server THEN checks \ {c}
                                     ELSE (checks \ {c}) \cup {[c EXCEPT !.passed = TRUE]}
  /\ UNCHANGED <<pageVars, toasts, listVars>>

\* A list that cannot be had counts as empty.
ListFails(c) ==
  /\ ~c.passed
  /\ checks' = (checks \ {c}) \cup {[c EXCEPT !.passed = TRUE, !.blind = TRUE]}
  /\ UNCHANGED <<pageVars, toasts, listVars>>

\* Mutant of ShowToast: whether there is a toast is asked before the wait only.
ShowToastAnyway(c) ==
  /\ c.passed
  /\ checks' = checks \ {c}
  /\ toasts' = [toasts EXCEPT ![c.alert] = IF @ < 2 THEN @ + 1 ELSE @]
  /\ UNCHANGED <<pageVars, listVars>>

\* After the wait, at once: is there a toast of it, and if not, there is now.
ShowToast(c) ==
  /\ c.passed
  /\ checks' = checks \ {c}
  /\ toasts' = [toasts EXCEPT ![c.alert] = IF @ > 0 THEN @ ELSE 1]
  /\ UNCHANGED <<pageVars, listVars>>

LastOf(s, n) == SubSeq(s, IF Len(s) > n THEN Len(s) - n + 1 ELSE 1, Len(s))

\* What the browser has already is not posted again, and neither is what its storage
\* does not take.
AcknowledgeToast(a) ==
  /\ toasts[a] > 0
  /\ toasts' = [toasts EXCEPT ![a] = @ - 1]
  /\ \/ UNCHANGED <<local, posts>>
     \/ /\ a \notin Local
        /\ local' = LastOf(Append(local, a), KeepLocal)
        /\ posts' = posts \cup {a}
  /\ UNCHANGED <<pageVars, checks, server>>

PostArrives(a) ==
  /\ a \in posts
  /\ posts' = posts \ {a}
  /\ server' = server \cup {a}
  /\ UNCHANGED <<pageVars, checks, toasts, local>>

\* Nobody hears of it.
PostLost(a) ==
  /\ a \in posts
  /\ posts' = posts \ {a}
  /\ UNCHANGED <<pageVars, checks, toasts, local, server>>

AcknowledgedElsewhere(a) ==
  /\ a \notin server
  /\ server' = server \cup {a}
  /\ UNCHANGED <<pageVars, checks, toasts, local, posts>>

\* The list is gone; what was asked before is answered from an empty one.
ServerRestarts ==
  /\ server # {}
  /\ server' = {}
  /\ checks' = {[c EXCEPT !.blind = TRUE] : c \in checks}
  /\ UNCHANGED <<pageVars, toasts, local, posts>>

ToastsNext ==
  \/ PageLoads \/ PageHides \/ PageShows \/ TimerFires \/ ServerRestarts
  \/ \E i \in 1..Len(streams) : StreamOpens(i) \/ StreamFails(i)
  \/ \E a \in Alerts :
       \/ AcknowledgeToast(a)
       \/ PostArrives(a) \/ PostLost(a) \/ AcknowledgedElsewhere(a)
       \/ \E i \in 1..Len(streams) : AlertComes(a, i)
  \/ \E c \in checks : ListAnswers(c) \/ ListFails(c) \/ ShowToast(c)

ToastsSpec == ToastsInit /\ [][ToastsNext]_toastVars

-----------------------------------------------------------------------------
(* Properties                                                              *)

\* A page somebody looks at has a stream that is not closed, or is about to make one,
\* however errors, timeouts and the hiding and showing of the page fall together.
VisibleIsConnected == visible => streams[Len(streams)] # "closed" \/ timers > 0

\* Whatever comes twice over two streams, a toast appears only where there is none of
\* its alert, and never for an alert that this browser had as acknowledged when the
\* event came, or the server had, unless its list could not be had.
ToastsAreDue ==
  [][\A a \in Alerts : toasts'[a] > toasts[a] =>
       /\ toasts[a] = 0
       /\ \E c \in checks \ checks' :
            /\ c.alert = a
            /\ "here" \notin c.known
            /\ "server" \in c.known => c.blind]_toastVars
=============================================================================
