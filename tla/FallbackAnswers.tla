-------------------------- MODULE FallbackAnswers ---------------------------
(***************************************************************************)
(* The responder that answers when there is no LLM (fallback.rs): it finds *)
(* the question in the prompt, reads back the line of metrics that         *)
(* format_metric() has written into it, and answers about the first topic  *)
(* whose word it sees.  All it has is text: what a user has said may look  *)
(* like the line, and a line too many or too few is not noticed.  Servers  *)
(* and processes it finds in any message of a user's, in a log and in the  *)
(* question itself, too.                                                   *)
(*                                                                         *)
(* Of a text counts how it begins, which words it has, the servers it      *)
(* names and, of a line of metrics, the words and numerals in it.          *)
(***************************************************************************)
EXTENDS Naturals, Sequences, SequencesExt

CONSTANTS
  Abouts   \* the sets of topics whose words a question may have

VARIABLES
  given,    \* the messages the responder is given
  written,  \* the line of metrics among them, or NoLine
  question, \* the user's question, also if it is not among them
  answer

fallbackVars == <<given, written, question, answer>>

Numerals == {"1", "2"}
\* In the order of complete().
Topics == <<"greeting", "cpu", "memory", "disk", "network", "ai", "process", "log", "security">>
ASSUME AboutsAssumption == Abouts \subseteq SUBSET ToSet(Topics)

-----------------------------------------------------------------------------
(* The messages                                                            *)

\* servers: those behind "AI servers: "; lines: those on lines that begin "AI server:";
\* tops: it has "Top processes: " with ". AI servers:" after it.  A text has one list of
\* servers at most.
Plain(role, text, about) ==
  [role |-> role, text |-> text, about |-> about, cpu |-> "none", words |-> << >>,
   servers |-> << >>, lines |-> << >>, tops |-> FALSE]

\* format_metric(): what follows "Latest metrics: CPU n%".  A server whose name has a
\* dot in it is "dotted".  The commas and the dot after the words stand with them.  The
\* servers are left out when there are none.
MetricLine(cpu, disks, networks, processes, servers) ==
  [role |-> "user", text |-> "metrics", about |-> {"cpu", "memory", "disk", "network", "process"},
   cpu |-> cpu,
   words |-> <<"memory", cpu, disks, "disks", networks, "networks", processes, "processes">>,
   servers |-> servers, lines |-> << >>, tops |-> servers # << >>]

ServerLists == {<< >>, <<"plain">>, <<"dotted", "plain">>, <<"plain", "dotted">>}
MetricLines == {MetricLine("1", "1", "2", p, s) : p \in Numerals, s \in ServerLists}
NoLine == Plain("user", "none", {})

\* A user may paste such a line, or begin a question like one, up to "CPU" or before it.
Pasted == MetricLine("2", "2", "2", "2", <<"other">>)
Mangled == [Pasted EXCEPT !.cpu = "none", !.words = << >>, !.servers = << >>, !.tops = FALSE]
Headed == Plain("user", "headed", {})

\* What names other servers and processes, and has the words for it.
Naming(text, about) ==
  {[Plain("user", text, about \cup {"ai"}) EXCEPT !.servers = <<"other">>],
   [Plain("user", text, about \cup {"ai"}) EXCEPT !.lines = <<"other">>],
   [Plain("user", text, about \cup {"ai", "process"}) EXCEPT !.servers = <<"other">>, !.tops = TRUE]}
Questions ==
  {Plain("user", "said", a) : a \in Abouts} \cup Naming("said", {}) \cup {Pasted, Mangled, Headed}

\* format_log_sanitized() wraps the line, so that it begins with the wrapping, which has
\* the word "log" in it.
Logs ==
  {Plain("user", "wrapped", {"log"}), Plain("user", "wrapped", {"log", "cpu"})}
    \cup Naming("wrapped", {"log"})

\* load_context(), the question after it, and what clamp_prompt() leaves of both.
Assemble ==
  /\ given = << >>
  /\ \E past \in {<< >>} \cup {<<q>> : q \in {Plain("user", "said", {"disk"}),
                       Plain("assistant", "metrics", {"cpu"}), Pasted, Mangled, Headed}
                       \cup Naming("said", {})},
        line \in MetricLines \cup {NoLine}, logs \in {<< >>} \cup {<<l>> : l \in Logs}, q \in Questions :
       LET system == <<Plain("system", "said", {})>>
           metrics == IF line = NoLine THEN << >> ELSE <<line>>
           before == system \o past \o metrics
           all == before \o logs \o <<q>>
       IN \E kept \in 1..Len(all) :
            /\ given' = SubSeq(all, 1, kept)
            /\ written' = IF kept >= Len(before) THEN line ELSE NoLine
            /\ question' = q
  /\ UNCHANGED answer

-----------------------------------------------------------------------------
(* What the responder reads                                                *)

\* last_user_question(): no log begins with "Recent log [" any more.
Heard ==
  LET asked == {i \in DOMAIN given : given[i].role = "user" /\ given[i].text \notin {"metrics", "headed"}}
  IN  IF asked = {} THEN {} ELSE given[Max(asked)].about

Parsed(word) == IF word \in Numerals THEN word ELSE "none"
At(words, word, by) ==
  LET i == SelectLastInSeq(words, LAMBDA w : w = word) IN
  IF i > 0 /\ i + by \in DOMAIN words THEN Parsed(words[i + by]) ELSE "none"

\* Mutant of Read: the first of the lines counts.
ReadFirst(out, m) ==
  IF m.role # "user" \/ m.text # "metrics" \/ out.cpu # "none" THEN out
  ELSE [out EXCEPT !.cpu = m.cpu, !.memory = At(m.words, "memory", 1),
          !.disks = At(m.words, "disks", 1), !.networks = At(m.words, "networks", 1),
          !.processes = At(m.words, "processes", -1)]

\* extract_metrics(): each line overwrites what it tells of.  The word after a count's
\* name is the next count.
Read(out, m) ==
  LET Or(new, old) == IF m.words = << >> THEN old ELSE new IN
  IF m.role # "user" \/ m.text # "metrics" THEN out
  ELSE [cpu |-> m.cpu,
        memory |-> Or(At(m.words, "memory", 1), out.memory),
        disks |-> Or(At(m.words, "disks", 1), out.disks),
        networks |-> Or(At(m.words, "networks", 1), out.networks),
        processes |-> Or(At(m.words, "processes", -1), out.processes)]

Unread == [cpu |-> "none", memory |-> "none", disks |-> "none", networks |-> "none",
           processes |-> "none"]
Metrics ==
  LET read[i \in 0..Len(given)] == IF i = 0 THEN Unread ELSE Read(read[i - 1], given[i])
  IN  read[Len(given)]

\* extract_ai_servers(): of every message of the user's, the servers of its list up to
\* the first dot, and those on lines of their own.
UpToDot(servers) ==
  LET i == SelectInSeq(servers, LAMBDA s : s = "dotted")
  IN  IF i = 0 THEN servers ELSE SubSeq(servers, 1, i - 1)
ServersIn(m) == IF m.role = "user" THEN UpToDot(m.servers) \o m.lines ELSE << >>
Servers == FlattenSeq([i \in DOMAIN given |-> ServersIn(given[i])])

\* extract_processes(): the names end where the servers begin.
ProcessesNamed == \E m \in ToSet(given) : m.role = "user" /\ m.tops

\* extract_logs() asks for a beginning no log has.
LogsRead == {m \in ToSet(given) : m.role = "user" /\ m.text = "log"}

-----------------------------------------------------------------------------
(* The answer                                                              *)

Topic(about) ==
  LET i == SelectInSeq(Topics, LAMBDA t : t \in about)
  IN  IF i = 0 THEN "hint" ELSE Topics[i]

Told(topic) ==
  CASE topic = "cpu" -> <<Metrics.cpu, Metrics.processes>>
    [] topic = "memory" -> <<Metrics.memory>>
    [] topic = "disk" -> <<Metrics.disks>>
    [] topic = "network" -> <<Metrics.networks>>
    [] topic = "ai" -> Servers
    [] topic = "process" -> IF ProcessesNamed THEN <<"names">> ELSE <<Metrics.processes>>
    [] topic \in {"log", "security"} -> IF LogsRead = {} THEN <<"none">> ELSE <<"counts">>
    [] OTHER -> << >>

NoAnswer == [topic |-> "none", told |-> << >>]

Answer ==
  /\ given # << >>
  /\ answer = NoAnswer
  /\ answer' = [topic |-> Topic(Heard), told |-> Told(Topic(Heard))]
  /\ UNCHANGED <<given, written, question>>

NextQuestion ==
  /\ answer # NoAnswer
  /\ given' = << >> /\ written' = NoLine /\ question' = NoLine
  /\ answer' = NoAnswer

FallbackInit ==
  /\ given = << >> /\ written = NoLine /\ question = NoLine
  /\ answer = NoAnswer

FallbackTypeOK ==
  /\ written \in MetricLines \cup {NoLine}
  /\ question \in Questions \cup {NoLine}
  /\ answer.topic \in ToSet(Topics) \cup {"hint", "none"}
  /\ \A m \in ToSet(given) : m.about \subseteq ToSet(Topics)

FallbackNext == Assemble \/ Answer \/ NextQuestion

FallbackSpec == FallbackInit /\ [][FallbackNext]_fallbackVars

-----------------------------------------------------------------------------
(* Properties                                                              *)

\* ss occurs in tt without a gap.
Within(ss, tt) == \E i \in 0..Len(tt) : \A k \in 1..Len(ss) : i + k <= Len(tt) /\ tt[i + k] = ss[k]

\* A question that does not begin like a line of metrics is answered from the line that
\* was written into the prompt, wherever the prompt was cut after it and whatever the
\* user has pasted before: the CPU, the memory and the number of processes are that
\* line's.  Of its servers those before a dot are told, one behind the other, and besides
\* only servers that some message of the user's, a log or the question names; processes
\* are named, and not counted, as soon as the line has servers.  A question that was
\* not cut off is answered on a topic it has a word of.
\* (The counts told for disks and networks are those of the word after.)
SnapshotIsTold ==
  answer # NoAnswer /\ written # NoLine /\ question.text = "said" =>
    /\ answer.topic = "cpu" => answer.told = <<written.cpu, written.words[7]>>
    /\ answer.topic = "memory" => answer.told = <<written.words[2]>>
    /\ answer.topic = "process" =>
         /\ answer.told \in {<<"names">>, <<written.words[7]>>}
         /\ written.servers # << >> => answer.told = <<"names">>
    /\ answer.topic = "ai" =>
         /\ Within(UpToDot(written.servers), answer.told)
         /\ answer.told \in Seq(ToSet(UpToDot(written.servers)) \cup {"other"})
    /\ Last(given) = question => answer.topic \in question.about \cup {"hint"}
=============================================================================
