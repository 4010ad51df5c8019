---------------------------- MODULE Conversation ----------------------------
(***************************************************************************)
(* The turns of one conversation, one after the other: what of it reaches  *)
(* the LLM or the fallback responder (load_context, prepend_system_prompt  *)
(* and clamp_prompt), and what of the reply reaches the client and the     *)
(* table (stream_llm_reply over TokenStream).  Chat has the requests that  *)
(* run side by side.                                                       *)
(*                                                                         *)
(* Of a text only its length counts, and what sort of text it is; the unit *)
(* of length is any number of bytes.                                       *)
(***************************************************************************)
EXTENDS TokenStream, FiniteSets

CONSTANTS
  MaxTotal,    \* MAX_TOTAL_PROMPT_LEN
  MaxInput,    \* MAX_LLM_INPUT_LEN
  MaxSystem,   \* MAX_PROMPT_LEN of prepend_system_prompt()
  MaxLogs,     \* the logs load_context() reads (5)
  MaxTurns,    \* bound on the questions
  MaxLines     \* bound on the lines of a streamed response

ASSUME ConversationAssumption ==
  /\ {MaxTotal, MaxInput, MaxSystem, MaxLogs, MaxTurns, MaxLines} \subseteq Nat \ {0}
  /\ MaxSystem <= MaxInput
  /\ MaxInput <= MaxTotal

VARIABLES
  history,   \* chat_messages of the session
  kind,      \* "ask" or "stream"
  phase,     \* the await the turn is at
  context,   \* the messages collected for the prompt
  prompt,    \* what clamp_prompt() left of them
  sent,      \* history variable: the tokens of the streamed response
  content,   \* the tokens gathered from it
  shown,     \* the tokens sent on to the client
  gone,      \* the client has left
  replied,   \* what the fallback took for the question
  turns      \* questions so far

turnVars == <<kind, replied, turns>>
promptVars == <<context, prompt>>
replyVars == <<sent, content, shown, gone>>
vars == <<history, phase, turnVars, promptVars, replyVars, streamVars>>

Texts == {"system", "said", "metrics", "log", "question"}
Roles == {"system", "user", "assistant"}

\* A log, a reply and a question in which markers have been replaced may be
\* longer than MaxInput.  line: it begins like a message of metrics or of a log.
Message == [role : Roles, text : Texts, len : 0..MaxInput + MaxLines, line : BOOLEAN]
Bytes == (UNION {ToSet(l) : l \in Lines}) \cup {Newline, "?"}

TypeOK ==
  /\ history \in Seq(Message) /\ Len(history) <= 2 * turns
  /\ kind \in {"ask", "stream"}
  /\ phase \in {"idle", "complete", "question", "streaming", "reply"}
  /\ context \in Seq(Message)
  /\ prompt \in Seq(Message)
  /\ sent \in Seq(Tokens)
  /\ content \in Seq(Tokens \cup {Torn})
  /\ shown \in Seq(Tokens \cup {Torn})
  /\ gone \in BOOLEAN
  /\ replied \in Texts \cup {"none", "blank"}
  /\ turns \in 0..MaxTurns
  /\ wire \in Seq(Bytes) /\ buffer \in Seq(Bytes) /\ broken \in BOOLEAN

Init ==
  /\ history = <<>>
  /\ phase = "idle"
  /\ kind = "ask" /\ replied = "none" /\ turns = 0
  /\ context = <<>> /\ prompt = <<>>
  /\ sent = <<>> /\ content = <<>> /\ shown = <<>> /\ gone = FALSE
  /\ wire = <<>> /\ buffer = <<>> /\ broken = FALSE

-----------------------------------------------------------------------------
(* The prompt                                                              *)

Text(role, text, len) ==
  [role |-> role, text |-> text, len |-> len, line |-> text = "metrics"]

\* What users write may begin like a line, too.
ByUser(text, lengths) ==
  {m \in [role : {"user"}, text : {text}, len : lengths, line : BOOLEAN] :
     m.line => m.len > 0}

Total(messages) ==
  LET sum[n \in 0..Len(messages)] ==
        IF n = 0 THEN 0 ELSE sum[n - 1] + messages[n].len
  IN  sum[Len(messages)]
\* truncate_bytes(); up to three bytes less, so as not to split a character.
Shortened(m) == [m EXCEPT !.len = IF @ > MaxInput THEN MaxInput ELSE @]
ShortenedAll(messages) == [i \in DOMAIN messages |-> Shortened(messages[i])]

\* Mutant: only the single messages are cut.
ClampEach(messages) == ShortenedAll(messages)

\* Mutant: the length is added up before the message is cut.
ClampUncut(messages) ==
  LET kept == {n \in 0..Len(messages) : Total(SubSeq(messages, 1, n)) <= MaxTotal}
  IN  SubSeq(ShortenedAll(messages), 1, Max(kept))

\* clamp_prompt(): every message is cut to MaxInput, and the first with which
\* the sum is above MaxTotal ends the prompt.
Clamp(messages) ==
  LET short == ShortenedAll(messages)
      kept  == {n \in 0..Len(messages) : Total(SubSeq(short, 1, n)) <= MaxTotal}
  IN  SubSeq(short, 1, Max(kept))

\* prepend_system_prompt() over load_context() and the question.  What cannot
\* be read is left out: past is <<>> or the history.
Collected(past, system, metrics, logs, question) ==
  <<Text("system", "system", system)>> \o past \o metrics \o logs
    \o <<question>>

\* do_stream() stores the question before it asks, ask_core() with the reply.
AskWith(k, past, system, metrics, logs, question) ==
  /\ phase = "idle"
  /\ turns < MaxTurns
  /\ turns' = turns + 1
  /\ kind' = k
  /\ replied' = "none"
  /\ phase' = IF k = "stream" THEN "question" ELSE "complete"
  /\ context' = Collected(past, system, metrics, logs, question)
  /\ prompt' = Clamp(context')
  /\ sent' = <<>> /\ content' = <<>> /\ shown' = <<>> /\ gone' = FALSE
  /\ wire' = <<>> /\ buffer' = <<>> /\ broken' = FALSE
  /\ UNCHANGED history

Ask ==
  \E k \in {"ask", "stream"}, past \in {<<>>, history}, system \in 1..MaxSystem,
     metrics \in {<<>>, <<Text("user", "metrics", 1)>>},
     lengths \in BoundedSeq(1..MaxInput + 1, MaxLogs),
     question \in ByUser("question", 0..MaxInput + 1) :
       AskWith(k, past, system, metrics,
               [i \in DOMAIN lengths |-> Text("user", "log", lengths[i])], question)

-----------------------------------------------------------------------------
(* Storing                                                                 *)

\* The prompt is dropped with the last call that takes it.
PromptUsed == context' = <<>> /\ prompt' = <<>>

\* store_message() of the question as the client sent it: at most MaxInput, by
\* validate_message_length(), and not of the length it has in the prompt, where
\* control characters are gone and markers replaced.
StoreQuestion ==
  /\ phase = "question"
  /\ \E said \in ByUser("said", 0..MaxInput) : history' = Append(history, said)
  /\ phase' = IF kind = "stream" THEN "complete" ELSE "reply"
  /\ UNCHANGED <<turnVars, promptVars, replyVars, streamVars>>

\* A streamed reply is what has been gathered of it.
ReplyLengths ==
  IF kind = "stream" /\ replied = "none" THEN {Len(content)} ELSE 0..MaxInput + 1

StoreReply ==
  /\ phase = "reply"
  /\ \E len \in ReplyLengths : history' = Append(history, Text("assistant", "said", len))
  /\ phase' = "idle"
  /\ UNCHANGED <<turnVars, promptVars, replyVars, streamVars>>

\* An error of the store or of the LLM ends the turn.
Fail ==
  /\ phase \in {"question", "complete", "reply"}
  /\ phase' = "idle"
  /\ PromptUsed
  /\ UNCHANGED <<history, turnVars, replyVars, streamVars>>

-----------------------------------------------------------------------------
(* Answers                                                                 *)

\* complete_with_fallback(), and the LLM has answered.
Complete ==
  /\ phase = "complete" /\ kind = "ask"
  /\ phase' = "question"
  /\ PromptUsed
  /\ UNCHANGED <<history, turnVars, replyVars, streamVars>>

\* FallbackResponder's last_user_question(): the last message of the user's
\* that does not begin like a metric or a log, as the question itself may.  A
\* log of format_log() begins with the line wrap_untrusted() puts around it,
\* and so is not told apart.
TakenForQuestion(messages) ==
  LET asked == {i \in DOMAIN messages : messages[i].role = "user" /\ ~messages[i].line}
  IN  IF asked = {} THEN "blank" ELSE messages[Max(asked)].text

\* Mutant: the first message of the user's instead of the last.
FallbackTakesFirst ==
  /\ phase = "complete"
  /\ phase' = IF kind = "stream" THEN "reply" ELSE "question"
  /\ replied' = TakenForQuestion(Reverse(prompt))
  /\ PromptUsed
  /\ UNCHANGED <<history, kind, turns, replyVars, streamVars>>

Fallback ==
  /\ phase = "complete"
  /\ phase' = IF kind = "stream" THEN "reply" ELSE "question"
  /\ replied' = TakenForQuestion(prompt)
  /\ PromptUsed
  /\ UNCHANGED <<history, kind, turns, replyVars, streamVars>>

\* complete_stream(): the LLM has answered with a body of these lines.
StartStream ==
  /\ phase = "complete" /\ kind = "stream"
  /\ phase' = "streaming"
  /\ \E lines \in BoundedSeq(Lines, MaxLines), closed \in BOOLEAN :
       /\ wire' = Body(lines, closed)
       /\ sent' = TokensOf(lines)
  /\ PromptUsed
  /\ UNCHANGED <<history, turnVars, content, shown, gone, buffer, broken>>

\* stream_llm_reply(): a token is gathered and sent on, an error is only sent
\* on; when the client turns out to have left, the loop ends.
Receive(item) ==
  /\ content' = IF item = "error" THEN content ELSE Append(content, item)
  /\ shown' = IF gone \/ item = "error" THEN shown ELSE Append(shown, item)
  /\ phase' = IF gone THEN "reply" ELSE phase

StreamNext ==
  /\ phase = "streaming"
  /\ \E item \in Items :
       /\ Poll(item)
       /\ IF item = "nothing" THEN UNCHANGED <<content, shown, phase>> ELSE Receive(item)
  /\ UNCHANGED <<history, turnVars, promptVars, sent, gone>>

StreamEnds ==
  /\ phase = "streaming"
  /\ StreamOver
  /\ phase' = "reply"
  /\ UNCHANGED <<history, turnVars, promptVars, replyVars, streamVars>>

Leave ==
  /\ phase = "streaming"
  /\ ~gone
  /\ gone' = TRUE
  /\ UNCHANGED <<history, phase, turnVars, promptVars, sent, content, shown, streamVars>>

Next ==
  \/ Ask
  \/ StoreQuestion \/ StoreReply \/ Fail
  \/ Complete \/ Fallback \/ StartStream
  \/ StreamNext \/ StreamEnds \/ Leave

Spec == Init /\ [][Next]_vars

-----------------------------------------------------------------------------
(* Properties                                                              *)

\* What is sent to the LLM is within both limits and never empty: the system
\* prompt leads it, whatever the conversation has grown to (clamp_prompt).
PromptFits ==
  phase = "complete" =>
    /\ prompt # <<>> /\ prompt[1].text = "system"
    /\ Total(prompt) <= MaxTotal
    /\ \A i \in DOMAIN prompt : prompt[i].len <= MaxInput

RoomForAll(messages) == Total(ShortenedAll(messages)) <= MaxTotal

\* The messages sent are the first of those collected, none is left out between
\* two others, and the question, which is the last of them, is sent exactly
\* when everything before it leaves room: a conversation that has outgrown
\* MaxTotal goes on without its questions.
QuestionSentWhileRoom ==
  context # <<>> =>
    /\ IsPrefix(prompt, ShortenedAll(context))
    /\ (Last(prompt).text = "question") <=> RoomForAll(context)

\* The fallback answers the question it was asked exactly when the prompt has room
\* for it and it does not begin like a line of metrics or of a log, and otherwise
\* something else: an earlier question, or a log.
FallbackAnswersQuestion ==
  [][phase = "complete" /\ replied' # replied =>
       ((replied' = "question") <=> RoomForAll(context) /\ ~Last(context).line)]_vars

\* Wherever the body is cut into chunks, the reply gathered is a beginning of
\* the tokens sent, except that a character cut in two is torn; the client
\* sees what is gathered; and unless the client leaves or the connection
\* fails, all of it is there when the reply is stored.
ReplyIsWhatWasSent ==
  /\ Len(content) <= Len(sent)
  /\ \A i \in DOMAIN content :
       content[i] = sent[i] \/ (content[i] = Torn /\ sent[i] = "w")
  /\ IsPrefix(shown, content)
  /\ phase = "reply" /\ ~gone /\ ~broken => Len(shown) = Len(sent)
=============================================================================
