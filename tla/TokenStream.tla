---------------------------- MODULE TokenStream -----------------------------
(***************************************************************************)
(* TokenStream (observa-llm/src/stream.rs): the body of a streaming        *)
(* response comes in chunks cut anywhere, and goes on as tokens, one for   *)
(* each line that holds one.                                               *)
(*                                                                         *)
(* A line is one event of the LLM and is abstracted to two bytes or one:   *)
(* "a" and "b" are ordinary tokens, "w" a token that is one character of   *)
(* two bytes, "s" a line without a token ([DONE], an empty line or delta)  *)
(* and "x" a line that is no event.  "?" is U+FFFD, which                  *)
(* String::from_utf8_lossy() puts for half a character.                    *)
(***************************************************************************)
EXTENDS Naturals, Sequences, SequencesExt

VARIABLES
  wire,     \* the bytes still to come
  buffer,   \* decoded and not yet taken as a line
  broken    \* the transport has failed

streamVars == <<wire, buffer, broken>>

Newline == "nl"
TokenLines == [a |-> <<"a1", "a2">>, b |-> <<"b1", "b2">>, w |-> <<"w1", "w2">>]
Tokens == DOMAIN TokenLines
Lines == {TokenLines[t] : t \in Tokens} \cup {<<"s">>, <<"x">>}

\* What poll_next() may return; "nothing" if it goes round its loop again.
Torn == "torn"
Items == Tokens \cup {Torn, "error", "nothing"}

\* The body of a response with these lines; the last may lack its newline.
Body(lines, closed) ==
  LET all == FlattenSeq([i \in DOMAIN lines |-> Append(lines[i], Newline)])
  IN  IF closed \/ lines = <<>> THEN all ELSE Front(all)

\* from_utf8_lossy(), one chunk at a time.
Decode(chunk) ==
  [i \in DOMAIN chunk |->
     CASE chunk[i] = "w1" /\ (i = Len(chunk) \/ chunk[i + 1] # "w2") -> "?"
       [] chunk[i] = "w2" /\ (i = 1 \/ chunk[i - 1] # "w1")          -> "?"
       [] OTHER                                                     -> chunk[i]]

HasToken(line) == \E t \in Tokens : TokenLines[t] = line
TokenIn(line) == CHOOSE t \in Tokens : TokenLines[t] = line

\* parse_stream_line().  A replacement character is as good as any inside the
\* JSON of an event; a part of an event is an error.
Parse(line) ==
  CASE line \in {<<>>, <<"s">>} -> "nothing"
    [] line = <<"?", "?">>      -> Torn
    [] HasToken(line)           -> TokenIn(line)
    [] OTHER                    -> "error"

\* The tokens a body with these lines holds.
TokensOf(lines) ==
  LET tokens[k \in 0..Len(lines)] ==
        IF k = 0 THEN <<>>
        ELSE IF HasToken(lines[k]) THEN Append(tokens[k - 1], TokenIn(lines[k]))
        ELSE tokens[k - 1]
  IN  tokens[Len(lines)]

HasLine == Contains(buffer, Newline)
LineEnd == SelectInSeq(buffer, LAMBDA c : c = Newline)
StreamOver == buffer = <<>> /\ wire = <<>>

-----------------------------------------------------------------------------
(* poll_next()                                                             *)

Line(item) ==
  /\ HasLine
  /\ item = Parse(SubSeq(buffer, 1, LineEnd - 1))
  /\ buffer' = SubSeq(buffer, LineEnd + 1, Len(buffer))
  /\ UNCHANGED <<wire, broken>>

\* Mutant: each chunk is taken for whole lines.
ChunkReplaces(item) ==
  /\ ~HasLine
  /\ item = "nothing"
  /\ \E n \in 1..Len(wire) :
       /\ buffer' = Decode(SubSeq(wire, 1, n))
       /\ wire' = SubSeq(wire, n + 1, Len(wire))
  /\ UNCHANGED broken

Chunk(item) ==
  /\ ~HasLine
  /\ item = "nothing"
  /\ \E n \in 1..Len(wire) :
       /\ buffer' = buffer \o Decode(SubSeq(wire, 1, n))
       /\ wire' = SubSeq(wire, n + 1, Len(wire))
  /\ UNCHANGED broken

\* The connection fails: an error, and behind it the stream is at its end.
Break(item) ==
  /\ ~HasLine
  /\ wire # <<>>
  /\ item = "error"
  /\ wire' = <<>>
  /\ broken' = TRUE
  /\ UNCHANGED buffer

\* The end of the body: what is left counts as a line.
Rest(item) ==
  /\ ~HasLine
  /\ wire = <<>> /\ buffer # <<>>
  /\ item = Parse(buffer)
  /\ buffer' = <<>>
  /\ UNCHANGED <<wire, broken>>

Poll(item) == Line(item) \/ Chunk(item) \/ Break(item) \/ Rest(item)
=============================================================================
