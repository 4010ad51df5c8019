----------------------------- MODULE MCHandlers -----------------------------
(* What the handlers do for a user: a conversation of two turns, with the    *)
(* limits in the order of the code's, the chat pages of a browser with two   *)
(* tabs, the dashboard's API, and what the script in the browser makes of    *)
(* the alerts and explanations it gets, and the answers of the fallback.     *)
(* They share no variable: part says which of them a behaviour is about.     *)
EXTENDS Conversation, ChatPages, DashboardApi, AlertToasts, LogExplanations,
        FallbackAnswers, TLC

VARIABLE part

allVars == <<vars, chatPagesVars, apiVars, toastVars, explanationVars, fallbackVars,
             part>>

MCInit ==
  /\ Init /\ ChatPagesInit /\ ApiInit /\ ToastsInit /\ ExplanationsInit
  /\ FallbackInit
  /\ part \in {"conversation", "pages", "api", "toasts", "rows", "fallback"}
  /\ part # "pages" => hasDatabase /\ locked
  /\ part # "rows" => rows = {}

ConversationMoves ==
  /\ part = "conversation" /\ Next
  /\ UNCHANGED <<chatPagesVars, apiVars, toastVars, explanationVars, fallbackVars, part>>
PagesMove ==
  /\ part = "pages" /\ ChatPagesNext
  /\ UNCHANGED <<vars, apiVars, toastVars, explanationVars, fallbackVars, part>>
ApiMoves ==
  /\ part = "api" /\ ApiNext
  /\ UNCHANGED <<vars, chatPagesVars, toastVars, explanationVars, fallbackVars, part>>
ToastsMove ==
  /\ part = "toasts" /\ ToastsNext
  /\ UNCHANGED <<vars, chatPagesVars, apiVars, explanationVars, fallbackVars, part>>
RowsMove ==
  /\ part = "rows" /\ ExplanationsNext
  /\ UNCHANGED <<vars, chatPagesVars, apiVars, toastVars, fallbackVars, part>>
FallbackMoves ==
  /\ part = "fallback" /\ FallbackNext
  /\ UNCHANGED <<vars, chatPagesVars, apiVars, toastVars, explanationVars, part>>

MCNext ==
  \/ ConversationMoves \/ PagesMove \/ ApiMoves \/ ToastsMove \/ RowsMove
  \/ FallbackMoves

MCSpec == MCInit /\ [][MCNext]_allVars
=============================================================================
