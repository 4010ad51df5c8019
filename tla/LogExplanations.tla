-------------------------- MODULE LogExplanations ---------------------------
(***************************************************************************)
(* The explanations under the rows of the log panel (observa.js): a panel  *)
(* that is refreshed comes without them, so the script saves them under    *)
(* their messages in the browser's storage before and puts them back after.*)
(* The storage may be full or blocked, and how old an explanation is, is   *)
(* told from the browser's clock, which may be set.                        *)
(***************************************************************************)
EXTENDS Naturals

CONSTANTS
  Rows,      \* the messages of the log's rows
  KeepFor,   \* EXPLANATION_TTL_MS
  MaxClock   \* bound on the browser's clock

ASSUME LogExplanationsAssumption == KeepFor \in Nat /\ MaxClock \in Nat

VARIABLES
  rows,        \* the messages in the panel
  explained,   \* those with an explanation under them
  asking,      \* those with a request for one under way
  refreshing,  \* a refresh of the panel is under way
  storage,     \* the browser's storage: "works", "full" or "blocked"
  today,       \* Date.now()
  saved,       \* observa-log-explanations: when what is in it was saved
  away,        \* history: how long ago an explanation was last on a screen
  setBack      \* history: what was saved before the clock was last set back

explanationVars ==
  <<rows, explained, asking, refreshing, storage, today, saved, away, setBack>>
panelVars == <<rows, explained, asking>>
storeVars == <<storage, today, saved, setBack>>

Never == MaxClock + 1
\* An explanation that has not been on a screen for longer than it is kept.
Gone == KeepFor + 1

ExplanationsTypeOK ==
  /\ rows \subseteq Rows
  /\ explained \subseteq rows /\ asking \subseteq rows
  /\ refreshing \in BOOLEAN
  /\ storage \in {"works", "full", "blocked"}
  /\ today \in 0..MaxClock
  /\ saved \in [Rows -> 0..Never] /\ away \in [Rows -> 0..Gone]
  /\ setBack \subseteq Rows

ExplanationsInit ==
  /\ rows \in SUBSET Rows
  /\ explained = {} /\ asking = {}
  /\ refreshing = FALSE
  /\ storage = "works"
  /\ today = 0
  /\ saved = [m \in Rows |-> Never]
  /\ away = [m \in Rows |-> Gone]
  /\ setBack = {}

-----------------------------------------------------------------------------
(* The Explain button                                                      *)

AskWhy(m) ==
  /\ m \in rows \ asking
  /\ asking' = asking \cup {m}
  /\ UNCHANGED <<rows, explained, refreshing, away, storeVars>>

WhyAnswered(m) ==
  /\ m \in asking
  /\ asking' = asking \ {m}
  /\ explained' = explained \cup {m}
  /\ away' = [away EXCEPT ![m] = 0]
  /\ UNCHANGED <<rows, refreshing, storeVars>>

WhyFails(m) ==
  /\ m \in asking
  /\ asking' = asking \ {m}
  /\ UNCHANGED <<rows, explained, refreshing, away, storeVars>>

-----------------------------------------------------------------------------
(* The refreshes                                                           *)

\* What was saved after the clock's present time is not old either.
Old(time) == time + KeepFor < today

Kept(times) == [m \in Rows |-> IF Old(times[m]) THEN Never ELSE times[m]]

\* Mutant of SavedNow: what is in the storage is saved again with it.
SavedAllNow ==
  IF explained = {} \/ storage # "works" THEN saved
  ELSE [m \in Rows |-> IF m \in explained \/ saved[m] # Never THEN today ELSE saved[m]]

\* saveLogExplanations: what is on the screen is as good as new, and what has become
\* too old goes.  Without an explanation, or when the storage throws, nothing is done.
SavedNow ==
  IF explained = {} \/ storage # "works" THEN saved
  ELSE Kept([m \in Rows |-> IF m \in explained THEN today ELSE saved[m]])

\* The clock has not been set back since what is saved now.
Resaved == IF explained = {} \/ storage # "works" THEN setBack ELSE setBack \ explained

RefreshStarts ==
  /\ refreshing' = TRUE
  /\ saved' = SavedNow
  /\ setBack' = Resaved
  /\ UNCHANGED <<panelVars, storage, today, away>>

\* restoreLogExplanations: those that are not too old, unless the storage is blocked.
Restored(panel, times) ==
  IF storage = "blocked" THEN {} ELSE {m \in panel : times[m] # Never /\ ~Old(times[m])}

\* The panel is saved again before the swap, as an explanation may have come since,
\* and restored after; if any is, what is too old goes.  An answer for a row of before
\* finds its place gone.
Refreshed ==
  /\ refreshing
  /\ refreshing' = FALSE
  /\ rows' \in SUBSET Rows
  /\ explained' = Restored(rows', SavedNow)
  /\ saved' = IF explained' # {} /\ storage = "works" THEN Kept(SavedNow) ELSE SavedNow
  /\ setBack' = Resaved
  /\ asking' = {}
  /\ away' = [m \in Rows |-> IF m \in explained' THEN 0 ELSE away[m]]
  /\ UNCHANGED <<storage, today>>

\* An error is not swapped in.
RefreshFails ==
  /\ refreshing
  /\ refreshing' = FALSE
  /\ UNCHANGED <<panelVars, away, storeVars>>

\* The pager swaps a table inside the panel, and another page of the site brings a
\* panel of its own: nothing is saved or restored.
PageTurned ==
  /\ rows' \in SUBSET Rows
  /\ explained' = {} /\ asking' = {}
  /\ UNCHANGED <<refreshing, away, storeVars>>

\* Tabs share the storage.
SavedByATab(m) ==
  /\ storage = "works"
  /\ saved' = Kept([saved EXCEPT ![m] = today])
  /\ setBack' = setBack \ {m}
  /\ away' = [away EXCEPT ![m] = 0]
  /\ UNCHANGED <<panelVars, refreshing, storage, today>>

-----------------------------------------------------------------------------
(* The browser                                                             *)

\* The user fills or blocks the storage, or makes room in it.
StorageTurns ==
  /\ storage' \in {"works", "full", "blocked"} \ {storage}
  /\ UNCHANGED <<panelVars, refreshing, today, saved, away, setBack>>

MinutePasses ==
  /\ today < MaxClock
  /\ today' = today + 1
  /\ away' = [m \in Rows |-> IF m \in explained THEN 0
                             ELSE IF away[m] = Gone THEN Gone ELSE away[m] + 1]
  /\ UNCHANGED <<panelVars, refreshing, storage, saved, setBack>>

\* The clock is set, forward or back.
ClockSetTo(time) ==
  /\ today' = time
  /\ setBack' = IF time < today THEN Rows ELSE setBack
  /\ UNCHANGED <<panelVars, refreshing, storage, saved, away>>

ExplanationsNext ==
  \/ \E m \in Rows : AskWhy(m) \/ WhyAnswered(m) \/ WhyFails(m) \/ SavedByATab(m)
  \/ RefreshStarts \/ Refreshed \/ RefreshFails \/ PageTurned
  \/ StorageTurns \/ MinutePasses
  \/ \E time \in 0..MaxClock : ClockSetTo(time)

ExplanationsSpec == ExplanationsInit /\ [][ExplanationsNext]_explanationVars

-----------------------------------------------------------------------------
(* Properties                                                              *)

\* A refresh takes no explanation from a row that stays, however long it has been there,
\* even if it came while the refresh was under way and wherever the clock has been set,
\* as long as the storage works; and none comes back that has not been on a screen of
\* the browser for longer than it is kept, unless the clock has been set back since it
\* was saved.
ExplanationsStay ==
  [][/\ refreshing /\ ~refreshing' /\ storage = "works" => explained \cap rows' \subseteq explained'
     /\ \A m \in explained' \ explained : m \in asking \/ away[m] <= KeepFor \/ m \in setBack
    ]_explanationVars
=============================================================================
