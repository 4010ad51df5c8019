---------------------------- MODULE MCAlertFeed -----------------------------
(* AlertFeed with three alerts, of which a round reads at most two, with and *)
(* without the notification loop.                                            *)
EXTENDS AlertFeed

MCNotifications == BOOLEAN
=============================================================================
