------------------------------- MODULE MCChat --------------------------------
(* Chat with two requests and the tokens of two browsers.                   *)
EXTENDS Chat

CONSTANTS r1, r2, alice, bob

MCRequests == {r1, r2}
MCTokens == {alice, bob}
=============================================================================
