---------------------------- MODULE MCRateLimits ----------------------------
(***************************************************************************)
(* Values of the constants of RateLimits for TLC.                          *)
(***************************************************************************)
EXTENDS RateLimits

CONSTANTS c1, c2

\* Two callers compete for Gemini; each also calls an API of its own.
MCUses == [c \in Caller |-> {"gemini", IF c = c1 THEN "yahoo" ELSE "tradingview"}]
=============================================================================
