----------------------------- MODULE MCTwoFactor -----------------------------
(* Two requests that come again and again, one challenge and one backup     *)
(* code; one wrong guess is all a challenge allows, two lock the account    *)
(* for two ticks.                                                           *)
EXTENDS TwoFactor
=============================================================================
