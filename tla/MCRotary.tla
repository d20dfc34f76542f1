------------------------------ MODULE MCRotary ------------------------------
(* Constants for checking Rotary with TLC: two channels, the second without *)
(* a press pin.                                                             *)
EXTENDS Rotary

FirstHasPress == {1}
AtRest == {0}
MostOfFirst == <<3, 1>>
=============================================================================
