------------------------------- MODULE MCGpt -------------------------------
(* Model checking of Gpt.                                                   *)
EXTENDS Gpt

\* The properties say nothing about a label that is at risk for good, and what
\* becomes of it is not explored.
Explored == risk # "label"
=============================================================================
