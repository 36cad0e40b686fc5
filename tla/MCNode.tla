------------------------------- MODULE MCNode -------------------------------
EXTENDS Node

\* The first version of the configuration has a mirror and an origin to look up, the second
\* the mirror only.
MCLookups == [v \in 1..MaxVersion |-> IF v = 1 THEN <<"mirror", "origin">> ELSE <<"mirror">>]
=============================================================================
