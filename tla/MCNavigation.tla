---------------------------- MODULE MCNavigation -----------------------------
(****************************************************************************)
(* Two places to go to, which nothing but their order tells apart, and one  *)
(* exploration.                                                             *)
(****************************************************************************)
EXTENDS Navigation, TLC

CONSTANTS kitchen, hall, around

MCGoTos    == {kitchen, hall}
MCOne      == {kitchen}
MCExplores == {around}
MCNone     == {}
MCAlike    == Permutations(MCGoTos)
=============================================================================
