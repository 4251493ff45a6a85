---------------------------- MODULE MCCommandLines ----------------------------
(***************************************************************************)
(* Two things a text may say, every flaw alone and the pairs in which the  *)
(* one that comes first matters.                                           *)
(***************************************************************************)
EXTENDS CommandLines

MCFlawSets ==
    {{}} \cup {{f} : f \in Flaws}
    \cup {{"ENCODING", "DEPTH"}, {"DUPLICATE", "DEPTH"}, {"SURROGATE", "SCHEMA"}}
MCNonfinite == {{}, {"NONFINITE"}}
MCAdmissible == {<<"good", "good">>}
===============================================================================
