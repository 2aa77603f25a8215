----------------------------- MODULE TDDepsTdLists -----------------------------
(***************************************************************************)
(* The "Dependencies of *.td" section of tddeps.py (lines 460-473), run    *)
(* after pass 1.  For every key of deps naming a .td file it discards the  *)
(* file from its own deps and writes set(TDDEPS_<basename> file deps...),  *)
(* which TableGen.cmake reads.  The loop runs on the main thread with      *)
(* nothing in between, so it is one step.  A CMake set() of a name already *)
(* set replaces it; the model keeps the value CMake ends up with.          *)
(***************************************************************************)
EXTENDS TDDepsClosure
LOCAL INSTANCE SequencesExt

CONSTANT TdBase  \* [Scanned -> names]: get_name(basename) of line 467

VARIABLES
  listed,  \* the TD lists have been written
  tdEnv    \* CMake variables TDDEPS_<name> -> [self, rest]

listVars == <<listed, tdEnv>>
runVars == <<vars, listVars>>

\* Pass 1 has ended without an assert failing (line 458 reached for every
\* file); the loop of line 463 starts only then.
PassOverEarly == ~aborted /\ cur = NoFile
PassOver == ~aborted /\ cur = NoFile /\ Scanned \subseteq DOMAIN deps

\* Lines 462-473: every .td key of deps in sorted() order; its deps lose
\* the key itself (line 470) and the list is the key, then the rest.  The
\* order only matters to the last-wins of two keys with one basename, so
\* any order stands for the sorted one.
EmitTdLists ==
  LET keys == tdFiles \cap DOMAIN deps
      Write(e, k) == (TdBase[k] :> [self |-> k, rest |-> deps[k] \ {k}]) @@ e
  IN  /\ PassOver
      /\ ~listed
      /\ \E order \in SetToSeqs(keys) : tdEnv' = FoldLeft(Write, tdEnv, order)
      /\ deps' = [n \in DOMAIN deps |-> IF n \in keys THEN deps[n] \ {n}
                                        ELSE deps[n]]
      /\ listed' = TRUE
      /\ UNCHANGED <<tdFiles, includes, xrefs, cur, todo, aborted>>

RunInit == Init /\ listed = FALSE /\ tdEnv = <<>>

RunNext ==
  \/ Next /\ UNCHANGED listVars
  \/ EmitTdLists

RunSpec == RunInit /\ [][RunNext]_runVars

-----------------------------------------------------------------------------
\* Every include edge grep reported, whether pass 1 has seen it or not.
GrepSucc(n) == IF n \in Scanned THEN includes[n] ELSE {}

\* What TableGen.cmake reads once the lists are written: TDDEPS_<name> of
\* each .td file lists the file first and then every file and unresolved
\* name it reaches through the include graph, whatever order grep gave the
\* files in, so a regeneration is triggered by any file it depends on.
TdListsReach ==
  listed =>
    \A k \in tdFiles :
      /\ TdBase[k] \in DOMAIN tdEnv
      /\ tdEnv[TdBase[k]] = [self |-> k, rest |-> ReachVia(GrepSucc, k)]
=============================================================================
