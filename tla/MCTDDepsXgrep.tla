---------------------------- MODULE MCTDDepsXgrep ----------------------------
(***************************************************************************)
(* Six files in three batches, two grep jobs alive at a time (so the pool  *)
(* fills, drains while full and drains the remainder), two include         *)
(* strings, and every choice of what each file includes.  Pass 0 reads    *)
(* four CMakeLists.txt files in two batches, each with no add_* line, one  *)
(* (library, target, or marked with TDDEPS: exclude) or two.               *)
(***************************************************************************)
EXTENDS TDDepsXgrep

CONSTANTS f1, f2, f3, f4, f5, f6, i1, i2, k1, k2, k3, k4, nA, nB

\* Batches of two files each, as xargs cuts a long file list.
MCBatches == <<<<f1, f2>>, <<f3, f4>>, <<f5, f6>>>>
\* The last batch holds one file: xargs flushed just before it.
MCBatchesLone == <<<<f1, f2>>, <<f3, f4>>, <<f5>>>>
MCIncs == {i1, i2}
MCIncludeChoices == [Files -> SUBSET MCIncs]

MCCmakeBatches == <<<<k1, k2>>, <<k3, k4>>>>
Lib(n) == [cmd |-> "library", name |-> n, marked |-> FALSE]
Tgt(n) == [cmd |-> "target", name |-> n, marked |-> FALSE]
Marked(n) == [cmd |-> "library", name |-> n, marked |-> TRUE]
\* add_* lines of one CMakeLists.txt, as grep selects them in file order.
MCCmakeLines == {<<>>, <<Lib(nA)>>, <<Tgt(nA)>>, <<Marked(nA)>>,
                 <<Lib(nA), Lib(nB)>>, <<Marked(nA), Lib(nB)>>}
MCCmakeChoices == [CmakeFiles -> MCCmakeLines]
=============================================================================
