----------------------------- MODULE TDDepsPass1 -----------------------------
(***************************************************************************)
(* What pass 1 of tddeps.py (lines 381-458) promises for a uniform tree,   *)
(* all .h/.cpp or all .td: it takes the scanned files one at a time, in    *)
(* any order, and after each file every processed file's deps is a         *)
(* function of the edges seen so far.  For headers it is the frontier:     *)
(* the unprocessed files and unresolved names reachable through processed  *)
(* files.  For .td files it is everything so reachable, and the run stops  *)
(* when a file reaches itself.  TDDepsClosure implements this              *)
(* specification under the refinement mapping of MCTDDepsClosure.          *)
(***************************************************************************)
CONSTANTS Scanned, TDChoices, Templates, Placeholders, IncludeGraphs

Nodes == Scanned \cup Templates \cup Placeholders

VARIABLES
  tdFiles,   \* the scanned files whose suffix is .td
  includes,  \* the grep result
  done,      \* the scanned files pass 1 has finished
  closure,   \* [done -> SUBSET Nodes]: their deps
  halted     \* an assert has stopped the run

vars == <<tdFiles, includes, done, closure, halted>>

\* Reachability through the edges of the files in d.
RECURSIVE Spread(_, _, _)
Spread(d, frontier, seen) ==
  IF frontier = {} THEN seen
  ELSE LET step == UNION {includes[n] : n \in frontier \cap d} \ seen
       IN  Spread(d, step, seen \cup step)

Reached(d, f) == Spread(d, {f}, {}) \* includes f only through a cycle

\* The deps a finished file holds once the files d are finished.
DepsAfter(d, f) ==
  IF tdFiles = {} THEN Reached(d, f) \ (d \cup Templates)
  ELSE Reached(d, f)

Init ==
  /\ tdFiles \in TDChoices
  /\ includes \in IncludeGraphs
  /\ done = {}
  /\ closure = [f \in {} |-> {}]
  /\ halted = FALSE

\* One file of pass 1, atomically: every finished file's deps is recomputed
\* over the edges seen, the new file's included.
Process(f) ==
  LET d == done \cup {f}
  IN  /\ ~halted
      /\ f \in Scanned \ done
      /\ ~(tdFiles # {} /\ f \in Reached(d, f))
      /\ done' = d
      /\ closure' = [g \in d |-> DepsAfter(d, g)]
      /\ UNCHANGED <<tdFiles, includes, halted>>

\* A .td file that reaches itself puts itself in its deps: the run stops.
Halt(f) ==
  /\ ~halted
  /\ f \in Scanned \ done
  /\ tdFiles # {}
  /\ f \in Reached(done \cup {f}, f)
  /\ halted' = TRUE
  /\ UNCHANGED <<tdFiles, includes, done, closure>>

Next == \E f \in Scanned : Process(f) \/ Halt(f)

Spec == Init /\ [][Next]_vars
=============================================================================
