---------------------------- MODULE TDDepsClosure ----------------------------
(***************************************************************************)
(* Pass 1 of llvm/utils/tddeps/tddeps.py: the online closure engine.       *)
(*                                                                         *)
(* Files come out of the grep pipeline one at a time, in an order fixed by *)
(* directory listing order and by set iteration order, so the model lets   *)
(* any unprocessed file come next.  For each file the handler              *)
(*   - creates deps[filepath] = set()                     (Begin)          *)
(*   - walks its includees in set order                                    *)
(*       already in deps  -> merge their deps             (IncludeMerge)   *)
(*       otherwise        -> add the includee itself and  (IncludeProv.)   *)
(*                           register a back-reference                     *)
(*   - asserts it is not in its own deps and pushes its deps into every    *)
(*     file that registered a back-reference to it        (Finish/Abort)   *)
(* The resolution of an include string (lines 402-417) is abstracted: the  *)
(* grep result is given directly as the set of nodes each file includes.   *)
(***************************************************************************)
EXTENDS FiniteSets, TLC

CONSTANTS
  Scanned,        \* files grepped in pass 1 (all_files outside excluded dirs)
  TDChoices,      \* candidate sets of scanned files whose suffix is .td
  Templates,      \* *.h.in headers under an include dir: deps[f] = frozenset() at walk
  Placeholders,   \* include strings that resolve to no known file
  IncludeGraphs,  \* candidate grep outputs: [Scanned -> SUBSET Nodes]
  NoFile

ASSUME \A s \in TDChoices : s \subseteq Scanned
ASSUME Scanned \cap (Templates \cup Placeholders) = {}
ASSUME Templates \cap Placeholders = {}

Nodes == Scanned \cup Templates \cup Placeholders

ASSUME \A g \in IncludeGraphs : g \in [Scanned -> SUBSET Nodes]

VARIABLES
  tdFiles,    \* the scanned files whose suffix is .td
  includes,   \* the grep result: includees of each scanned file
  deps,       \* the dict deps: a function whose domain grows
  xrefs,      \* the dict xrefs; a missing key is the empty set
  cur,        \* the file pass 1 is processing, or NoFile between files
  todo,       \* includees of cur not yet visited by the inner loop
  aborted     \* an assert of lines 445-456 failed and the run stopped

vars == <<tdFiles, includes, deps, xrefs, cur, todo, aborted>>

\* isTD at lines 393-394.
IsTD(f) == f \in tdFiles

(***************************************************************************)
(* Reachability over a successor operator, by growing a frontier.          *)
(***************************************************************************)
RECURSIVE Grow(_, _, _)
Grow(Succ(_), frontier, seen) ==
  IF frontier = {} THEN seen
  ELSE LET next == UNION {Succ(n) : n \in frontier} \ seen
       IN  Grow(Succ, next, seen \cup next)

ReachVia(Succ(_), f) == Grow(Succ, Succ(f), Succ(f))

\* Edges pass 1 has seen: the includees of the files it has finished.
KnownSucc(n) == IF n \in Scanned /\ n \in DOMAIN deps /\ n # cur
                THEN includes[n] ELSE {}
KnownReach(f) == ReachVia(KnownSucc, f)


-----------------------------------------------------------------------------
\* Lines 381-382 and 139: deps starts with the template headers, each with an
\* empty closure; xrefs starts empty.  The grep output is any candidate graph.
Init ==
  /\ tdFiles \in TDChoices
  /\ includes \in IncludeGraphs
  /\ deps = [t \in Templates |-> {}]
  /\ xrefs = [n \in Nodes |-> {}]
  /\ cur = NoFile
  /\ todo = {}
  /\ aborted = FALSE

\* Lines 387-399: the next (filepath, includees) pair from xgrep; the
\* assert at 398 holds since every scanned file comes out of grep once.
Begin(f) ==
  /\ ~aborted
  /\ cur = NoFile
  /\ f \in Scanned \ DOMAIN deps
  /\ deps' = deps @@ (f :> {})
  /\ cur' = f
  /\ todo' = includes[f]
  /\ UNCHANGED <<tdFiles, includes, xrefs, aborted>>

\* Lines 426-430: the includee's deps merged into cur's; a .td file keeps
\* the includee itself, any other file drops itself.
MergedDepsKeepSelf(inc) == deps[cur] \cup deps[inc]
MergedDepsAddSelf(inc) ==
  IF IsTD(cur) THEN deps[cur] \cup deps[inc] \cup {cur}
  ELSE (deps[cur] \cup deps[inc]) \ {cur}
MergedDeps(inc) ==
  IF IsTD(cur) THEN deps[cur] \cup deps[inc] \cup {inc}
  ELSE (deps[cur] \cup deps[inc]) \ {cur}

\* Lines 420-422 and 431-432: the nodes cur registers with as a dependent,
\* the includee and every member of its deps.  Line 431 reads deps[inc]
\* after the merge, which matters when inc = cur.
MergeRefTargetsIncOnly(inc, d) == {inc}
MergeRefTargets(inc, d) == {inc} \cup d[inc]

\* Lines 418-432: the includee has been processed (or is a template).
IncludeMerge(inc) ==
  LET deps1 == [deps EXCEPT ![cur] = MergedDeps(inc)]
  IN  /\ cur # NoFile
      /\ inc \in todo
      /\ inc \in DOMAIN deps
      /\ deps' = deps1
      /\ xrefs' = [n \in Nodes |->
                     IF n \in MergeRefTargets(inc, deps1)
                     THEN xrefs[n] \cup {cur} ELSE xrefs[n]]
      /\ todo' = todo \ {inc}
      /\ UNCHANGED <<tdFiles, includes, cur, aborted>>

\* Lines 433-442 with the xrefs key and value swapped.
IncludeProvisionalSwapped(inc) ==
  /\ cur # NoFile
  /\ inc \in todo
  /\ inc \notin DOMAIN deps
  /\ deps' = [deps EXCEPT ![cur] = @ \cup {inc}]
  /\ xrefs' = [xrefs EXCEPT ![cur] = @ \cup {inc}]
  /\ todo' = todo \ {inc}
  /\ UNCHANGED <<tdFiles, includes, cur, aborted>>

\* Lines 433-442: the includee is not yet processed, or is an unresolved
\* name: add it provisionally and register cur as its back-reference.
IncludeProvisional(inc) ==
  /\ cur # NoFile
  /\ inc \in todo
  /\ inc \notin DOMAIN deps
  /\ deps' = [deps EXCEPT ![cur] = @ \cup {inc}]
  /\ xrefs' = [xrefs EXCEPT ![inc] = @ \cup {cur}]
  /\ todo' = todo \ {inc}
  /\ UNCHANGED <<tdFiles, includes, cur, aborted>>

\* The files that registered a back-reference to cur (line 450 skips cur).
Dependents == xrefs[cur] \ {cur}

\* The asserts at lines 445, 452 and 456.
AssertsHold ==
  /\ cur \notin deps[cur]
  /\ \A xf \in Dependents : xf \in DOMAIN deps /\ cur \in deps[xf]

\* Lines 444-456: an assert fails and the script dies.
Abort ==
  /\ cur # NoFile
  /\ todo = {}
  /\ ~AssertsHold
  /\ aborted' = TRUE
  /\ UNCHANGED <<tdFiles, includes, deps, xrefs, cur, todo>>

\* Lines 457-458: what a dependent loses once cur is resolved: cur itself,
\* unless cur is a .td file.
DropOnResolveNever == {}
DropOnResolveAlways == {cur}
DropOnResolve == IF IsTD(cur) THEN {} ELSE {cur}

\* Lines 454-455: every member of deps[cur] learns the dependents of cur.
ForwardTargetsNone == {}
ForwardTargets == deps[cur]

\* Lines 444-458: resolve the back-references of cur.  Every dependent gets
\* deps[cur] and loses DropOnResolve; the members of deps[cur] register the
\* dependents.
Finish ==
  /\ cur # NoFile
  /\ todo = {}
  /\ AssertsHold
  /\ deps' = [n \in DOMAIN deps |->
                IF n \in Dependents THEN (deps[n] \cup deps[cur]) \ DropOnResolve
                ELSE deps[n]]
  /\ xrefs' = [n \in Nodes |->
                 IF n \in ForwardTargets THEN xrefs[n] \cup Dependents
                 ELSE xrefs[n]]
  /\ cur' = NoFile
  /\ UNCHANGED <<tdFiles, includes, todo, aborted>>

Next ==
  \/ \E f \in Scanned : Begin(f)
  \/ \E inc \in Nodes : IncludeMerge(inc)
  \/ \E inc \in Nodes : IncludeProvisional(inc)
  \/ Abort
  \/ Finish

Spec == Init /\ [][Next]_vars

\* Pass 1 is over: every scanned file processed, or the script died.
Done == aborted \/ (cur = NoFile /\ Scanned \subseteq DOMAIN deps)

-----------------------------------------------------------------------------
TypeOK ==
  /\ tdFiles \subseteq Scanned
  /\ includes \in [Scanned -> SUBSET Nodes]
  /\ DOMAIN deps \subseteq Scanned \cup Templates
  /\ \A f \in DOMAIN deps : deps[f] \subseteq Nodes
  /\ xrefs \in [Nodes -> SUBSET Scanned]
  /\ cur \in Scanned \cup {NoFile}
  /\ todo \subseteq Nodes
  /\ aborted \in BOOLEAN

\* Lines 445 and 456: for a tree of .h/.cpp files, whatever its include
\* cycles and whatever order grep reports the files in, no assert of the
\* back-reference resolution ever fires.
NoAbort == tdFiles = {} => ~aborted

\* The closure pass keeps, for every processed file, exactly its frontier:
\* the not-yet-processed files and unresolved names reachable through the
\* edges seen so far.  This holds between any two files of pass 1, for
\* cycles and any processing order, and at the end it is the set the
\* grouping of lines 484-489 partitions sources by.  (Non-.td trees.)
FrontierExact ==
  (tdFiles = {} /\ cur = NoFile) =>
    \A f \in DOMAIN deps \cap Scanned :
      deps[f] = {n \in KnownReach(f) : n \notin DOMAIN deps}

\* The back-reference map is exact for pending nodes: a node not yet
\* processed is registered with precisely the processed files that hold it
\* provisionally, so the fix-up of lines 449-458 reaches all of them and
\* the assert of line 456 holds.
BackRefsExact ==
  cur = NoFile =>
    \A n \in Nodes \ DOMAIN deps :
      xrefs[n] = {f \in DOMAIN deps : n \in deps[f]}

-----------------------------------------------------------------------------
\* Refinement mapping: a file counts as done once its Finish has run; the
\* steps of lines 400-443 on the current file are stuttering steps of the
\* abstract pass, since they touch only the current file's deps.
Pass1 == INSTANCE TDDepsPass1 WITH
  done    <- (DOMAIN deps \cap Scanned) \ {cur},
  closure <- [f \in (DOMAIN deps \cap Scanned) \ {cur} |-> deps[f]],
  halted  <- aborted

\* Pass 1 of lines 381-458, with its per-include merges, provisional entries
\* and back-reference fix-ups, implements the atomic file-at-a-time pass of
\* TDDepsPass1 on uniform trees: after each file every finished file holds
\* its frontier (headers) or its reach (.td), in any grep order, and the
\* run stops exactly when a .td file reaches itself.
ImplementsPass1 == Pass1!Spec
=============================================================================
