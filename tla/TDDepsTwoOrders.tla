--------------------------- MODULE TDDepsTwoOrders ---------------------------
(***************************************************************************)
(* Two runs of pass 1 over the same grep output, each free to take the     *)
(* files and their includees in its own order.  The order is not chosen    *)
(* by tddeps.py: it follows os.listdir and the iteration order of the set  *)
(* args_left (line 307), so two checkouts of one tree can differ in it.    *)
(* Run B starts once run A is over.                                        *)
(***************************************************************************)
EXTENDS TDDepsClosure

VARIABLES depsB, xrefsB, curB, todoB, abortedB

B == INSTANCE TDDepsClosure
       WITH deps <- depsB, xrefs <- xrefsB, cur <- curB,
            todo <- todoB, aborted <- abortedB

varsA == <<deps, xrefs, cur, todo, aborted>>
varsB == <<depsB, xrefsB, curB, todoB, abortedB>>
allVars == <<tdFiles, includes, varsA, varsB>>

TwoInit == Init /\ B!Init

TwoNext ==
  \/ Next /\ UNCHANGED varsB
  \/ Done /\ B!Next /\ UNCHANGED varsA

TwoSpec == TwoInit /\ [][TwoNext]_allVars

\* Spec sections 3 and 8: every file has exactly one closure and the
\* generated fragment is the same on an unchanged tree, so two orders of
\* the same grep output give the same TDDEPS lists and the same groups.
SameClosures ==
  (Done /\ B!Done) =>
    /\ aborted = abortedB
    /\ ~aborted => deps = depsB
=============================================================================
