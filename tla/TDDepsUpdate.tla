----------------------------- MODULE TDDepsUpdate -----------------------------
(***************************************************************************)
(* The end of a run of tddeps.py with -i (lines 42-53 and 607-626): the    *)
(* fragment goes to <infile>.tmp, and when diff finds it different from    *)
(* the -i file, either the --action command runs (and its status is the    *)
(* exit status) or cp -u copies it over the -i file.  cp -u copies only    *)
(* when the .tmp file is newer than the -i file; with timestamps of one    *)
(* second, a -i file written in the current second is not replaced.  The   *)
(* clock is abstracted to whether the -i file was written in the current   *)
(* second.  The fragment is compared as a value (diff -b ignores spacing). *)
(***************************************************************************)
CONSTANT OldOutput  \* what the -i file holds before the first run

VARIABLES
  infile,      \* contents of the -i file
  sameSecond,  \* the -i file's mtime is in the current second
  withAction,  \* --action was given (line 26)
  acted        \* the last comparison ran the action

upVars == <<infile, sameSecond, withAction, acted>>

\* Line 616: diff exits non-zero when the files differ.
DiffersInverted(out) == infile = out
Differs(out) == infile # out

InitUpdate ==
  /\ infile = OldOutput
  /\ sameSecond \in BOOLEAN
  /\ withAction \in BOOLEAN
  /\ acted = FALSE

\* Lines 611-626 once the fragment out has been written and closed.
Update(out) ==
  \/ /\ ~Differs(out)
     /\ acted' = FALSE
     /\ UNCHANGED <<infile, sameSecond, withAction>>
  \/ /\ Differs(out) /\ withAction
     /\ acted' = TRUE
     /\ UNCHANGED <<infile, sameSecond, withAction>>
  \/ /\ Differs(out) /\ ~withAction
     /\ acted' = FALSE
     /\ IF sameSecond THEN UNCHANGED <<infile, sameSecond>>
        ELSE infile' = out /\ sameSecond' = TRUE
     /\ UNCHANGED withAction

\* The clock passes into the next second.
Tick ==
  /\ sameSecond
  /\ sameSecond' = FALSE
  /\ UNCHANGED <<infile, withAction, acted>>
=============================================================================
