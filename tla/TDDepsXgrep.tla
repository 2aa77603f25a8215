----------------------------- MODULE TDDepsXgrep -----------------------------
(***************************************************************************)
(* The grep pipelines of tddeps.py.  xgrep_subprocess starts one grep per  *)
(* batch from xargs; xgrep (lines 313-327) and xgrep_cmake (354-368) keep  *)
(* at most NJobs of them alive and drain the oldest.                       *)
(*   pass 1: xgrep_process (281-311) parses "path:line:text" include       *)
(*     lines, yields (file, includees) whenever the path changes, then     *)
(*     every argument grep printed nothing for with an empty set;          *)
(*   pass 0: xgrep_cmake_process (331-352) reads the add_* lines of the    *)
(*     CMakeLists.txt files, notes the "# TDDEPS: exclude" marker and      *)
(*     yields (file, target name), which the loop of 374-379 registers.    *)
(* Both assert that grep exited 0.  Init picks the pass: the two use the   *)
(* same pool over different batches and share nothing but the code.       *)
(*                                                                         *)
(* grep is modelled by what it prints: the lines its pattern selects, file *)
(* by file in argument order, prefixed by the file name only when it was   *)
(* given more than one file; exit status 0 if it printed a line, else 1.   *)
(* The processes run concurrently but only talk through their pipes, which *)
(* the single main thread reads one job at a time.                         *)
(***************************************************************************)
EXTENDS Naturals, Sequences, SequencesExt, FiniteSets

CONSTANTS
  Batches,         \* pass 1: the (cwd, args) batches of xargs over all_files
  Incs,            \* include strings
  IncludeChoices,  \* possible contents: [Files -> SUBSET Incs]
  CmakeBatches,    \* pass 0: the batches of CMakeLists.txt paths walk yields
  CmakeChoices,    \* possible add_* lines grep selects: [CmakeFiles -> Seq]
  NJobs,           \* njobs (8 in the code)
  NoPrefix         \* the file field of a line grep printed without one

Files == UNION {ToSet(Batches[i]) : i \in DOMAIN Batches}
CmakeFiles == UNION {ToSet(CmakeBatches[i]) : i \in DOMAIN CmakeBatches}

ASSUME NJobs \in Nat \ {0}
ASSUME \A c \in IncludeChoices : c \in [Files -> SUBSET Incs]

VARIABLES
  pass,       \* 0 or 1: which pipeline runs
  includes,   \* what each file really includes
  cmake,      \* the add_* lines of each CMakeLists.txt: [cmd, name, marked]
  next,       \* index of the next batch xgrep_gen will start
  jobs,       \* started greps not yet drained, oldest first
  cur,        \* the batch being read, 0 if none
  lines,      \* output of cur's grep not yet read
  filepath,   \* file of the last line handled (NoPrefix = None)
  includees,  \* pass 1: includees collected for filepath
  argsLeft,   \* pass 1: arguments of cur no line has named yet
  phase,      \* "idle", "lines", "nohit" of the process function
  reported,   \* pass 1: (file, includees) pairs yielded, in order
  names,      \* pass 0: cmake_target_names
  excluded,   \* pass 0: excluded_dir (a CMakeLists.txt stands for its dir)
  failure     \* "none", or the assert that ended the run: "status" for
              \* r == 0 (311, 352), "duplicate" for 347 and 378

vars == <<pass, includes, cmake, next, jobs, cur, lines, filepath, includees,
          argsLeft, phase, reported, names, excluded, failure>>

aborted == failure # "none"

\* Lines 374 and 387: the batches of the pass, walk's CMakeLists.txt paths
\* for pass 0 and all_files for pass 1.
PassBatches == IF pass = 0 THEN CmakeBatches ELSE Batches
NB == Len(PassBatches)

\* What grep's pattern (lines 315, 356) selects in a file.
Content(f) == IF pass = 0 THEN cmake[f] ELSE SetToSeq(includes[f])

\* What grep -n prints for a batch: per file in argument order, its selected
\* lines; the file name is printed only for more than one file argument.
GrepOutput(b) ==
  LET args == PassBatches[b]
      tag(f) == IF Len(args) > 1 THEN f ELSE NoPrefix
      perFile(i) == LET s == Content(args[i])
                    IN [j \in DOMAIN s |-> [file |-> tag(args[i]), text |-> s[j]]]
  IN  FlattenSeq([i \in DOMAIN args |-> perFile(i)])

\* grep's exit status: 0 when a line was selected, 1 when none was.
GrepStatus(b) == IF \E i \in DOMAIN PassBatches[b] : Content(PassBatches[b][i]) # <<>>
                 THEN 0 ELSE 1

Init ==
  /\ pass \in {0, 1}
  /\ includes \in IF pass = 1 THEN IncludeChoices ELSE {[f \in Files |-> {}]}
  /\ cmake \in IF pass = 0 THEN CmakeChoices ELSE {[f \in CmakeFiles |-> <<>>]}
  /\ next = 1
  /\ jobs = <<>>
  /\ cur = 0
  /\ lines = <<>>
  /\ filepath = NoPrefix
  /\ includees = {}
  /\ argsLeft = {}
  /\ phase = "idle"
  /\ reported = <<>>
  /\ names = [f \in {} |-> f]
  /\ excluded = {}
  /\ failure = "none"

\* Lines 318 and 359 with <= in place of <.
PoolHasRoomOffByOne == Len(jobs) <= NJobs
\* Lines 318 and 359: fewer than njobs greps are alive.
PoolHasRoom == Len(jobs) < NJobs

\* Lines 318-320 and 359-361 (with 268-279): start grep on the next batch.
Launch ==
  /\ ~aborted
  /\ phase = "idle"
  /\ PoolHasRoom
  /\ next <= NB
  /\ jobs' = Append(jobs, next)
  /\ next' = next + 1
  /\ UNCHANGED <<pass, includes, cmake, cur, lines, filepath, includees,
                 argsLeft, phase, reported, names, excluded, failure>>

\* When the pool drains: it is full (lines 321-322, 362-363), or xgrep_gen
\* is exhausted and the remaining jobs are drained in order (324-326,
\* 365-367).
DrainGuardFullOnly == Len(jobs) = NJobs
DrainGuard == Len(jobs) = NJobs \/ (next > NB /\ jobs # <<>>)

\* Lines 321-326 with 283-286, and 362-367 with 334-335: pop the oldest job.
Drain ==
  /\ ~aborted
  /\ phase = "idle"
  /\ DrainGuard
  /\ cur' = Head(jobs)
  /\ jobs' = Tail(jobs)
  /\ lines' = GrepOutput(Head(jobs))
  /\ filepath' = NoPrefix
  /\ includees' = {}
  /\ argsLeft' = IF pass = 1 THEN ToSet(Batches[Head(jobs)]) ELSE {}
  /\ phase' = "lines"
  /\ UNCHANGED <<pass, includes, cmake, next, reported, names, excluded, failure>>

\* Line 293 without the discard: the file stays in args_left.
ArgsLeftAfterKept(l) == argsLeft
\* Line 293: a file grep printed a line for leaves args_left.
ArgsLeftAfter(l) == argsLeft \ {l.file}

\* Lines 287-301: one output line.  A line without a file name does not
\* match re_grep_n_include and is skipped; a change of file yields the
\* previous file's includees.
ReadLine ==
  LET l == Head(lines)
      change == filepath # NoPrefix /\ filepath # l.file
  IN  /\ pass = 1
      /\ phase = "lines"
      /\ lines # <<>>
      /\ lines' = Tail(lines)
      /\ IF l.file = NoPrefix
           THEN UNCHANGED <<filepath, includees, argsLeft, reported>>
           ELSE /\ argsLeft' = ArgsLeftAfter(l)
                /\ filepath' = l.file
                /\ includees' = IF change THEN {l.text} ELSE includees \cup {l.text}
                /\ reported' = IF change THEN Append(reported, <<filepath, includees>>)
                               ELSE reported
      /\ UNCHANGED <<pass, includes, cmake, next, jobs, cur, phase, names,
                     excluded, failure>>

\* Lines 303-304: end of output; yield the last file's includees.
EndLines ==
  /\ pass = 1
  /\ phase = "lines"
  /\ lines = <<>>
  /\ reported' = IF includees # {} THEN Append(reported, <<filepath, includees>>)
                 ELSE reported
  /\ phase' = "nohit"
  /\ UNCHANGED <<pass, includes, cmake, next, jobs, cur, lines, filepath,
                 includees, argsLeft, names, excluded, failure>>

\* Lines 306-308: a file grep printed nothing for, in set order.
ReportNoHit(f) ==
  /\ phase = "nohit"
  /\ f \in argsLeft
  /\ argsLeft' = argsLeft \ {f}
  /\ reported' = Append(reported, <<f, {}>>)
  /\ UNCHANGED <<pass, includes, cmake, next, jobs, cur, lines, filepath,
                 includees, phase, names, excluded, failure>>

\* Lines 310-311 and 351-352: wait for grep; a non-zero status fails the
\* assert.
WaitStatus == IF GrepStatus(cur) # 0 THEN "status" ELSE "none"
Wait ==
  /\ \/ pass = 1 /\ phase = "nohit" /\ argsLeft = {}
     \/ pass = 0 /\ phase = "lines" /\ lines = <<>> /\ ~aborted
  /\ failure' = WaitStatus
  /\ cur' = 0
  /\ phase' = "idle"
  /\ UNCHANGED <<pass, includes, cmake, next, jobs, lines, filepath, includees,
                 argsLeft, reported, names, excluded>>

\* Line 341 reached without the continue of line 340: a marked line is
\* also read as a target.
TargetHitFallThrough(l) == l.file # NoPrefix
\* Lines 337-343: re_exclude takes a line with the marker; any other line
\* with a file name matches re_cmake_target_cmd (grep selected only those).
TargetHit(l) == l.file # NoPrefix /\ ~l.text.marked

\* Lines 344-346 without the prefix of add_llvm_target.
RegNameNoPrefix(t) == t.name
\* Lines 344-346: the registered name ('-' to '_' is left out: names are
\* model values).
RegName(t) == IF t.cmd = "target" THEN <<"LLVM", t.name>> ELSE t.name

\* Lines 374-379: the loop of pass 0 records the target name of the yielded
\* CMakeLists.txt's directory (every directory walk yields one for is in
\* cmake_targets, so the test of line 376 always passes).
Pass0Register(f, t) == (f :> RegName(t)) @@ names

\* Lines 336-349 with the loop body of 374-379: one output line.  A marked
\* line adds its directory to excluded_dir; a target line must not name the
\* file of the line before (347) nor a directory already registered (378).
ReadCmakeLine ==
  LET l   == Head(lines)
      dup == filepath = l.file \/ l.file \in DOMAIN names
  IN  /\ pass = 0
      /\ phase = "lines"
      /\ lines # <<>>
      /\ ~aborted
      /\ lines' = Tail(lines)
      /\ excluded' = IF l.file # NoPrefix /\ l.text.marked
                     THEN excluded \cup {l.file} ELSE excluded
      /\ \/ /\ ~TargetHit(l)
            /\ UNCHANGED <<filepath, names, failure>>
         \/ /\ TargetHit(l) /\ dup
            /\ failure' = "duplicate"
            /\ UNCHANGED <<filepath, names>>
         \/ /\ TargetHit(l) /\ ~dup
            /\ filepath' = l.file
            /\ names' = Pass0Register(l.file, l.text)
            /\ UNCHANGED failure
      /\ UNCHANGED <<pass, includes, cmake, next, jobs, cur, includees,
                     argsLeft, phase, reported>>

Next ==
  \/ Launch
  \/ Drain
  \/ ReadLine
  \/ EndLines
  \/ \E f \in Files : ReportNoHit(f)
  \/ ReadCmakeLine
  \/ Wait

\* Only the main thread acts, and it never blocks for good: each grep ends.
Spec == Init /\ [][Next]_vars /\ WF_vars(Next)

-----------------------------------------------------------------------------
ReportedFiles == {reported[i][1] : i \in DOMAIN reported}

\* Pass 0 has read the output of every CMakeLists.txt batch.
Pass0Done == pass = 0 /\ next > NB /\ jobs = <<>> /\ phase = "idle"

\* The unmarked add_* lines of a CMakeLists.txt.
Unmarked(f) == {i \in DOMAIN cmake[f] : ~cmake[f][i].marked}

TypeOK ==
  /\ pass \in {0, 1}
  /\ includes \in [Files -> SUBSET Incs]
  /\ next \in 1..NB + 1
  /\ jobs \in Seq(1..NB) /\ Len(jobs) <= NJobs
  /\ cur \in 0..NB
  /\ argsLeft \subseteq Files
  /\ phase \in {"idle", "lines", "nohit"}
  /\ DOMAIN names \subseteq CmakeFiles /\ excluded \subseteq CmakeFiles
  /\ failure \in {"none", "status", "duplicate"}

\* Spec 4.2: every file is reported once, with the includes its text holds
\* (an empty set when it has none), whatever batch it lands in.  Pass 1
\* relies on it: a second report trips the assert of line 398, a wrong set
\* gives a wrong closure.
ReportedExactlyOnce ==
  \A i, j \in DOMAIN reported :
    /\ i # j => reported[i][1] # reported[j][1]
    /\ reported[i][2] = includes[reported[i][1]]

\* Spec 6: in the include scan (pass 1) a file with no include is "zero
\* includes", not an error, so no batch makes the assert on grep's status
\* (line 311) kill the run.  Pass 0's assert (352) is left to
\* Pass0FailsOnlyOnInput, which allows it.
GrepNeverAborts == pass = 1 => failure # "status"

\* The name CMake gives the target of an add_* command: add_llvm_target(X)
\* builds the library LLVMX.
CMakeTargetName(t) == IF t.cmd = "target" THEN <<"LLVM", t.name>> ELSE t.name

\* Spec 5 (BuildTarget discovery): once pass 0 has read every batch, the
\* directories whose add_* line carries the TDDEPS marker are excluded, and
\* every other directory with one add_* command is registered under the
\* name of that command's target, whatever batch and job its CMakeLists.txt
\* went through.
TargetNamesExact ==
  Pass0Done /\ ~aborted =>
    /\ excluded = {f \in CmakeFiles : \E i \in DOMAIN cmake[f] : cmake[f][i].marked}
    /\ DOMAIN names = {f \in CmakeFiles : Unmarked(f) # {}}
    /\ \A f \in DOMAIN names : \A i \in Unmarked(f) :
         names[f] = CMakeTargetName(cmake[f][i])

\* Pass 0 dies only for a reason the input gives: a CMakeLists.txt with two
\* add_* commands (the assert of line 347, which spec 6 counts as a
\* duplicate target registration), or a batch in which grep selects no
\* line (exit 1, line 352).  A marked line is never taken for a target.
Pass0FailsOnlyOnInput ==
  pass = 0 /\ aborted =>
    \/ failure = "duplicate" /\ \E f \in CmakeFiles : Cardinality(Unmarked(f)) >= 2
    \/ failure = "status" /\ \E b \in DOMAIN CmakeBatches :
                               \A i \in DOMAIN CmakeBatches[b] : cmake[CmakeBatches[b][i]] = <<>>

\* Each pass runs to its end unless the run died: in pass 1 every file
\* reaches pass 1's loop, in pass 0 every CMakeLists.txt batch is read; the
\* last, partly filled pool of jobs is drained too (lines 324-326, 365-367).
AllReported == <>(aborted \/ (pass = 1 /\ ReportedFiles = Files) \/ Pass0Done)
=============================================================================
