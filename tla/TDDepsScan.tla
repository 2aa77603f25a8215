------------------------------ MODULE TDDepsScan ------------------------------
(***************************************************************************)
(* The walk of lines 111-170 composed with the stamps section of lines     *)
(* 528-605, which reads the keys of all_mtimes the walk left.  Passes 0    *)
(* and 1 and the groups run in between and never touch all_mtimes, so the  *)
(* stamps start when the walk is over.  The run ends with the comparison   *)
(* against the -i file (lines 607-626), and the build may run the script  *)
(* again on the same tree.                                                 *)
(***************************************************************************)
EXTENDS TDDepsWalk, FiniteSets

CONSTANTS CompLen, Aliased, AliasLen, OldOutput

VARIABLES aliasOrder, srcs, stamps, rootStamps, linked, emitted, env, stampsDeps

stampVars == <<aliasOrder, srcs, stamps, rootStamps, linked, emitted, env,
              stampsDeps>>

VARIABLES infile, sameSecond, withAction, acted, finished

upVars == <<infile, sameSecond, withAction, acted>>
vars == <<walkVars, stampVars, upVars, finished>>

Stamps == INSTANCE TDDepsStamps WITH
  Roots <- Roots, Tracked <- Files, mtimes <- allMtimes

Up == INSTANCE TDDepsUpdate WITH
  OldOutput <- OldOutput, infile <- infile, sameSecond <- sameSecond,
  withAction <- withAction, acted <- acted

\* What the stamps section writes: each directory's list and STAMPS_DEPENDS,
\* each printed in sorted order.
Frag == <<srcs, stampsDeps>>

Init == InitWalk /\ Stamps!InitStamps /\ Up!InitUpdate /\ finished = FALSE

\* Lines 607-626 once the stamps are written.
Finish ==
  /\ WalkDone /\ Stamps!Done /\ ~finished
  /\ Up!Update(Frag)
  /\ finished' = TRUE
  /\ UNCHANGED <<walkVars, stampVars>>

\* The build runs the script again on the same tree, with the same options:
\* every module-level dict starts empty again (lines 94-109, 531-535); the
\* order of dir_names is the same (Python 2 orders equal keys the same).
Rerun ==
  /\ finished
  /\ subdirs' = UserSeq /\ includeFiles' = <<>> /\ tmplDeps' = {}
  /\ allFiles' = <<>> /\ allSrcs' = {} /\ allMtimes' = {}
  /\ cmakeTargets' = <<>> /\ yielded' = <<>>
  /\ srcs' = [d \in Dirs |-> {}] /\ stamps' = {} /\ rootStamps' = {}
  /\ linked' = {} /\ emitted' = {} /\ env' = <<>> /\ stampsDeps' = <<>>
  /\ UNCHANGED aliasOrder
  /\ finished' = FALSE
  /\ UNCHANGED upVars

RunStep ==
  \/ VisitDir /\ UNCHANGED <<stampVars, upVars, finished>>
  \/ WalkDone /\ Stamps!Next /\ UNCHANGED <<walkVars, upVars, finished>>
  \/ Finish
  \/ Rerun

Tick == Up!Tick /\ UNCHANGED <<walkVars, stampVars, finished>>

Next == RunStep \/ Tick

\* The script's own steps are a terminating single-threaded loop; the build
\* runs it again, and the clock advances.
Spec == Init /\ [][Next]_vars /\ WF_vars(RunStep) /\ WF_vars(Tick)

-----------------------------------------------------------------------------
TypeOK ==
  /\ subdirs \in Seq(Dirs)
  /\ allFiles \in Seq(Files) /\ yielded \in Seq(Dirs)
  /\ tmplDeps \subseteq Files /\ allSrcs \subseteq Files /\ allMtimes \subseteq Files
  /\ Range(includeFiles) \subseteq Files
  /\ Stamps!TypeOK

\* Spec 4.1: what a depth-first walk with the exclusion filter finds.  An
\* entry is seen when neither it nor a directory between it and its root
\* is excluded; a directory with a build descriptor and sources is a
\* target; headers and .td files are Files, public under their path
\* relative to the include directory.
RECURSIVE Seen(_)
Seen(x) ==
  \/ x \in Roots
  \/ x \notin Excluded /\ Seen(IF x \in Files THEN FileDir[x] ELSE Parent[x])

SpecSources(d) == {f \in Files : FileDir[f] = d /\ Kind[f] = "src" /\ Seen(f)}
SpecTargets ==
  {d \in Dirs : /\ Seen(d) /\ SpecSources(d) # {}
                /\ \E f \in Files : FileDir[f] = d /\ Kind[f] = "cmake"}
SpecHeaders == {f \in Files : Kind[f] \in {"hdr", "td"} /\ Seen(f)}
SpecFiles == SpecHeaders \cup UNION {SpecSources(d) : d \in SpecTargets}
SpecTmpls == {f \in Files : Kind[f] = "tmpl" /\ Seen(f)}

\* The spec's public-name map, over the paths of the seen files.
P == INSTANCE TDDepsResolve WITH
  UserSeq <- [i \in DOMAIN UserSeq |-> PathOf(UserSeq[i])],
  AllFiles <- {PathOf(f) : f \in SpecHeaders},
  Tmpls <- {PathOf(f) : f \in SpecTmpls},
  TmplName <- [p \in {PathOf(f) : f \in SpecTmpls} |->
                 TmplName[CHOOSE f \in SpecTmpls : PathOf(f) = p]],
  DotTok <- ".", DotDot <- "..", Unresolved <- NoPrefix, Raws <- {}

\* Line 398 asserts that no file comes out of grep twice: the walk lists
\* every file in all_files at most once, whatever order listdir returns.
WalkListsOnce == IsInjective(allFiles)

\* Line 540 asserts that every key of all_mtimes is in all_files: a file
\* whose mtime the walk records is always one it hands to pass 1.
TrackedAreScanned == allMtimes \subseteq Range(allFiles)

\* Once the walk is over, whatever listdir's order: all_files holds exactly
\* the seen headers and the sources of the targets, cmake_targets maps each
\* target to its sources, each target's CMakeLists.txt is yielded once, the
\* seen templates under an include directory get empty deps, and
\* include_files maps each public name of spec 4.1 to its file.
WalkMatchesSpec ==
  WalkDone =>
    /\ Range(allFiles) = SpecFiles
    /\ cmakeTargets = [d \in SpecTargets |-> SpecSources(d)]
    /\ IsInjective(yielded) /\ Range(yielded) = SpecTargets
    /\ {PathOf(f) : f \in tmplDeps} = P!Public \cap {PathOf(f) : f \in SpecTmpls}
    /\ DOMAIN includeFiles = {P!SpecKey(p) : p \in P!Public}
    /\ \A k \in DOMAIN includeFiles : P!SpecKey(PathOf(includeFiles[k])) = k

\* The stamps properties over the files the walk tracked.
StampTreeMirrorsDirs == Stamps!StampTreeMirrorsDirs
StampDependsComplete == WalkDone => Stamps!StampDependsComplete

RECURSIVE RootOf(_)
RootOf(x) == IF x \in Roots THEN x
             ELSE RootOf(IF x \in Files THEN FileDir[x] ELSE Parent[x])

\* include_files keeps one file per public name.  When include directories
\* of both roots hold a header with the same public name, the walk pops
\* the last root first, so the first root's header is registered last and
\* wins, whatever order listdir returns the entries in.
FirstRootWins ==
  WalkDone =>
    \A f \in SpecHeaders :
      (PathOf(f) \in P!Public /\ RootOf(f) = UserSeq[1]) =>
        includeFiles[P!SpecKey(PathOf(f))] = f

\* Without --action, however the runs fall within a second, the -i file
\* eventually holds the fragment of the tree for good: cp -u may skip a
\* copy in the second the -i file was written, but a later run catches up,
\* and every run writes the same fragment, so no run undoes it.
InfileConverges == ~withAction => <>[](finished => infile = Frag)
=============================================================================
