------------------------------ MODULE TDDepsWalk ------------------------------
(***************************************************************************)
(* walk() of tddeps.py (lines 111-170): a depth-first traversal from the   *)
(* roots with an explicit stack, one directory per step.  Each step lists  *)
(* the directory in some order, skips what re_excludes matches, registers  *)
(* templates and headers under an include directory in include_files,     *)
(* collects the sources of a directory holding CMakeLists.txt, pushes the  *)
(* subdirectories, and yields the CMakeLists.txt of a directory with new   *)
(* sources.  The consumer of the generator (pass 0) never touches the      *)
(* walker's state, so a directory is one atomic step.  The file-name       *)
(* regexes are abstracted into Kind and Excluded.                          *)
(***************************************************************************)
EXTENDS Naturals, Sequences, SequencesExt

CONSTANTS
  UserSeq,    \* users: the roots in command-line order
  Dirs,       \* directories under the roots, roots included
  Parent,     \* [Dirs \ roots -> Dirs]: os.path.dirname
  Files,      \* non-directory entries
  FileDir,    \* [Files -> Dirs]
  Kind,       \* [Files -> {"hdr", "td", "src", "tmpl", "cmake", "other"}]
  Excluded,   \* entries whose name re_excludes matches (line 128)
  Name,       \* [Dirs \cup Files -> names]: the last path component
  TmplName,   \* [templates -> names]: mt.group("basename") of line 133
  Mtime,      \* [Files -> Nat]: st_mtime
  InfileStat, \* st_mtime of the -i file (line 50)
  NoPrefix    \* include_prefix = None

Roots == {UserSeq[i] : i \in DOMAIN UserSeq}

RECURSIVE PathOf(_)
PathOf(x) ==
  IF x \in Roots THEN <<Name[x]>>
  ELSE PathOf(IF x \in Files THEN FileDir[x] ELSE Parent[x]) \o <<Name[x]>>

R == INSTANCE TDDepsResolve WITH
  UserSeq <- [i \in DOMAIN UserSeq |-> PathOf(UserSeq[i])],
  AllFiles <- {}, Tmpls <- {}, TmplName <- <<>>,
  DotTok <- ".", DotDot <- "..", Unresolved <- NoPrefix, Raws <- {}

\* Line 51 is commented out: infile_mtime stays 0 even with -i.
InfileMtimeStat == InfileStat
InfileMtime == 0

\* Lines 143 and 157: the mtime filter of the incremental mode.
Newer(f) == Mtime[f] > InfileMtime

VARIABLES
  subdirs,       \* the stack of directories still to list
  includeFiles,  \* include_files: public name -> file
  tmplDeps,      \* templates given deps[f] = frozenset() (line 139)
  allFiles,      \* all_files: files for pass 1, in order
  allSrcs,       \* all_srcs: .td files and collected sources
  allMtimes,     \* the keys of all_mtimes
  cmakeTargets,  \* cmake_targets: directory -> its sources
  yielded        \* directories whose CMakeLists.txt was yielded

walkVars == <<subdirs, includeFiles, tmplDeps, allFiles, allSrcs, allMtimes,
              cmakeTargets, yielded>>

\* Lines 138 and 163 keeping the entry already registered (setdefault).
RegisterKeepFirst(m, k, f) == m @@ (k :> f)
\* Lines 138 and 163: include_files[k] = filepath replaces an earlier entry.
Register(m, k, f) == (k :> f) @@ m

\* Line 113: subdirs.pop().
PopDirPeek(s) == s
PopDir(s) == Front(s)

\* Line 124: sources count only in a directory holding CMakeLists.txt.
CMakeFoundAlways(here) == TRUE
CMakeFound(here) == \E f \in here : Kind[f] = "cmake"

\* Line 112: subdirs = dirs[:].
InitWalk ==
  /\ subdirs = UserSeq
  /\ includeFiles = <<>>
  /\ tmplDeps = {}
  /\ allFiles = <<>>
  /\ allSrcs = {}
  /\ allMtimes = {}
  /\ cmakeTargets = <<>>
  /\ yielded = <<>>

\* Lines 113-170 for the directory on top of the stack.  listdir's order
\* is any order: it decides the order of all_files, of the pushes, and
\* which entry wins a public name registered twice.
VisitDir ==
  LET path   == Last(subdirs)
      prefix == R!IncludePrefix(PathOf(path))
      here   == {f \in Files : FileDir[f] = path}
      files  == here \ Excluded
      kids   == {c \in DOMAIN Parent : Parent[c] = path /\ c \notin Excluded}
      found  == CMakeFound(here)
      tmpls  == {f \in files : Kind[f] = "tmpl"}
      hdrs   == {f \in files : Kind[f] \in {"hdr", "td"}}
      srcs   == {f \in files : found /\ Kind[f] = "src"}
      Key(f) == prefix \o <<IF f \in tmpls THEN TmplName[f] ELSE Name[f]>>
      public == IF prefix = NoPrefix THEN {} ELSE tmpls \cup hdrs
      newSrc == {f \in srcs : Newer(f)}
  IN  /\ subdirs # <<>>
      /\ \E order \in SetToSeqs(tmpls \cup hdrs), push \in SetToSeqs(kids),
            srcOrder \in SetToSeqs(newSrc) :
           /\ subdirs' = PopDir(subdirs) \o push
           /\ includeFiles' =
                FoldLeft(LAMBDA m, f : IF f \in public THEN Register(m, Key(f), f) ELSE m,
                         includeFiles, order)
           /\ allFiles' = allFiles
                            \o SelectSeq(order, LAMBDA f : f \in hdrs /\ Newer(f))
                            \o srcOrder
      /\ tmplDeps' = tmplDeps \cup (tmpls \cap public)
      /\ allMtimes' = allMtimes \cup hdrs \cup srcs
      /\ allSrcs' = allSrcs \cup {f \in hdrs : Kind[f] = "td"} \cup newSrc
      /\ cmakeTargets' = IF newSrc = {} THEN cmakeTargets
                         ELSE (path :> newSrc) @@ cmakeTargets
      /\ yielded' = IF newSrc = {} THEN yielded ELSE Append(yielded, path)

WalkDone == subdirs = <<>>

SpecWalk == InitWalk /\ [][VisitDir]_walkVars
=============================================================================
