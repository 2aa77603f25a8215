---------------------------- MODULE TDDepsResolve ----------------------------
(***************************************************************************)
(* Include resolution of tddeps.py: the public-name map include_files the  *)
(* walker builds (lines 116-121, 134-139, 162-163) and the resolution of   *)
(* one include string in pass 1 (lines 401-417).  Paths are sequences of   *)
(* components; an include string may hold the token DotDot ("..").         *)
(* Resolution reads only what the walk left behind, never what pass 1 has  *)
(* done, so a file's includes resolve the same whenever it is handled.     *)
(***************************************************************************)
EXTENDS Naturals, Sequences

CONSTANTS
  UserSeq,    \* users: the root paths, in command-line order
  AllFiles,   \* paths of all_files (all_files_set, line 381)
  Tmpls,      \* *.h.in paths (*.h.cmake is dropped by re_excludes first)
  TmplName,   \* [Tmpls -> component]: the basename without .in
  DotTok,     \* "." as os.path.join writes it
  DotDot,     \* ".." in an include string
  Unresolved, \* inc_filepath = None
  Raws        \* include strings the resolution is checked on

DirOf(p) == SubSeq(p, 1, Len(p) - 1)
NameOf(p) == p[Len(p)]
IsPrefix(d, p) == Len(d) <= Len(p) /\ SubSeq(p, 1, Len(d)) = d

Users == {UserSeq[i] : i \in DOMAIN UserSeq}

\* Lines 96-103: the include directories, from the first two roots.
IncDirs ==
  <<UserSeq[1] \o <<"include">>,
    UserSeq[1] \o <<"utils", "unittest", "googletest", "include">>>>
  \o (IF Len(UserSeq) >= 2 THEN <<UserSeq[2] \o <<"include">>>> ELSE <<>>)

\* os.path.normpath of a path holding "..": each ".." drops the component
\* before it.
RECURSIVE NormAcc(_, _)
NormAcc(acc, rest) ==
  IF rest = <<>> THEN acc
  ELSE IF Head(rest) = DotDot /\ acc # <<>>
       THEN NormAcc(SubSeq(acc, 1, Len(acc) - 1), Tail(rest))
       ELSE NormAcc(Append(acc, Head(rest)), Tail(rest))
Normpath(p) == NormAcc(<<>>, p)

\* Lines 116-121: the path of a directory relative to the first include
\* directory it lies under; relpath gives "." for the directory itself.
IncludePrefix(dir) ==
  LET hits == {i \in DOMAIN IncDirs : IsPrefix(IncDirs[i], dir)}
      i    == CHOOSE i \in hits : \A j \in hits : i <= j
  IN  IF hits = {} THEN Unresolved
      ELSE IF dir = IncDirs[i] THEN <<DotTok>>
      ELSE SubSeq(dir, Len(IncDirs[i]) + 1, Len(dir))

\* Lines 138 and 163: os.path.join(include_prefix, name), with no normpath.
PublicKey(p, name) == IncludePrefix(DirOf(p)) \o <<name>>

\* include_files: public name -> path, for headers and templates under an
\* include directory.
Public == {p \in AllFiles \cup Tmpls : IncludePrefix(DirOf(p)) # Unresolved}
KeyOf(p) == PublicKey(p, IF p \in Tmpls THEN TmplName[p] ELSE NameOf(p))
IncludeFiles == [k \in {KeyOf(p) : p \in Public} |-> CHOOSE p \in Public : KeyOf(p) = k]

\* Lines 407-409 with the test of line 413 made before the break.
RECURSIVE WalkInclusive(_, _)
WalkInclusive(dir, inc) ==
  IF dir = <<>> THEN Unresolved
  ELSE IF Normpath(dir \o inc) \in AllFiles THEN Normpath(dir \o inc)
  ELSE IF dir \in Users \/ dir \in {IncDirs[i] : i \in DOMAIN IncDirs}
       THEN Unresolved
       ELSE WalkInclusive(DirOf(dir), inc)

\* Lines 406-416: from the includer's directory upwards, stopping on an
\* include directory or a root, the first dir/inc that is a known file.
RECURSIVE Walk(_, _)
Walk(dir, inc) ==
  IF dir = <<>> THEN Unresolved
  ELSE IF dir \in {IncDirs[i] : i \in DOMAIN IncDirs} \/ dir \in Users
       THEN Unresolved
  ELSE IF Normpath(dir \o inc) \in AllFiles THEN Normpath(dir \o inc)
  ELSE Walk(DirOf(dir), inc)

\* Lines 401-417: the public name first, then the ancestor walk.
Resolve(f, inc) ==
  IF inc \in DOMAIN IncludeFiles THEN IncludeFiles[inc] ELSE Walk(DirOf(f), inc)

-----------------------------------------------------------------------------
IncDirSet == {IncDirs[i] : i \in DOMAIN IncDirs}

\* Spec 4.1: a file under an include directory is public under its path
\* relative to that directory.
SpecKey(p) ==
  LET hits == {i \in DOMAIN IncDirs : IsPrefix(IncDirs[i], DirOf(p))}
      i    == CHOOSE i \in hits : \A j \in hits : i <= j
      d    == DirOf(p)
  IN  SubSeq(d, Len(IncDirs[i]) + 1, Len(d))
        \o <<IF p \in Tmpls THEN TmplName[p] ELSE NameOf(p)>>

\* The ancestors of dir, by length, below the nearest root or include
\* directory.
Searched(dir) ==
  {k \in 1..Len(dir) : \A m \in k..Len(dir) : SubSeq(dir, 1, m) \notin Users \cup IncDirSet}

\* Spec 4.3: the public name first, then the nearest searched ancestor that
\* holds dir/inc, else a placeholder.
SpecResolve(f, inc) ==
  LET pub  == {p \in Public : SpecKey(p) = inc}
      dir  == DirOf(f)
      hits == {k \in Searched(dir) : Normpath(SubSeq(dir, 1, k) \o inc) \in AllFiles}
      k    == CHOOSE k \in hits : \A j \in hits : j <= k
  IN  IF pub # {} THEN CHOOSE p \in pub : TRUE
      ELSE IF hits = {} THEN Unresolved
      ELSE Normpath(SubSeq(dir, 1, k) \o inc)

=============================================================================
