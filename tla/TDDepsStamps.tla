----------------------------- MODULE TDDepsStamps -----------------------------
(***************************************************************************)
(* The "Stamps" section of tddeps.py (lines 528-605).  Every tracked file  *)
(* (a key of all_mtimes) is put in the list of its directory, and the      *)
(* directory's stamp in the list of its parent, up to the scan root; the   *)
(* climb stops early at a parent that already lists the stamp.  Then, with *)
(* -s, one set(SRCS_<hash> ...) per directory is written, deepest first by *)
(* the length of the aliased directory name; a child stamp appears in its  *)
(* parent's list as ${SRCS_<child>}, which CMake expands when the parent's *)
(* set() runs.                                                             *)
(***************************************************************************)
EXTENDS Naturals, FiniteSets, Sequences, TLC

CONSTANTS
  Dirs,        \* directories under the roots
  Roots,       \* users: the scan roots
  Parent,      \* [Dirs \ Roots -> Dirs]: os.path.dirname
  CompLen,     \* [Dirs -> Nat]: characters a directory adds to its parent's
               \* path ("/name"; the whole path for a root)
  Aliased,     \* directories of dir_names: the named roots and the stampdir
  AliasLen,    \* [Aliased -> Nat]: characters of "${NAME}"
  Tracked,     \* the keys of all_mtimes, when the walk is not modelled
  FileDir      \* [files -> Dirs]

ASSUME Roots \subseteq Dirs /\ Aliased \subseteq Dirs
ASSUME Parent \in [Dirs \ Roots -> Dirs]
ASSUME \A f \in Tracked : FileDir[f] \in Dirs

VARIABLES
  mtimes,      \* the keys of all_mtimes the walk left (read only here)
  aliasOrder,  \* order of the alternatives in re_dirnames_dir (dict order)
  srcs,        \* srcs_in_dir: dir -> files and child stamps ({} = no key)
  stamps,      \* directories with an entry in all_stamps
  rootStamps,  \* roots with an entry in root_stamps
  linked,      \* files the loop of line 539 has handled
  emitted,     \* directories whose set(SRCS_...) has been written
  env,         \* CMake value of SRCS_<dir> once written
  stampsDeps   \* STAMPS_DEPENDS once written: [roots, files], or <<>>

vars == <<mtimes, aliasOrder, srcs, stamps, rootStamps, linked, emitted, env,
          stampsDeps>>

\* Line 551 with the directory key k listed in place of stamp_name.
StampOfRaw(d) == d

\* Line 551: the ${SRCS_<hash>} entry naming a directory's stamp.
StampOf(d) == <<"stamp", d>>

RECURSIVE AncestorsOrSelf(_)
AncestorsOrSelf(d) ==
  IF d \in Roots THEN {d} ELSE {d} \cup AncestorsOrSelf(Parent[d])

RECURSIVE PathLen(_)
PathLen(d) == IF d \in Roots THEN CompLen[d] ELSE PathLen(Parent[d]) + CompLen[d]

\* with_dir_names, lines 75-80: the first alternative of the regex that is d
\* or an ancestor of d replaces that prefix by "${NAME}".
KeyLen(d) ==
  LET hits == {i \in DOMAIN aliasOrder : aliasOrder[i] \in AncestorsOrSelf(d)}
  IN  IF hits = {} THEN PathLen(d)
      ELSE LET a == aliasOrder[CHOOSE i \in hits : \A j \in hits : i <= j]
           IN  AliasLen[a] + PathLen(d) - PathLen(a)

\* Lines 558-561 stopping as soon as the parent has a key in srcs_in_dir.
StopAtKnownParent(d, p, s) == s[p] # {}
\* Lines 558-561: the climb stops once the parent lists the child's stamp.
StopAt(d, p, s) == StampOf(d) \in s[p]

\* Lines 550-562: register d's stamp, then link it into its parent unless d
\* is a root or the parent already lists it.  s = [srcs, stamps, roots].
RECURSIVE Climb(_, _)
Climb(d, s) ==
  LET s1 == [s EXCEPT !.stamps = @ \cup {d}]
  IN  IF d \in Roots THEN [s1 EXCEPT !.roots = @ \cup {d}]
      ELSE IF StopAt(d, Parent[d], s1.srcs) THEN s1
      ELSE Climb(Parent[d], [s1 EXCEPT !.srcs[Parent[d]] = @ \cup {StampOf(d)}])

\* The stamps section's own variables at line 533.
InitStamps ==
  /\ aliasOrder \in {s \in [1..Cardinality(Aliased) -> Aliased] :
                       \A x \in Aliased : \E i \in DOMAIN s : s[i] = x}
  /\ srcs = [d \in Dirs |-> {}]
  /\ stamps = {}
  /\ rootStamps = {}
  /\ linked = {}
  /\ emitted = {}
  /\ env = [d \in {} |-> {}]
  /\ stampsDeps = <<>>

Init == mtimes = Tracked /\ InitStamps

\* Lines 539-562: one key of all_mtimes, in dict order.
LinkFile(f) ==
  LET s0 == [srcs |-> [srcs EXCEPT ![FileDir[f]] = @ \cup {f}],
             stamps |-> stamps, roots |-> rootStamps]
      s == Climb(FileDir[f], s0)
  IN  /\ f \in mtimes \ linked
      /\ srcs' = s.srcs
      /\ stamps' = s.stamps
      /\ rootStamps' = s.roots
      /\ linked' = linked \cup {f}
      /\ UNCHANGED <<mtimes, aliasOrder, emitted, env, stampsDeps>>

\* The keys of srcs_in_dir.
Listed == {d \in Dirs : srcs[d] # {}}

\* Line 568 with the minus sign of the sort key lost.
NextToEmitShallowFirst(d) ==
  /\ d \in Listed \ emitted
  /\ \A e \in Listed \ emitted : KeyLen(e) >= KeyLen(d)

\* Line 568: sorted by decreasing length of the aliased name; sorted() breaks
\* ties by the name, which the model leaves open.
NextToEmit(d) ==
  /\ d \in Listed \ emitted
  /\ \A e \in Listed \ emitted : KeyLen(e) <= KeyLen(d)

\* Lines 578-594: set(SRCS_<d> <files> ${SRCS_<child>}...) and the stamp
\* command depending on it; a child not yet set expands to nothing.
EmitStamp(d) ==
  LET files == srcs[d] \cap mtimes
      kids  == {c \in Dirs : StampOf(c) \in srcs[d]}
      value == files \cup UNION {IF c \in DOMAIN env THEN env[c] ELSE {} : c \in kids}
  IN  /\ linked = mtimes
      /\ NextToEmit(d)
      /\ emitted' = emitted \cup {d}
      /\ env' = (d :> value) @@ env
      /\ UNCHANGED <<mtimes, aliasOrder, srcs, stamps, rootStamps, linked,
                     stampsDeps>>

\* Lines 598-601: the root_stamps entries that are not None.
RootRefs == rootStamps

\* Lines 595-605, after the loop of line 568: set(STAMPS_DEPENDS) lists the
\* ${SRCS_<root>} of every root stamp and the stamp file of every emitted
\* directory (stamp_filepaths).
EmitStampsDepends ==
  /\ linked = mtimes
  /\ emitted = Listed
  /\ stampsDeps = <<>>
  /\ stampsDeps' = [roots |-> RootRefs, files |-> emitted]
  /\ UNCHANGED <<mtimes, aliasOrder, srcs, stamps, rootStamps, linked, emitted,
                 env>>

Next ==
  \/ \E f \in mtimes : LinkFile(f)
  \/ \E d \in Dirs : EmitStamp(d)
  \/ EmitStampsDepends

Spec == Init /\ [][Next]_vars

Done == linked = mtimes /\ emitted = Listed /\ stampsDeps # <<>>

-----------------------------------------------------------------------------
\* The tracked files under a directory.
Under(d) == {f \in mtimes : d \in AncestorsOrSelf(FileDir[f])}

TypeOK ==
  /\ srcs \in [Dirs -> SUBSET (mtimes \cup ({"stamp"} \X Dirs))]
  /\ stamps \subseteq Dirs /\ rootStamps \subseteq Roots
  /\ linked \subseteq mtimes /\ emitted \subseteq Dirs

\* Whatever order the files come in, the early stop of line 560 leaves the
\* stamps a tree that mirrors the directories: each linked file is listed
\* in its directory, every directory on the way up to its root has a stamp
\* listed in its parent, the root is in root_stamps, and no list holds
\* anything else.
StampTreeMirrorsDirs ==
  /\ \A f \in linked :
       /\ f \in srcs[FileDir[f]]
       /\ AncestorsOrSelf(FileDir[f]) \subseteq stamps
       /\ \A a \in AncestorsOrSelf(FileDir[f]) \ Roots : StampOf(a) \in srcs[Parent[a]]
       /\ AncestorsOrSelf(FileDir[f]) \cap Roots \subseteq rootStamps
  /\ \A d \in Dirs :
       srcs[d] \subseteq {f \in linked : FileDir[f] = d}
                         \cup {StampOf(c) : c \in {x \in Dirs \ Roots : Parent[x] = d}}

\* The stamp of a directory depends, once CMake has expanded its list, on
\* every tracked file below it: each child's SRCS_ is set before the
\* parent's set() reads it.
StampDependsComplete ==
  \A d \in emitted : env[d] = Under(d)
=============================================================================
