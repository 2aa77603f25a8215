----------------------------- MODULE TDDepsGroups -----------------------------
(***************************************************************************)
(* The "Groups" section of tddeps.py (lines 248-264 and 475-526).  For     *)
(* each named CMake target, in sorted directory order, the sources are     *)
(* partitioned by their final deps; each part is a group, named after the  *)
(* sorted, extension-stripped basenames of the deps (sha1 of that name     *)
(* above 40 characters).  The output is a series of CMake set() calls; the *)
(* model keeps, for each variable, the value CMake ends up with: a later   *)
(* set() of the same variable replaces the earlier one.                    *)
(***************************************************************************)
EXTENDS Naturals, Sequences, SequencesExt

CONSTANTS
  TargetOrder,  \* directories of cmake_targets, sorted (line 480)
  Named,        \* those with a name in cmake_target_names (line 481)
  SrcsOf,       \* [target -> its source files] (cmake_targets)
  Names,        \* the nodes a final deps set can hold
  Rank,         \* [Names -> Nat]: position of the path in sorted() order
  Stem,         \* [Names -> Seq(Words)]: basename without extension, '.'
                \* replaced by '_', as the sequence of its '_'-separated words
  WordLen,      \* [Words -> Nat]: characters in a word
  NoneWord,     \* the word 'None' of line 253
  Base,         \* [Names -> basenames]: os.path.basename (line 512)
  MaxNameLen,   \* 40 (line 262)
  DepsChoices   \* the possible results of pass 1 for the sources

Targets == {TargetOrder[i] : i \in DOMAIN TargetOrder}
Srcs == UNION {SrcsOf[t] : t \in Targets}

ASSUME Named \subseteq Targets
ASSUME \A t \in Targets : SrcsOf[t] # {}
ASSUME \A d \in DepsChoices : d \in [Srcs -> SUBSET Names]

VARIABLES
  deps,     \* final deps of every source (read only here)
  ti,       \* index of the next target of the loop at line 480
  exts,     \* the partition of the current target: deps set -> files
  pending,  \* groups of the current target not yet emitted (lines 503-521)
  allset,   \* deps sets whose TDDEPS_<group> is already defined
  all_tds,  \* td.<basename> names written so far
  env,      \* CMake variables: key -> final value
  done      \* TDDEPS_MANAGED_FILES written

vars == <<deps, ti, exts, pending, allset, all_tds, env, done>>

\* Keys of the CMake variables written by this section.
DepsetVar(t) == <<"TDDEPSET", t>>
GroupVar(g) == <<"TDDEPS", g>>
MembersVar(t, g) == <<"TDDEPS", t, g>>
ManagedVar == <<"TDDEPS_MANAGED_FILES">>

\* set(var ...): the last call wins.
SetVar(e, k, v) == (k :> v) @@ e

-----------------------------------------------------------------------------
\* get_group_name, lines 251-258: stems of the sorted names joined by '_'.
\* A stem that itself holds '_' joins into the same word sequence.
GroupName(k) ==
  IF k = {} THEN <<NoneWord>>
  ELSE LET s == SetToSortSeq(k, LAMBDA x, y : Rank[x] < Rank[y])
       IN  FlattenSeq([i \in DOMAIN s |-> Stem[s[i]]])

\* Characters of a joined name.
NameLen(w) ==
  LET f[i \in 0..Len(w)] == IF i = 0 THEN 0 ELSE f[i - 1] + WordLen[w[i]]
  IN  f[Len(w)] + Len(w) - 1

\* get_group_name_hashed, lines 260-264: sha1 is injective on the names a
\* run meets, so the digest is the name under a tag.
GroupNameHashed(k) ==
  LET w == GroupName(k)
  IN  IF NameLen(w) > MaxNameLen THEN <<"sha1", w>> ELSE w

\* The td.<basename> list of a group (lines 511-514).
TdNames(k) == {<<"td", Base[n]>> : n \in k}

\* Lines 484-489 with the key added in place of the file.
PartitionKeyAsMember(t) == [k \in {deps[f] : f \in SrcsOf[t]} |->
                             {deps[f] : f \in SrcsOf[t]}]

\* Lines 484-489: sources of a target keyed by their frozen deps.
Partition(t) == [k \in {deps[f] : f \in SrcsOf[t]} |->
                   {f \in SrcsOf[t] : deps[f] = k}]

Init ==
  /\ deps \in DepsChoices
  /\ ti = 1
  /\ exts = <<>>
  /\ pending = {}
  /\ allset = {}
  /\ all_tds = {}
  /\ env = <<>>
  /\ done = FALSE

\* Lines 481-482: a directory with sources but no add_* target is skipped.
SkipTarget ==
  /\ pending = {}
  /\ ti <= Len(TargetOrder)
  /\ TargetOrder[ti] \notin Named
  /\ ti' = ti + 1
  /\ UNCHANGED <<deps, exts, pending, allset, all_tds, env, done>>

\* Lines 493-500: the entries of TDDEPSET_<target>, printed with name_full
\* in place of group_name.
DepsetNamesFull(p) == {GroupName(k) : k \in DOMAIN p}

\* Lines 493-500: the entries of TDDEPSET_<target>.
DepsetNames(p) == {GroupNameHashed(k) : k \in DOMAIN p}

\* Lines 483-501: partition the target and write TDDEPSET_<target>.
BeginTarget ==
  LET t == TargetOrder[ti]
      p == Partition(t)
  IN  /\ pending = {}
      /\ ti <= Len(TargetOrder)
      /\ t \in Named
      /\ exts' = p
      /\ pending' = DOMAIN p
      /\ env' = SetVar(env, DepsetVar(t), DepsetNames(p))
      /\ ti' = ti + 1
      /\ UNCHANGED <<deps, allset, all_tds, done>>

\* Lines 506-516: is the group's TDDEPS_<group> list already written?
NeedsDefinitionInverted(k) == k \in allset
NeedsDefinition(k) == k \notin allset

\* Lines 503-521: one group of the current target.  sorted() over frozensets
\* compares by inclusion, which is no total order, so any pending group may
\* come next.
EmitGroup(k) ==
  LET t == TargetOrder[ti - 1]
      g == GroupNameHashed(k)
      e1 == IF NeedsDefinition(k) THEN SetVar(env, GroupVar(g), TdNames(k))
            ELSE env
  IN  /\ k \in pending
      /\ pending' = pending \ {k}
      /\ allset' = allset \cup {k}
      /\ all_tds' = IF NeedsDefinition(k) THEN all_tds \cup TdNames(k)
                    ELSE all_tds
      /\ env' = SetVar(e1, MembersVar(t, g), exts[k])
      /\ UNCHANGED <<deps, ti, exts, done>>

\* Lines 523-526: the list of every td.<basename> written.
EmitManaged ==
  /\ ~done
  /\ pending = {}
  /\ ti = Len(TargetOrder) + 1
  /\ env' = SetVar(env, ManagedVar, all_tds)
  /\ done' = TRUE
  /\ UNCHANGED <<deps, ti, exts, pending, allset, all_tds>>

Next ==
  \/ SkipTarget
  \/ BeginTarget
  \/ \E k \in SUBSET Names : EmitGroup(k)
  \/ EmitManaged

Spec == Init /\ [][Next]_vars

-----------------------------------------------------------------------------
TypeOK ==
  /\ deps \in [Srcs -> SUBSET Names]
  /\ ti \in 1..Len(TargetOrder) + 1
  /\ exts \in [DOMAIN exts -> SUBSET Srcs]
  /\ pending \subseteq DOMAIN exts
  /\ allset \subseteq SUBSET Names
  /\ done \in BOOLEAN

\* What CMake sees once the fragment is read: every source of a named
\* target is listed in a group that TDDEPSET_<target> names, so it gets a
\* dependency on its generated files.  Two groups of one target with the
\* same name make the second set(TDDEPS_<target>_<group>) drop the first
\* group's files.
GroupsCoverSources ==
  done =>
    \A t \in Named : \A f \in SrcsOf[t] :
      /\ DepsetVar(t) \in DOMAIN env
      /\ \E g \in env[DepsetVar(t)] :
           MembersVar(t, g) \in DOMAIN env /\ f \in env[MembersVar(t, g)]

\* What CMake sees: the TDDEPS_<group> list of each group a source is
\* listed in is the td names of that source's own deps, even when another
\* target defined a group of the same name.
GroupDepsMatch ==
  done =>
    \A t \in Named : \A g \in env[DepsetVar(t)] :
      \A f \in IF MembersVar(t, g) \in DOMAIN env
               THEN env[MembersVar(t, g)] ELSE {} :
        GroupVar(g) \in DOMAIN env /\ env[GroupVar(g)] = TdNames(deps[f])
=============================================================================
