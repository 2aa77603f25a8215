---------------------------- MODULE GitTreeCommit ----------------------------
(***************************************************************************)
(* llvm/utils/git-svn/git-tree-commit.py.  For every commit listed by      *)
(* git rev-list for each argument, mktree rebuilds the commit's tree so    *)
(* that each top-level directory d becomes <d>/trunk (clang becomes cfe),  *)
(* and commit-tree records it on top of the previous rewritten commit.     *)
(* Before the first commit of each argument a "[DO NOT COMMIT]" commit     *)
(* holding the rewritten tree of its parent is made, so that the printed   *)
(* "git svn commit-diff -rHEAD <parent> <commit>" sends the commit's own   *)
(* change.                                                                 *)
(*                                                                         *)
(* git is modelled by what it returns: ls-tree lists the entries of a      *)
(* commit (nothing for the parent of a root commit), mktree --batch        *)
(* answers each request with the tree it stores, commit-tree a fresh       *)
(* commit, identified here by its position in the sequence made.           *)
(***************************************************************************)
EXTENDS Naturals, Sequences

CONSTANTS
  Commits,     \* commits of the source repository
  OrigParent,  \* [Commits -> Commits \cup {NoCommit}]: "<commit>^"
  OrigTree,    \* [Commits -> top-level name -> content]
  BlobNames,   \* top-level names that are files, not directories
  Subs,        \* the subs dict: top-level name -> new name
  RevLists,    \* possible outputs of rev-list, one commit list per argument
  NoCommit

VARIABLES
  revs,    \* the commit list of each argument
  argi,    \* the argument being processed
  ci,      \* the next commit of its list
  root,    \* the last commit made, 0 = None
  parent,  \* parent of the next commit, 0 = None
  made,    \* the commits made, in order: [tree, parent, msg, orig]
  aborted  \* an assert of mktree failed

vars == <<revs, argi, ci, root, parent, made, aborted>>

\* Lines 8-10, 41-42: the name a top-level directory gets.
SubName(x) == IF x \in DOMAIN Subs THEN Subs[x] ELSE x

\* Lines 23-29: ls-tree of a commit; of the parent of a root commit it fails
\* and prints nothing.
LsTree(c) == IF c = NoCommit THEN [x \in {} |-> x] ELSE OrigTree[c]

\* Lines 29-48: each directory wrapped in a tree holding it as "trunk",
\* listed under its new name; entries are <<name, wrapped content>>.
Rewrite(t) == {<<SubName(x), t[x]>> : x \in DOMAIN t}

\* Lines 30-31: every ls-tree line must be a directory.
MkTreeOk(t) == DOMAIN t \cap BlobNames = {}

\* Line 102 and 104 building the base from the commit itself.
BaseSourceSelf(c) == c
\* Lines 102 and 104: the base commit is made from "<commit>^".
BaseSource(c) == OrigParent[c]

\* Line 104 without parent=root.
BaseParentNone(r) == 0
\* Lines 101-104: the base of the first argument has no parent, the base of
\* a later one has the last commit made.
BaseParent(r) == r

\* Line 108 one past the commit just made.
NewHeadNext(n) == Len(made) + n + 1
\* Line 108: root and parent become the commit just made.
NewHead(n) == Len(made) + n

\* Lines 101 and 103: no commit made yet, or none yet for this argument.
NeedBase == root = 0 \/ parent = 0

\* The trees ls-tree reads for the current commit, the base's included.
TreesOk(c) == MkTreeOk(LsTree(c)) /\ (NeedBase => MkTreeOk(LsTree(BaseSource(c))))

Init ==
  /\ revs \in RevLists
  /\ argi = 1
  /\ ci = 1
  /\ root = 0
  /\ parent = 0
  /\ made = <<>>
  /\ aborted = FALSE

\* Lines 97-108: one commit of rev-list's output, with the base commit
\* first when the argument has none yet (root or parent is None).
RewriteCommit ==
  LET c        == revs[argi][ci]
      base     == [tree |-> Rewrite(LsTree(BaseSource(c))), parent |-> BaseParent(root),
                   msg |-> "DO NOT COMMIT", orig |-> BaseSource(c)]
      real     == [tree |-> Rewrite(LsTree(c)),
                   parent |-> IF NeedBase THEN Len(made) + 1 ELSE parent,
                   msg |-> "", orig |-> c]
      new      == IF NeedBase THEN <<base, real>> ELSE <<real>>
  IN  /\ ~aborted
      /\ argi <= Len(revs)
      /\ ci <= Len(revs[argi])
      /\ TreesOk(c)
      /\ made' = made \o new
      /\ root' = NewHead(Len(new))
      /\ parent' = NewHead(Len(new))
      /\ ci' = ci + 1
      /\ UNCHANGED <<revs, argi, aborted>>

\* Line 31: a top-level file in the commit (or its parent) fails the assert.
Abort ==
  LET c == revs[argi][ci]
  IN  /\ ~aborted
      /\ argi <= Len(revs)
      /\ ci <= Len(revs[argi])
      /\ ~TreesOk(c)
      /\ aborted' = TRUE
      /\ UNCHANGED <<revs, argi, ci, root, parent, made>>

\* Lines 90, 96 and 110: the next argument, with parent = None.
NextRev ==
  /\ ~aborted
  /\ argi <= Len(revs)
  /\ ci = Len(revs[argi]) + 1
  /\ argi' = argi + 1
  /\ ci' = 1
  /\ parent' = 0
  /\ UNCHANGED <<revs, root, made, aborted>>

Next == RewriteCommit \/ Abort \/ NextRev

Spec == Init /\ [][Next]_vars

-----------------------------------------------------------------------------
TypeOK ==
  /\ revs \in RevLists
  /\ argi \in 1..Len(revs) + 1
  /\ root \in 0..Len(made) /\ parent \in 0..Len(made)
  /\ \A i \in DOMAIN made : made[i].msg \in {"", "DO NOT COMMIT"}
  /\ aborted \in BOOLEAN

\* The commits made form one chain: each has the commit made just before it
\* as its parent, across arguments too, and only the first has none, so
\* the result can be replayed in order on top of HEAD.
ChainLinear ==
  \A i \in DOMAIN made : made[i].parent = i - 1

\* What "git svn commit-diff -rHEAD <parent> <commit>" (line 107) sends is
\* the commit's own change: the printed parent holds the rewritten tree of
\* the original parent, whether it is a base commit or the commit made for
\* the previous one of the list.
DiffFaithful ==
  \A i \in DOMAIN made :
    made[i].msg = "" =>
      /\ made[i].parent \in DOMAIN made
      /\ made[made[i].parent].tree = Rewrite(LsTree(OrigParent[made[i].orig]))
=============================================================================
