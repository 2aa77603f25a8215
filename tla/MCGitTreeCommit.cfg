\* git-tree-commit over one or two ranges of a four-commit history.
CONSTANTS
  c1 = c1
  c2 = c2
  c3 = c3
  c4 = c4
  llvm = llvm
  clang = clang
  cfe = cfe
  readme = readme
  v0 = v0
  v1 = v1
  NoCommit = NoCommit
  Commits <- MCCommits
  OrigParent <- MCOrigParent
  OrigTree <- MCOrigTree
  BlobNames <- MCBlobNames
  Subs <- MCSubs
  RevLists <- MCRevLists
SPECIFICATION Spec
INVARIANT TypeOK
INVARIANT ChainLinear
INVARIANT DiffFaithful
\* The script ends after the last argument, or at a failed assert.
CHECK_DEADLOCK FALSE
