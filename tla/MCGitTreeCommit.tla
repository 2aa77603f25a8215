--------------------------- MODULE MCGitTreeCommit ---------------------------
(***************************************************************************)
(* A linear history c1 <- c2 <- c3 <- c4 over the top-level directories    *)
(* llvm and clang, where c3 adds a top-level file README; the arguments    *)
(* are one or two ranges of that history, as rev-list prints a range       *)
(* oldest first.                                                           *)
(***************************************************************************)
EXTENDS GitTreeCommit, TLC

CONSTANTS c1, c2, c3, c4, llvm, clang, cfe, readme, v0, v1

MCCommits == {c1, c2, c3, c4}
MCOrigParent == (c1 :> NoCommit) @@ (c2 :> c1) @@ (c3 :> c2) @@ (c4 :> c3)
MCOrigTree ==
  (c1 :> (llvm :> v0))
  @@ (c2 :> ((llvm :> v0) @@ (clang :> v0)))
  @@ (c3 :> ((llvm :> v1) @@ (clang :> v0) @@ (readme :> v0)))
  @@ (c4 :> ((llvm :> v1) @@ (clang :> v1)))
MCSubs == clang :> cfe
MCBlobNames == {readme}

History == <<c1, c2, c3, c4>>
\* The commits of a range i..j, oldest first.
Ranges == {[k \in 1..j - i + 1 |-> History[i + k - 1]] : i \in 1..4, j \in 1..4}
            \ {<<>>}
MCRevLists == {<<r>> : r \in Ranges} \cup {<<r, s>> : r, s \in Ranges}
=============================================================================
