---------------------------- MODULE MCTDDepsStamps ----------------------------
(***************************************************************************)
(* Two roots, llvm (r1) and clang (r2):                                    *)
(*   llvm/libraries/Support  llvm/libraries/build/include  llvm/include    *)
(*   clang/lib                                                             *)
(* with tracked files in Support (2), libraries, build/include, include    *)
(* and clang/lib.  llvm/libraries/build is an in-tree build directory,     *)
(* named STAMPDIR when -s points at it.                                    *)
(***************************************************************************)
EXTENDS TDDepsStamps

CONSTANTS r1, r2, x, y, z, s, u, w, f1, f2, f3, f4, f5, f6

MCDirs == {r1, r2, x, y, z, s, u, w}
MCRoots == {r1, r2}
MCParent == (x :> r1) @@ (y :> x) @@ (z :> r1) @@ (s :> x) @@ (u :> s) @@ (w :> r2)
\* "llvm", "/libraries", "/Support", "/include", "/build", "/include",
\* "clang", "/lib"
MCCompLen == (r1 :> 4) @@ (x :> 10) @@ (y :> 8) @@ (z :> 8) @@ (s :> 6)
             @@ (u :> 8) @@ (r2 :> 5) @@ (w :> 4)
\* "${LLVM}", "${CLANG}", "${STAMPDIR}"
MCAliasLen == (r1 :> 7) @@ (r2 :> 8) @@ (s :> 11)
MCTracked == {f1, f2, f3, f4, f5, f6}
MCFileDir == (f1 :> y) @@ (f2 :> y) @@ (f3 :> x) @@ (f4 :> z) @@ (f5 :> w) @@ (f6 :> u)
MCRootAliases == {r1, r2}
MCRootAndStampAliases == {r1, r2, s}
=============================================================================
