----------------------------- MODULE MCTDDepsScan -----------------------------
(***************************************************************************)
(* Two roots, llvm (r1) and clang (r2), as in MCTDDepsStamps with the      *)
(* public headers one level below llvm/include:                            *)
(*   llvm/libraries/Support (y, with CMakeLists.txt)                       *)
(*   llvm/libraries/build/include (s, u)   llvm/include/llvm (z, v)        *)
(*   clang/lib (w)   clang/include/llvm (q, o)   clang/test (e, excluded)  *)
(* Tracked: a source and a header in Support, a header in libraries, a     *)
(* public header in include/llvm, a .td file in clang/lib, a header in     *)
(* build/include.  Not tracked: a source in libraries (no CMakeLists.txt), *)
(* a .h.in template and an excluded .h.cmake template in include/llvm,     *)
(* CMakeLists.txt itself, and a header in clang/test.  clang/include/llvm *)
(* holds a c.h too: both include directories give the public name llvm/c.h. *)
(***************************************************************************)
EXTENDS TDDepsScan

CONSTANTS r1, r2, x, y, z, v, s, u, w, e, q, o,
          f1, f2, f3, f4, f5, f6, f7, f8, s1, t1, t2, c1, NoPrefixVal

MCUserSeq == <<r1, r2>>
MCDirs == {r1, r2, x, y, z, v, s, u, w, e, q, o}
MCParent == (x :> r1) @@ (y :> x) @@ (z :> r1) @@ (v :> z) @@ (s :> x)
            @@ (u :> s) @@ (w :> r2) @@ (e :> r2) @@ (q :> r2) @@ (o :> q)
MCFiles == {f1, f2, f3, f4, f5, f6, f7, f8, s1, t1, t2, c1}
MCFileDir == (f1 :> y) @@ (f2 :> y) @@ (c1 :> y) @@ (f3 :> x) @@ (s1 :> x)
             @@ (f4 :> v) @@ (t1 :> v) @@ (t2 :> v) @@ (f5 :> w) @@ (f6 :> u)
             @@ (f7 :> e) @@ (f8 :> o)
MCKind == (f1 :> "src") @@ (f2 :> "hdr") @@ (c1 :> "cmake") @@ (f3 :> "hdr")
          @@ (s1 :> "src") @@ (f4 :> "hdr") @@ (t1 :> "tmpl") @@ (t2 :> "tmpl")
          @@ (f5 :> "td") @@ (f6 :> "hdr") @@ (f7 :> "hdr") @@ (f8 :> "hdr")
\* CMakeLists.txt (.txt), cfg.h.cmake (.cmake) and test/ match re_excludes.
MCExcluded == {c1, t2, e}
MCName == (r1 :> "llvm") @@ (r2 :> "clang") @@ (x :> "libraries")
          @@ (y :> "Support") @@ (z :> "include") @@ (v :> "llvm")
          @@ (s :> "build") @@ (u :> "include") @@ (w :> "lib") @@ (e :> "test")
          @@ (q :> "include") @@ (o :> "llvm") @@ (f8 :> "c.h")
          @@ (f1 :> "a.cpp") @@ (f2 :> "a.h") @@ (c1 :> "CMakeLists.txt")
          @@ (f3 :> "b.h") @@ (s1 :> "b.cpp") @@ (f4 :> "c.h")
          @@ (t1 :> "cfg.h.in") @@ (t2 :> "cfg2.h.cmake") @@ (f5 :> "D.td")
          @@ (f6 :> "e.h") @@ (f7 :> "t.h")
MCTmplName == (t1 :> "cfg.h") @@ (t2 :> "cfg2.h")
\* a.cpp is exactly as old as the -i file (st_mtime of line 50); every
\* mtime is above infile_mtime, which line 51 leaves at 0.
MCMtime == [f \in MCFiles |-> IF f = f1 THEN 1 ELSE 2]
MCInfileStat == 1
\* "llvm", "/libraries", "/Support", "/include", "/llvm", "/build",
\* "/include", "clang", "/lib", "/test", "/include", "/llvm"
MCCompLen == (r1 :> 4) @@ (x :> 10) @@ (y :> 8) @@ (z :> 8) @@ (v :> 5)
             @@ (s :> 6) @@ (u :> 8) @@ (r2 :> 5) @@ (w :> 4) @@ (e :> 5)
             @@ (q :> 8) @@ (o :> 5)
\* "${LLVM}", "${CLANG}"
MCAliased == {r1, r2}
MCAliasLen == (r1 :> 7) @@ (r2 :> 8)
=============================================================================
