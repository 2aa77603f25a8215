---------------------------- MODULE MCTDDepsXargs ----------------------------
(***************************************************************************)
(* Paths under the relative roots llvm and clang (and clang-tools-extra),  *)
(* with directories lib, lit and libc whose names share leading            *)
(* characters, walked in every order of up to four files.  arg_max is 16   *)
(* characters so that both early yields happen, one file name (3           *)
(* characters) still fits, as 255-character names do under 32767.          *)
(***************************************************************************)
EXTENDS TDDepsXargs

CONSTANTS L, C, X, lib, lit, libc, a, b, c, d, e, g

MCComps == {L, C, X, lib, lit, libc, a, b, c, d, e, g}
MCCompLen == (L :> 4) @@ (C :> 5) @@ (X :> 17) @@ (lib :> 3) @@ (lit :> 3)
             @@ (libc :> 4) @@ [n \in {a, b, c, d, e, g} |-> 3]

\* Common leading characters of names at the same depth: "lib"/"lit" share
\* "li", "lib" is the start of "libc", "clang" of "clang-tools-extra".
MCShared == (<<lib, lit>> :> PartialTok) @@ (<<lit, lib>> :> PartialTok)
            @@ (<<lit, libc>> :> PartialTok) @@ (<<libc, lit>> :> PartialTok)
            @@ (<<lib, libc>> :> lib) @@ (<<libc, lib>> :> lib)
            @@ (<<C, X>> :> C) @@ (<<X, C>> :> C)
MCCommon == [p \in MCComps \X MCComps |->
               IF p \in DOMAIN MCShared THEN MCShared[p] ELSE NoChars]

\* Sequences of up to n distinct paths of S.
WalksOf(S, n) == UNION {{w \in [1..k -> S] : \A i, j \in 1..k : i # j => w[i] # w[j]}
                          : k \in 0..n}

MCPaths == {<<L, lib, a>>, <<L, lit, b>>, <<L, libc, c>>, <<C, d>>, <<L, e>>}
MCWalks == WalksOf(MCPaths, 4)

\* clang and clang-tools-extra side by side.
MCPathsExtra == {<<L, lib, a>>, <<C, d>>, <<X, g>>}
MCWalksExtra == WalksOf(MCPathsExtra, 3)
=============================================================================
