--------------------------- MODULE MCTDDepsClosure ---------------------------
(***************************************************************************)
(* Instantiates the closure engine for TLC: three scanned files, one       *)
(* template header and one unresolved include name.  Every include graph   *)
(* over these nodes is a possible grep output, so every shape of cycle,    *)
(* self-include and diamond over three files is checked, under every       *)
(* order in which the pipeline can deliver the files and their             *)
(* includees, for a tree of headers and for a tree of .td files.           *)
(***************************************************************************)
EXTENDS TDDepsTdLists, TDDepsResolve

CONSTANTS a, b, c, t, p

MCScanned == {a, b, c}
MCTemplates == {t}
MCPlaceholders == {p}

\* Every grep output over the model's nodes.
MCAllGraphs == [MCScanned -> SUBSET (MCScanned \cup MCTemplates \cup MCPlaceholders)]

\* A tree of .h/.cpp files, or a tree of .td files.
MCTDChoices == {{}, MCScanned}

\* The three scanned files are interchangeable when the .td set is empty or
\* holds all of them.
MCSymmetry == Permutations(MCScanned)

\* Three .td files with distinct basenames.
MCTdBase == [f \in MCScanned |-> f]

\* The include resolver over llvm with clang nested at llvm/tools/clang, as
\* the two roots: a public header and template under llvm/include, a clang
\* public header, headers in lib/ and lib/X/ (lib/X/B.h shadows lib/B.h for
\* an includer in lib/X), and a header directly under the llvm root.
MCUserSeq == <<<<"llvm">>, <<"llvm", "tools", "clang">>>>
MCAllFiles ==
  {<<"llvm", "include", "llvm", "A.h">>, <<"llvm", "lib", "B.h">>,
   <<"llvm", "lib", "X", "B.h">>, <<"llvm", "lib", "X", "B2.h">>, <<"llvm", "R.h">>,
   <<"llvm", "tools", "clang", "include", "clang", "K.h">>,
   <<"llvm", "tools", "clang", "lib", "C.h">>}
MCTmpls == {<<"llvm", "include", "llvm", "T.h.in">>}
MCTmplName == [f \in MCTmpls |-> "T.h"]
\* #include strings as grep reports them, ".." components split out.
MCRaws ==
  {<<"llvm", "A.h">>, <<"llvm", "T.h">>, <<"clang", "K.h">>, <<"B.h">>,
   <<"..", "B.h">>, <<"R.h">>, <<"lib", "B.h">>, <<"..", "..", "R.h">>,
   <<"..", "..", "lib", "B.h">>, <<"gen.inc">>}

\* Where the three scanned files lie: a public header, a header in
\* llvm/lib/X and one in the clang root.
MCPathOf ==
  [f \in MCScanned |->
     IF f = a THEN <<"llvm", "include", "llvm", "A.h">>
     ELSE IF f = b THEN <<"llvm", "lib", "X", "B2.h">>
     ELSE <<"llvm", "tools", "clang", "lib", "C.h">>]

\* Whether each file's include strings resolve as spec 4.3 says.
MCResolvedAsSpecified ==
  [f \in MCScanned |->
     \A inc \in Raws : Resolve(MCPathOf[f], inc) = SpecResolve(MCPathOf[f], inc)]

\* Lines 401-417 resolve every include string of every file pass 1 has
\* begun as spec 4.3 orders the search: public name, then the nearest
\* ancestor below the root or include directory, then a placeholder; ".."
\* in the string is normalised, and the root itself is never searched.
\* Stated once pass 1 has begun every file, which keeps it symmetric in the
\* three files.
ResolveAsSpecified ==
  Scanned \subseteq DOMAIN deps => \A f \in Scanned : MCResolvedAsSpecified[f]
=============================================================================
