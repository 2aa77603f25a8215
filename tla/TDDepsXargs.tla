----------------------------- MODULE TDDepsXargs -----------------------------
(***************************************************************************)
(* The argument batcher of tddeps.py, xargs (lines 172-246).  It takes the *)
(* file paths of the walk one at a time and cuts them into (cwd, args)     *)
(* batches for grep: cwd is widened to a common ancestor of the batch      *)
(* (os.path.commonprefix, which works on characters, then up to two        *)
(* dirname fix-ups), args_len tracks the length of the relative paths on   *)
(* the command line, and a batch is emitted before it reaches arg_max.     *)
(*                                                                         *)
(* Paths are relative (as the roots given on the command line) and are     *)
(* sequences of components.  A string that is not a component boundary,    *)
(* as commonprefix can return, ends in the token PartialTok; "." is        *)
(* <<DotTok>>; "" is the empty sequence, which Python treats as false.     *)
(***************************************************************************)
EXTENDS Naturals, Sequences, SequencesExt, FiniteSets

CONSTANTS
  Comps,       \* path components (directory and file names)
  CompLen,     \* [Comps -> Nat]: characters of a component
  Common,      \* [Comps \X Comps -> Comps \cup {PartialTok, NoChars}]: the
               \* common leading characters of two different components
  PartialTok,  \* a leading part of a component, no component itself
  NoChars,     \* no common leading character
  DotTok,      \* "."
  NoCwd,       \* cwd = None
  Walks,       \* the possible sequences of file paths dirwalker yields
  ArgMax       \* arg_max (32767 in the code)

Files == UNION {ToSet(w) : w \in Walks}

VARIABLES
  walk,     \* the paths dirwalker yields
  pos,      \* index of the next path
  cwd,      \* cwd of the batch being built, NoCwd = None
  args,     \* paths of the batch being built
  argsLen,  \* args_len
  batches,  \* the (cwd, args) pairs yielded, in order
  done      \* dirwalker raised StopIteration and the last batch is out

vars == <<walk, pos, cwd, args, argsLen, batches, done>>

DirOf(p) == SubSeq(p, 1, Len(p) - 1)
NameOf(p) == p[Len(p)]

\* "" and "." both mean the working directory to relpath.
Strip(d) == IF d = <<DotTok>> THEN <<>> ELSE d

\* relpath(p, d) does not start with "..".
Under(p, d) == Len(Strip(d)) <= Len(p) /\ SubSeq(p, 1, Len(Strip(d))) = Strip(d)

\* len(os.path.relpath(p, d)) for p under d.
RelLen(p, d) ==
  LET r == SubSeq(p, Len(Strip(d)) + 1, Len(p))
      f[i \in 0..Len(r)] == IF i = 0 THEN 0 ELSE f[i - 1] + CompLen[r[i]]
  IN  IF r = <<>> THEN 1 ELSE f[Len(r)] + Len(r) - 1

CharCommon(x, y) == IF DotTok \in {x, y} THEN NoChars ELSE Common[<<x, y>>]

\* os.path.normpath(os.path.commonprefix([a, b])), line 190.
CommonPrefix(a, b) ==
  LET n == Min({Len(a), Len(b)})
      ks == {k \in 0..n : SubSeq(a, 1, k) = SubSeq(b, 1, k)}
      k == Max(ks)
      pre == SubSeq(a, 1, k)
      raw == IF k = Len(a) THEN a
             ELSE IF k = Len(b) THEN b
             ELSE LET c == CharCommon(a[k + 1], b[k + 1])
                  IN  IF c = NoChars THEN pre ELSE Append(pre, c)
  IN  IF raw = <<>> THEN <<DotTok>> ELSE raw

\* os.path.dirname: "x" gives "", "." gives "".
Dirname(d) == SubSeq(d, 1, Len(d) - 1)

\* Lines 195-196: up one level when path is not below the common prefix.
FixUp1(c, path) == IF Under(path, c) THEN c ELSE Dirname(c)

\* Lines 198-208 without the dirname.
FixUp2Skip(c, old) == c
\* Lines 198-208: up one level when the old cwd is not below.
FixUp2(c, old) == IF Under(old, c) THEN c ELSE Dirname(c)

\* Line 210 without the separator.
LenDeltaNoSep(n, old, c) == n * RelLen(old, c)
\* Line 210: each argument grows by "rel_old_cwd/".
LenDelta(n, old, c) == n * (1 + RelLen(old, c))

\* Lines 216 and 231 with > in place of >=.
OverflowsStrict(n) == n > ArgMax
\* Lines 216 and 231: the command line has reached arg_max.
Overflows(n) == n >= ArgMax

\* Line 218: cwd = None after the early yield.
CwdAfterFlush(c) == NoCwd

\* Lines 232-235 without args = []: the yielded paths stay in the batch.
ArgsAfterFlushKept(a) == a
\* Lines 232-235: the batch restarts empty after the yield.
ArgsAfterFlush(a) == <<>>

Init ==
  /\ walk \in Walks
  /\ pos = 1
  /\ cwd = NoCwd
  /\ args = <<>>
  /\ argsLen = 0
  /\ batches = <<>>
  /\ done = FALSE

\* Lines 186-223 of one iteration: widen cwd to cover the path's directory
\* (yielding the batch first when the longer paths reach arg_max), then
\* start a batch when cwd is None or "".  ok is FALSE when the assert of
\* line 208 or 213 fails.
Widen(fp) ==
  LET path    == DirOf(fp)
      widen   == cwd \notin {NoCwd, <<>>} /\ cwd # path
      c2      == FixUp1(CommonPrefix(cwd, path), path)
      changed == widen /\ c2 # cwd
      c3      == IF changed THEN FixUp2(c2, cwd) ELSE c2
      len1    == IF changed THEN argsLen + LenDelta(Len(args), cwd, c3) ELSE argsLen
      flush1  == changed /\ Overflows(len1)
      cwdA    == IF ~widen THEN cwd ELSE IF flush1 THEN CwdAfterFlush(c3) ELSE c3
      fresh   == cwdA \in {NoCwd, <<>>}
  IN  [ok   |-> ~changed \/ (Under(cwd, c3) /\ argsLen < ArgMax),
       cwd  |-> IF fresh THEN path ELSE cwdA,
       args |-> IF fresh THEN <<>> ELSE args,
       len  |-> IF fresh THEN 0 ELSE len1,
       out  |-> IF flush1 THEN <<[cwd |-> cwd, args |-> args]>> ELSE <<>>]

\* Lines 229-240 of one iteration, from the widened state w: add the path,
\* yielding the batch first when the path does not fit.  ok is FALSE when
\* the assert of line 229 or 238 fails.
Place(w, fp) ==
  LET lenC   == w.len + 1 + RelLen(fp, w.cwd)
      flush2 == Overflows(lenC)
      cwdD   == IF flush2 THEN DirOf(fp) ELSE w.cwd
  IN  [ok   |-> w.len < ArgMax /\ Under(fp, cwdD),
       cwd  |-> cwdD,
       args |-> Append(IF flush2 THEN ArgsAfterFlush(w.args) ELSE w.args, fp),
       len  |-> IF flush2 THEN 1 + CompLen[NameOf(fp)] ELSE lenC,
       out  |-> IF flush2 THEN <<[cwd |-> w.cwd, args |-> w.args]>> ELSE <<>>]

\* Lines 185-240: the next path of the walk.  When an assert fails the
\* script dies: no step is taken.
Step ==
  /\ pos <= Len(walk)
  /\ \E w \in {Widen(walk[pos])} : \E r \in {Place(w, walk[pos])} :
       /\ w.ok /\ r.ok
       /\ pos' = pos + 1
       /\ cwd' = r.cwd
       /\ args' = r.args
       /\ argsLen' = r.len
       /\ batches' = batches \o w.out \o r.out
  /\ UNCHANGED <<walk, done>>

\* Lines 243-246: dirwalker is exhausted; the last batch, if any.
Finish ==
  /\ ~done
  /\ pos = Len(walk) + 1
  /\ batches' = IF args # <<>> THEN Append(batches, [cwd |-> cwd, args |-> args])
                ELSE batches
  /\ done' = TRUE
  /\ UNCHANGED <<walk, pos, cwd, args, argsLen>>

Next == Step \/ Finish

Spec == Init /\ [][Next]_vars

-----------------------------------------------------------------------------
\* The directories a cwd can legally be: "." and the ancestors of the files.
RealDirs == {<<DotTok>>} \cup UNION {{SubSeq(f, 1, k) : k \in 1..Len(f) - 1} : f \in Files}

\* Characters the relative paths of a batch take on grep's command line.
CmdLen(b) ==
  LET f[i \in 0..Len(b.args)] ==
        IF i = 0 THEN 0 ELSE f[i - 1] + 1 + RelLen(b.args[i], b.cwd)
  IN  f[Len(b.args)]

TypeOK ==
  /\ walk \in Walks
  /\ pos \in 1..Len(walk) + 1
  /\ cwd \in RealDirs \cup {NoCwd}
  /\ args \in Seq(Files)
  /\ argsLen \in 0..ArgMax - 1
  /\ done \in BOOLEAN

\* The cwd widening of lines 188-218 keeps every argument below cwd, so
\* none of the asserts of lines 208, 213, 229 and 238 fires, whatever
\* order the walk yields paths in and however directory names share
\* leading characters.
XargsAssertsHold == pos <= Len(walk) => ENABLED Step

\* Every path of the walk is in exactly one batch, in walk order: the
\* batches yielded so far followed by the one being built (until line 246
\* yields it) are the paths consumed so far.
BatchesCoverWalk ==
  FlattenSeq([i \in DOMAIN batches |-> batches[i].args])
    \o (IF done THEN <<>> ELSE args)
    = SubSeq(walk, 1, pos - 1)

\* Every batch yielded is non-empty, has a cwd all its arguments are
\* below, and a command line shorter than arg_max.
BatchesFit ==
  \A i \in DOMAIN batches :
    /\ batches[i].args # <<>>
    /\ \A j \in DOMAIN batches[i].args : Under(batches[i].args[j], batches[i].cwd)
    /\ CmdLen(batches[i]) < ArgMax
=============================================================================
