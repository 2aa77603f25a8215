# TLA+ models of tddeps.py and git-tree-commit.py

This directory holds TLA+ models of the Python tools in `src/`. Most of them
cover `src/llvm/utils/tddeps/tddeps.py`. That script scans LLVM/Clang source
roots and finds every quoted `#include`. It computes per-file dependency sets
and writes a CMake fragment with two things:

- groups of sources that depend on the same generated files;
- a forest of directory "stamps" for incremental builds.

## 1. Inventory

### Components of tddeps.py

| Component | Lines | State it keeps | Operations |
|---|---|---|---|
| Command line, roots | 23-109 | `users`, `dir_names`, `includes`, `infile_mtime` | parse options, normalise roots, build the alias regex |
| Tree walker | 111-170 | `include_files`, `all_files`, `all_srcs`, `all_mtimes`, `cmake_targets`, `deps` (templates) | DFS over `subdirs`, classify each entry, collect sources of CMakeLists.txt dirs, yield the CMakeLists.txt path |
| Argument batching | 172-246 | `cwd`, `args`, `args_len` | widen `cwd` to a common ancestor, keep the command-line length under `arg_max`, emit `(cwd, relpaths)` |
| grep pipeline | 268-368 | `jobs` (at most 8 live grep processes) | spawn grep per batch, drain the oldest job, parse `path:line:text`, report files with no hit, assert exit 0 |
| Target discovery (pass 0) | 329-379 | `excluded_dir`, `cmake_target_names` | read `add_*` target names and the `TDDEPS: exclude` marker |
| Include resolver | 401-417 | reads `include_files`, `all_files_set` | public include name first, then the ancestor directories up to an include dir or root |
| Closure engine (pass 1) | 381-458 | `deps`, `xrefs` | per file: create its deps, merge analysed includees, add pending ones, assert, then push its deps to its back-references |
| TD lists | 460-473 | none | print `deps` of each `.td` file |
| Grouping | 248-264, 475-526 | `exts`, `allset`, `all_tds` | partition each target's sources by frozen deps, name groups (sha1 above 40 chars), deduplicate across targets |
| Stamps | 528-605 | `srcs_in_dir`, `all_stamps`, `root_stamps` | link every file's directory up to its root, emit stamps deepest first |
| Incremental update | 607-626 | the `-i` file | diff the new fragment with the old one, then run `--action` or copy |

### How the parts interact

The walker is a generator. The batcher consumes it, and the grep pipeline
consumes the batches. Pass 0 drives this chain to the end, so `all_files`,
`cmake_targets` and `excluded_dir` are complete before pass 1 starts. Pass 1
runs a second batcher and grep pipeline over `all_files`. It feeds each
`(file, includes)` pair through the resolver into the closure engine. All of
this shared state lives in module-level dicts that only the main thread
touches. The grep processes run concurrently but only talk through their
stdout pipes. Grouping and stamps then read the finished `deps` and
`all_mtimes`.

### What is hard

- **Order.** Files reach pass 1 in grep order. Between batches that is the
  DFS order of `os.listdir`. Inside a batch it is grep order, then the
  iteration order of the set `args_left`. Closures have to come out the same
  in every order, cycles included.
- **Closures that are still growing.** A merged closure may still hold
  pending members. Later growth reaches the includer only through the
  back-reference map `xrefs`.
- **Cycles and asserts.** A cycle closes when its last file is analysed. The
  asserts at lines 445 and 456 kill the run if the bookkeeping slips.
- **The grep protocol.** Exit status 1 means "no match". A lone file argument
  makes grep omit the file name. Two `add_*` lines in one CMakeLists.txt trip
  an assert.
- **Boundaries.** These include `arg_max` in the batcher, the 40-character
  group-name limit, and name collisions between groups.
- **Stamp order.** The early stop of the upward walk, and emission ordered by
  the length of the aliased name.

### Correctness properties per component

- Closure engine: no assert fires on a tree of headers; `deps[f]` is exactly
  the reachable frontier; `xrefs` is exact; closures do not depend on order;
  `.td` lists are complete; the only abort is on a `.td` cycle.
- Grouping: the groups partition a target's sources; two sources share a
  group iff their deps are equal; distinct groups have distinct names.
- Stamps: every directory with tracked files has a stamp chain to its root;
  the stamps form a tree mirroring containment; each stamp is emitted after
  every stamp it expands.
- Batching and grep: every file is reported exactly once with its own
  includes; no batch exceeds `arg_max`; the run does not die on a legal tree.
- Incremental update: an unchanged tree leaves the `-i` file untouched and
  does not run the action.

### Other files

`src/llvm/utils/git-svn/git-tree-commit.py` rewrites each commit of the
given revision ranges into a tree whose top-level directories become
`<name>/trunk`, with `clang` renamed `cfe`. It chains the new commits, with
synthetic `[DO NOT COMMIT]` parents at the start of each range. It talks to
a long-lived `git mktree --batch` process one request and one answer at a
time. The five `src/lldb/test` files are lldb test cases. They drive the
external debugger and are not modelled.

## 2. Modules

Each component has one module with its state as VARIABLES, one action per
step of the code, `Next` and `Spec`. Each also has an `MC` module that
gives the CONSTANTS small values for TLC, and `.cfg` files that pick the
properties. `PROJECT.json` maps every definition to the source lines it
models. The exception is `TDDepsResolve`: the resolver is a pure
function, so it is a set of operators with no state, checked against a
reference definition inside the closure run.

### TDDepsClosure and TDDepsTwoOrders (pass 1, lines 381-458)

Constants:

- `Scanned`: the files grepped in pass 1.
- `TDChoices`: the possible sets of `.td` files among them. `Init` picks one
  into the variable `tdFiles`. The MC module offers `{}` (a tree of headers)
  and all of `Scanned` (a tree of `.td` files).
- `Templates`: `*.h.in` (a `*.h.cmake` never gets here: `re_excludes` drops `.cmake` first), which get `deps = frozenset()` at walk
  time.
- `Placeholders`: include strings that resolve to nothing. Files in excluded
  directories behave the same way: they are never analysed, so they stay a
  pending leaf forever.
- `IncludeGraphs`: the possible grep outputs.

The variables are:

- `deps`, a function whose domain grows, as the dict does;
- `xrefs`, a total function where a missing key is the empty set (every key
  the code reads was created before);
- `cur` and `todo`, the file being handled and the includees its inner loop
  still has to visit;
- `aborted`.

| Action | Lines |
|---|---|
| `Begin(f)` | 387-399 |
| `IncludeMerge(inc)` | 418-432 |
| `IncludeProvisional(inc)` | 433-442 |
| `Abort` | 444-456, an assert fails |
| `Finish` | 447-458, back-reference fix-up |

Any unanalysed file can come next, and any remaining includee can come next
in the inner loop. The code's set iteration fixes one of these orders; the
model covers all of them. Include-string resolution (lines 402-417) is
abstracted: `includes[f]` is the set of nodes already resolved.

Properties:

- `NoAbort`: on a header tree the asserts of lines 445 and 456 never fire.
- `FrontierExact`: between two files, `deps[f]` is exactly the set of
  unanalysed files and unresolved names reachable through the edges seen so
  far. The code keeps this frontier, not "everything reachable". At the end
  it is the set of generated or excluded names each file needs, which is
  what grouping wants.
- `BackRefsExact`: a pending node is registered in `xrefs` with exactly the
  files that hold it. This keeps the fix-up and the assert of line 456
  sound.
- `ImplementsPass1` (refinement): the engine implements `TDDepsPass1`, an
  abstract pass that handles one whole file per step. After each step,
  every finished file holds a function of the edges seen so far: the
  frontier on a header tree, everything reachable on a `.td` tree. On a
  `.td` tree the abstract pass stops exactly when the new file reaches
  itself. The mapping (in `TDDepsClosure`) counts a file as done once its
  `Finish` has run. `Begin`, `IncludeMerge` and `IncludeProvisional` touch
  only the current file's deps, so they are stuttering steps. `Abort` is
  the abstract `Halt`. So the TDDEPS lists of a `.td` tree (lines 463-473)
  are each file's full reach, and the run dies only on an include cycle,
  whatever the grep order.

`TDDepsPass1` is the abstract pass: variables `done`, `closure`, `halted`
(with `tdFiles` and `includes`), and two actions. `Process(f)` finishes a
file and recomputes every finished file's deps over the edges of the
finished files (`DepsAfter`). `Halt(f)` stops a `.td` run when `f` reaches
itself. Its `Reached` reuses no operator of the engine, so the refinement
compares two independent definitions.

`TDDepsTdLists` adds the TD lists (lines 460-473) over the engine's
state. `EmitTdLists` is the whole loop as one step, since nothing runs
between its iterations. Once pass 1 has finished every file with no
assert failing, it drops each `.td` key from its own deps (line 470) and
writes `set(TDDEPS_<name> key deps...)` into `tdEnv`, where a later `set()`
of the same name wins. `TdBase` stands for `get_name` of the basename.
The `closure` run checks `RunSpec`, which is the engine followed by this
step. `TdListsReach` says that on a `.td` tree each file's list names the
file, then everything it reaches through the whole grep graph, whatever
the grep order.

`TDDepsTwoOrders` runs two copies of the engine over one grep output,
`INSTANCE ... WITH` renamed variables. The second copy starts when the
first is done. `SameClosures` compares their results.

**Bounds.** Three scanned files give every shape of self-include, 2- and
3-cycles, diamonds and chains. With the template and the placeholder, every
kind of node can be merged or left pending. All 32768 graphs are checked,
in every order, for both tree kinds, with symmetry over the three scanned
files. A larger file
set only repeats these shapes.

### TDDepsGroups (lines 248-264, 475-526)

The final `deps` of four sources in three targets is chosen in `Init`. The
first target has no `add_*` name and is skipped (lines 481-482). A group
name is the sequence of `_`-separated words of the stems (`GroupName`).
Words have lengths, so the sha1 branch above 40 characters is reached.
`sha1` is modelled as injective on the names of a run. Each CMake `set()`
is an update of `env`, where the last call wins, because that is what CMake
reads.

The actions are `SkipTarget`, `BeginTarget` (partition and TDDEPSET),
`EmitGroup(k)` and `EmitManaged`. `sorted()` over frozensets compares by
inclusion, which is not a total order, so `EmitGroup` takes any pending
group.

Properties:

- `GroupsCoverSources`: every source of a named target is listed in a group
  that its TDDEPSET names.
- `GroupDepsMatch`: the TDDEPS list of that group is the td names of the
  source's own deps.

### TDDepsStamps (lines 528-605)

The tree is eight directories under two roots, one of them an in-tree build
directory, with six tracked files. `LinkFile(f)` is the loop body of lines
539-562 for one key of `all_mtimes`, in any dict order. `Climb` is the
upward walk with its early stop. `EmitStamp(d)` writes the deepest pending
directory by aliased-name length (`KeyLen`, via `with_dir_names`).
`aliasOrder` is the alternative order of the alias regex (dict order),
chosen in `Init`. The keys of `all_mtimes` are the variable `mtimes`:
standalone, `Init` sets it to `Tracked`; in `TDDepsScan` it is the walk's
`allMtimes`.

Properties:

- `StampTreeMirrorsDirs`: the early stop still leaves a stamp tree that
  mirrors the directories.
- `StampDependsComplete`: once expanded by CMake, every stamp depends on
  every tracked file below its directory.

### TDDepsWalk and TDDepsScan (lines 105-170, 374, 539)

`TDDepsWalk` is `walk()`. The directory tree is given by `Dirs`, `Parent`,
`Files` and `FileDir`; the file-name regexes of lines 14-16 and 84-92 are
abstracted into `Kind` (header, .td, source, template, CMakeLists.txt,
other) and `Excluded`. Paths are built by `PathOf` (os.path.join) so that
the include prefix is `TDDepsResolve`'s `IncludePrefix`.

| Definition | Lines |
|---|---|
| `InitWalk` | 105-112: empty dicts, `subdirs = dirs[:]` |
| `VisitDir` | 113-170: pop the last directory, list it in any order, skip excluded entries, register templates and headers under the include prefix (a later entry overwrites), record mtimes, collect sources only when `CMakeLists.txt` is in the raw listing, push subdirectories, yield the directory when it has new sources |
| `Newer`, `InfileMtime` | 48-51, 145, 157: the mtime filter; line 51 is commented out, so `infile_mtime` is 0 |
| `WalkDone` | 113: the stack is empty |

Pass 0 consumes the generator but never touches the walker's state, so one
directory is one atomic step, and the stamps section starts only when the
walk is over (passes 0 and 1, the TD lists and grouping never touch
`all_mtimes`). `TDDepsScan` composes the two: `VisitDir`, then
`TDDepsStamps`'s `Next` with `mtimes <- allMtimes`.

Properties:

- `WalkListsOnce`: `all_files` lists every file at most once in every
  listdir order, which is what the assert of line 398 needs.
- `TrackedAreScanned`: every key of `all_mtimes` is in `all_files` (the
  assert of line 540).
- `WalkMatchesSpec`: once the walk ends, `all_files` is exactly the seen
  headers and the sources of the targets (spec 4.1, as a recursive `Seen`
  over the tree), `cmake_targets` maps each target to its sources, each
  target is yielded once (the assert of line 378), the templates under an
  include directory get empty deps, and `include_files` maps each public
  name of `TDDepsResolve`'s reference to its file.
- `FirstRootWins`: when include directories of both roots hold a header
  with the same public name, `include_files` maps the name to the first
  root's header (`Register` overwrites, and the last root is popped first),
  whatever the listdir order.
- `StampTreeMirrorsDirs`, `StampDependsComplete`: the stamps properties,
  now over the files the walk recorded.

**Bounds.** `MCTDDepsScan` has two roots (`llvm` and `clang`) and ten
directories: `libraries/Support` with a source and CMakeLists.txt,
`libraries` with a source and no CMakeLists.txt, `include/llvm` with a
header and two templates (`cfg.h.in`, `cfg2.h.cmake`), an in-tree
`build/include`, clang's `lib` with a `.td` file, clang's
`include/llvm` with a second `c.h` (the public name `llvm/c.h` twice), and
an excluded `test` directory with a header. Every directory holds at most three entries, so
every listdir order is enumerated; a.cpp has the -i file's mtime, the
edge of line 145's strict `>`.

### TDDepsUpdate, and repeated runs in TDDepsScan (lines 24-53, 607-626)

With `-i`, the fragment goes to `<infile>.tmp`. When `diff` finds it
different from the `-i` file, the script either runs `--action`, whose
status becomes the exit status, or runs `cp -u` over the `-i` file.
`cp -u` copies only a strictly newer file, so with one-second timestamps
a `-i` file written in the current second is left alone.

| Definition | Lines |
|---|---|
| `InitUpdate` | 24-50: `--action` given or not, an existing `-i` file (`OldOutput`) |
| `Differs` | 616: diff's exit status |
| `Update(out)` | 607-626: no difference; run the action; or `cp -u`, skipped when `sameSecond` |
| `Tick` | the clock leaves the second the `-i` file was written in |

`TDDepsScan` ends a run with `Finish` (compare `Frag`, the stamps lists and
`STAMPS_DEPENDS`, with the `-i` file). `Rerun` then starts the script again
on the same tree, with every module-level dict empty. The next run takes
any listdir order again.

`InfileConverges`: without `--action`, the `-i` file eventually holds the
fragment for good. A skipped same-second copy is caught up by a later run,
and every run writes the same fragment, so none undoes it.

**Fairness.** `WF_vars(RunStep)` covers the script's own steps, which are
a terminating single-threaded loop, plus the build running it again.
`WF_vars(Tick)` says time passes. Without `WF_vars(Tick)`, TLC finds runs
that stay in one second and never copy. That is the `cp -u` edge.

### TDDepsXgrep (lines 268-379)

`Batches` are the batches of `xargs`. `includes` (what each file really
includes) is chosen in `Init`. grep is modelled by what it prints:

- one line per include, file by file;
- the file name only when the batch has more than one file;
- exit status 1 when nothing matched.

| Action | Lines |
|---|---|
| `Launch` | 317-320 |
| `Drain` | 321-326 with 281-286, oldest job first |
| `ReadLine` | 287-301 |
| `EndLines` | 303-304 |
| `ReportNoHit(f)` | 306-308, any order of the set `args_left` |
| `Wait` | 310-311 (pass 1), 351-352 (pass 0) |
| `ReadCmakeLine` | 331-349: pass 0's parse of one `add_*` line |

**Pass 0.** `Init` picks `pass` 0 or 1. In pass 0 the batches are
`CmakeBatches` (CMakeLists.txt files), and `cmake[f]` is the sequence of
`add_*` lines grep finds in `f`: each a record of the command (`library` or
`target`), the target name, and whether it carries `TDDEPS: exclude`.
`ReadCmakeLine` models the code's order: the marker is tested first
(`TargetHit`) and the line is then skipped; otherwise line 347 asserts that
the file differs from the previous line's and is not yet registered
(`failure' = "duplicate"`), and `Pass0Register` stores the name, with
`add_llvm_target` getting the `LLVM` prefix (`RegName`). Line 351's status
assert is shared with pass 1.

Properties:

- `ReportedExactlyOnce`: every file is reported once, with its own
  includes.
- `GrepNeverAborts`: in pass 1, the assert on grep's exit status (311)
  never fires.
- `TargetNamesExact`: once pass 0 ends, the excluded directories are exactly
  the files with a marked line, and every other file with an `add_*` line is
  registered under its (prefixed) target name.
- `Pass0FailsOnlyOnInput`: pass 0 fails on a duplicate only when a file
  really holds two unmarked `add_*` lines, and on grep's status only for a
  batch with no line at all.
- `AllReported` (liveness): every file eventually reaches pass 1 unless the
  run died.

**Fairness.** `WF_vars(Next)` is justified because one thread does all the
steps, and it only blocks on a grep process that terminates.

### TDDepsResolve (lines 115-163, 401-417)

Pure operators over paths, which are sequences of components; `".."` in an
include string is the constant `DotDot`.

| Operator | Lines |
|---|---|
| `Users`, `IncDirs` | 65-75, 96-103: the roots, and the include dirs `include` and googletest's of the first root and `include` of the second |
| `IncludePrefix(dir)` | 115-120: relpath to the first include dir holding `dir`, `.` for the dir itself |
| `Public`, `KeyOf`, `PublicKey`, `IncludeFiles` | 127-137, 154-163: the public-name map `include_files`, templates under their generated name |
| `Normpath` | 412: each `..` drops the component before it |
| `Walk(dir, inc)` | 405-416: stop at an include dir or root *before* testing it, else the first `dir/inc` in `all_files_set` |
| `Resolve(f, inc)` | 401-404: the public name first, then `Walk` |

`ResolveAsSpecified` compares `Resolve` with `SpecResolve`, a set-based
reading of spec 4.3: the public name (keyed by the path relative to the
include directory, spec 4.1), else the longest ancestor strictly below the
nearest root or include directory that holds `dir/inc`, else the
placeholder. `MCTDDepsClosure` places the scanned files `a`, `b` and `c`
at paths (`MCPathOf`), computes the comparison once per file, and states it
for the state where pass 1 has begun every file, which keeps the property
symmetric in the three files. It is checked in the `closure` run, whose MC module gives an
llvm root with clang nested at `llvm/tools/clang` as the second root
(as an in-tree clang checkout is passed), public headers of both, a
template, a header that shadows another (`lib/X/B.h` and `lib/B.h`), a
header directly under the llvm root, and include strings with `..`. The engine's include graphs stay the full set of
graphs over the nodes, a superset of what resolution yields.

### TDDepsXargs (lines 172-246)

A path is a sequence of components. `commonprefix` works on characters.
The model gets this from `Common`, which gives, for two different
components, their common leading characters as a component, `PartialTok`
or `NoChars`. `ArgMax` is 16 characters and file names are 3. Both early yields (lines
216 and 231) happen, and one file name still fits, as a 255-character name
does under 32767. The directories `lib`, `lit` and `libc` share leading
characters. `Walks` are the orders
in which `dirwalker` can yield the paths.

`Step` is one iteration of the loop, split into two operators:

- `Widen` (lines 186-223): widen `cwd`, possibly yielding the batch;
- `Place` (lines 229-240): add the path, possibly yielding the batch.

`Finish` is lines 243-246. A failed assert is a state with no `Step`.

Properties:

- `XargsAssertsHold`: the asserts of lines 208, 213, 229 and 238 hold.
  It is stated as "`Step` is enabled while paths remain".
- `BatchesCoverWalk`: every path is in exactly one batch, in order.
- `BatchesFit`: every batch is non-empty, has all its paths below its
  `cwd`, and is under `arg_max`.

### GitTreeCommit (git-tree-commit.py)

git is modelled by what it returns:

- `ls-tree` gives the top-level entries of a commit, or nothing for the
  parent of a root commit;
- `mktree --batch` gives the tree it stores;
- `commit-tree` gives a fresh commit, numbered by its position in `made`.

| Action | Lines |
|---|---|
| `RewriteCommit` | 97-108, with the `[DO NOT COMMIT]` base commit of lines 101-104 when `root` or `parent` is None |
| `Abort` | 31, `assert m` on a top-level file |
| `NextRev` | 90-96, 110, next argument with `parent = None` |

The history is `c1 <- c2 <- c3 <- c4`. `c3` adds a top-level file. The
arguments are one or two ranges of that history.

Properties:

- `ChainLinear`: the commits made form one chain.
- `DiffFaithful`: each printed `commit-diff` compares a commit with a
  commit that holds the rewritten tree of its original parent.

## 3. Runs

| Run | cfg | Properties | Result |
|---|---|---|---|
| `closure` | MCTDDepsClosure.cfg | TypeOK, NoAbort, FrontierExact, BackRefsExact, ResolveAsSpecified, TdListsReach, ImplementsPass1 | pass, 904,184 states |
| `two_orders_mixed_td` | MCTDDepsTwoOrders.cfg | SameClosures | violation |
| `groups` | MCTDDepsGroups_pass.cfg | TypeOK, GroupsCoverSources, GroupDepsMatch | pass, 35,840 states |
| `groups_join_collision` | MCTDDepsGroups_join.cfg | GroupsCoverSources | violation |
| `scan` | MCTDDepsScan.cfg | TypeOK, WalkListsOnce, TrackedAreScanned, WalkMatchesSpec, FirstRootWins, StampTreeMirrorsDirs, StampDependsComplete, InfileConverges | pass, 18,800 states |
| `stamps_instree_stampdir` | MCTDDepsStamps_stampdir.cfg | StampDependsComplete | violation |
| `xgrep` | MCTDDepsXgrep_pass.cfg | TypeOK, ReportedExactlyOnce, TargetNamesExact, Pass0FailsOnlyOnInput, AllReported | pass, 93,907 states |
| `xgrep_lone_file_batch` | MCTDDepsXgrep_lone.cfg | ReportedExactlyOnce | violation |
| `xgrep_no_match_batch` | MCTDDepsXgrep_status.cfg | GrepNeverAborts | violation |
| `xargs` | MCTDDepsXargs_pass.cfg | TypeOK, XargsAssertsHold, BatchesCoverWalk, BatchesFit | pass, 1,117 states |
| `xargs_shared_root_prefix` | MCTDDepsXargs_extra.cfg | BatchesCoverWalk | violation |
| `git_tree_commit` | MCGitTreeCommit.cfg | TypeOK, ChainLinear, DiffFaithful | pass, 390 states |

Every property of a passing run has a mutant in `PROJECT.json`. A mutant is
a plausible bug in the code it models, and TLC finds that it breaks the
property.

**Deadlock.** Each of these scripts is a finite loop that really ends. It
stops after the last file, target, directory or argument, or at a failed
assert. So every cfg sets `CHECK_DEADLOCK FALSE`. In `scan` the build reruns the
script, but the clock stops once it has left the `-i` file's second. What must happen before
the end is stated as properties instead: `AllReported` for the grep pool,
and `Done`-guarded invariants elsewhere.

**Fairness.** Only `TDDepsXgrep` and `TDDepsScan` assume any, and only
because they check liveness (`AllReported`, `InfileConverges`). The other
properties are invariants.

## 4. Findings

1. **`.td`/header chains give order-dependent closures** (`two_orders_mixed_td`,
   lines 427 and 457). Line 427 tests whether the includer is a `.td` file.
   Line 457 tests whether the resolved file is one. So a header keeps an
   included `.td` file, or a `.td` file keeps an included header, only when
   it is grepped first.
2. **Group names collide** (`groups_join_collision`, line 258). Stems are
   joined with `_`, and a stem may hold `_`. So `{a.inc, b.inc}` and
   `{a_b.inc}` get one name. CMake keeps only the second
   `set(TDDEPS_<target>_<name>)`, and the first group's sources lose their
   dependencies.
3. **An in-tree stamp directory breaks emission order**
   (`stamps_instree_stampdir`, line 568). When the alias regex tries
   `STAMPDIR` first, a directory below it gets a shorter aliased name than
   its parent. The parent's `set()` then expands the child's list before it
   exists.
4. **A one-file batch loses its includes** (`xgrep_lone_file_batch`, line
   288). grep omits the file name for a single file argument. No line
   parses, and the file is reported with no includes.
5. **A batch with no match kills the run** (`xgrep_no_match_batch`, line
   311). In pass 1, grep exits 1 when no file of a batch has a quoted
   include. TLC's trace: the first batch `<<f1, f2>>` holds no include,
   both files are reported with empty sets (lines 305-310), and then
   `assert r == 0` fails. The spec says a file with no output has zero
   includes. Pass 0's assert (352) is allowed by `Pass0FailsOnlyOnInput`
   and is not part of this property.
6. **Relative roots with a shared prefix drop files**
   (`xargs_shared_root_prefix`, line 220). `commonprefix` of `clang` and
   `clang-tools-extra` is `clang`, and its dirname is `''`. Line 220 reads
   `''` as "no cwd", so the paths collected so far are never grepped.

The spec's section 8 example also disagrees with the code, with no run of
its own. The spec describes a closure as everything reachable. The code
keeps the frontier (`FrontierExact`). On `a.h <-> b.h, c.h`, every closure
the code computes is empty.

More disagreements and edges are recorded as hazards. They have no run
slot of their own; where TLC confirmed one in a variant of a model, the
hazard says how:

- **A header directly in an include directory has no public name** (line
  163). `relpath` gives `.`, and the key becomes `./Z.h` with no normpath,
  so `#include "Z.h"` misses `include_files`. Adding `llvm/include/Z.h` and
  the string `Z.h` to `MCTDDepsClosure` makes TLC report
  `ResolveAsSpecified` violated. The model's tree keeps headers one level
  below the include directory.
- **Nested roots list files twice** (line 398). With clang under llvm and
  both passed as roots (an in-tree checkout), the walk lists the clang tree
  twice. Making `r2` a child of `r1` in `MCTDDepsScan` makes TLC report
  `WalkListsOnce` violated; the model's roots are disjoint.
- **`*.h.cmake` templates are never registered** (line 129). `re_excludes`
  matches `.cmake` before the template test, so spec 4.1's templates are
  only the `.in` ones. Templates are also registered only under an include
  directory (line 136), and no build-output directory is excluded (line
  84), both against spec 4.1. `WalkMatchesSpec` states what the code does.
- **Two `.td` files with one basename share a list** (line 467).
  `TDDEPS_<name>` uses the basename only, so the later file's `set()`
  replaces the earlier one's list. In `MCTDDepsClosure`, giving `c` the
  basename of `a` (with symmetry off) makes TLC report `TdListsReach`
  violated.
- **With `--action`, the `-i` file never catches up** (line 618). The
  script runs the action instead of copying. Unless the action copies the
  file itself, every later run on an unchanged tree runs the action again,
  against spec line 97. Without the `~withAction` premise, TLC reports
  `InfileConverges` violated with `withAction = TRUE`.
- **`cp -u` on one-second timestamps** (line 620). A `-i` file written in
  the current second is not replaced. It stays stale until a run in a
  later second (`InfileConverges` needs `WF_vars(Tick)`).
- **Unnamed absolute roots crash the TD lists** (line 79). With no
  `NAME=` and no `-s`, the alias regex is `^(?P<dir>)(?P<suf>(/.*)?)$`.
  It matches any absolute path, and `dir_names['']` raises `KeyError`.
  This is string handling, which the models take as given.
- **A missing `-i` file** (line 50). `os.lstat` raises on a missing file,
  so the build must create it before the first run.
- **A template and its generated header share a name** (line 138).
  `cfg.h.in` and an in-source `cfg.h` in one directory register the same
  public name. The entry listed later wins. With `cfg.h` added next to
  `cfg.h.in` in `MCTDDepsScan`, TLC reports both "the header wins" and "the
  template wins" violated, so the outcome depends on listdir order.
- **A standalone exclusion marker is never seen** (line 356). Pass 0 greps
  only `add_` lines, so a `TDDEPS: exclude` comment on a line of its own
  never excludes its directory, against spec line 83. `TDDepsXgrep` models
  the marker as a field of an `add_*` line, so this is only noted.

## 5. Not modelled, and the plan

| Part | Why not yet |
|---|---|
| Command line and roots (23-109) | Partly: the roots and include directories (65-75, 96-103) are in `TDDepsResolve`, and `--action` and `-i` (24-50) are in `TDDepsUpdate`. The alias regex (75) and `-o`/`-v` are string handling; the models take its results (`KeyLen`, `TdBase`) as constants. |
| git author/committer copying (50-72) | Environment data that no property tells apart. |
| lldb tests | They drive an external debugger; there is no state of their own to check. |

The abstract specification of pass 1 is `TDDepsPass1`, and the `closure`
run checks that the engine refines it (`ImplementsPass1`). A further step
could feed the engine from `Resolve` over raw include strings, in place of
enumerating the resolved graphs.
