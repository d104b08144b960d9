---------------------------- MODULE MCSandboxes ----------------------------
(* Small instances of Sandboxes. *)
EXTENDS Sandboxes, TLC

Trunk == [dir |-> "trunk", lp |-> TRUE]
Local == [dir |-> "trunk", lp |-> FALSE]
TwoBranches == {Trunk, Local}

\* sysbench takes Trunk, from home; dbt2 Local, from its own file in the working
\* directory; lcov either, for its file there spells the key in another way.
SomeFiles ==
  (<<"etc", "automation">> :>
     (("bzr_repo_dir" :> TRUE) @@ ("db" :> TRUE) @@ ("bzr_branch" :> Local)))
  @@ (<<"etc", "sysbench">> :> ("bzr_branch" :> Local))
  @@ (<<"home", "automation">> :> ("bzr_branch" :> Trunk))
  @@ (<<"cwd", "dbt2">> :> ("bzr_branch" :> Local))
  @@ (<<"cwd", "lcov">> :> ("branch" :> Local))

Cli(c, from, to, one) ==
  [command |-> c,
   plain   |-> [bench |-> TRUE, dryRun |-> FALSE, noPull |-> FALSE, useRoot |-> FALSE],
   bzr     |-> [branch |-> None, repo |-> FALSE, from |-> from, to |-> to, single |-> one, step |-> None],
   sandbox |-> [mysqlSandbox |-> FALSE], reports |-> [report |-> None]]
Two   == Cli("sysbench", 2, 2, TRUE)
Range12 == Cli("sysbench", 1, 2, FALSE)
Tip   == [Cli("dbt2", None, None, TRUE) EXCEPT !.plain.noPull = TRUE]
Steps == [Cli("lcov", 1, LastOne, FALSE) EXCEPT !.bzr.step = 2, !.bzr.branch = Local]
Root  == [Cli("valgrind", 1, 1, TRUE) EXCEPT !.plain.noPull = TRUE, !.plain.useRoot = TRUE, !.bzr.repo = TRUE]
Word  == Cli("sloc", HeadWord, 2, FALSE)
NoBench == [Two EXCEPT !.plain.bench = FALSE]
Mixed == {Two, Range12, Tip, Steps, Root, Word, NoBench}

Symmetric == Permutations(Runs)
=============================================================================
