----------------------------- MODULE RunOptions -----------------------------
(* What a drizzle-automation run is told: lib/config.py merges the           *)
(* configuration files, lib/options.py adds the command line, and runner.py  *)
(* decides from both whether and what to run.                                *)
EXTENDS Integers, Sequences

CONSTANT None        \* an option that is not given

Benchmarks    == {"crashme", "dbt2", "drizzleslap", "randgen", "sqlbench", "sysbench"}
Reported      == {"dbt2", "drizzleslap", "sqlbench", "sysbench"}
ValidCommands == Benchmarks \cup {"doxy", "lcov", "sloc", "valgrind", "report"}

\* Revisions that are words: "last:1" stands for the revno of the root branch;
\* "head" stays a word, for get_revision_range replaces "HEAD" in a string that
\* it has just put in lower case.
LastOne  == -1
HeadWord == -2

\* A command line, as far as the runner's own decisions look at it, by groups of
\* options.  branch is None or [dir, lp]: the branch's directory, and whether it
\* has an lp: address.  from and to are the ends of --bzr-revision, the same for
\* a single revision.
Or(S) == S \cup {None}
PlainOptions == [bench : BOOLEAN, dryRun : BOOLEAN, noPull : BOOLEAN, useRoot : BOOLEAN]
BzrOptions(Branches, Revisions) ==
  [branch : Or(Branches), repo : BOOLEAN, from : Or(Revisions \cup {LastOne, HeadWord}),
   to : Or(Revisions \cup {LastOne, HeadWord}), single : BOOLEAN, step : Or(Nat \ {0})]
SandboxOptions == [mysqlSandbox : BOOLEAN]
ReportOptions  == [report : Or(Reported)]
\* The options that the commands look at, not the runner.
ServingOptions ==
  [server : {"drizzled", "mysqld"}, build : BOOLEAN, force : BOOLEAN, profiler : BOOLEAN,
   validator : BOOLEAN, store : BOOLEAN, mail : BOOLEAN, rsync : BOOLEAN]
CommandLines(Commands, Branches, Revisions) ==
  [command : Commands, plain : PlainOptions, bzr : BzrOptions(Branches, Revisions),
   sandbox : SandboxOptions, reports : ReportOptions]
-----------------------------------------------------------------------------
\* process_config: the files that are read, by directory and name, in the order of
\* locations[].  The names are those of the command, and "automation", shared by all.
AsSearched(command) ==   \* a mutant of Locations: the order in which one would look for a key
  <<<<"cwd", command>>, <<"home", command>>, <<"home", "automation">>,
    <<"etc", command>>, <<"etc", "automation">>>>
Locations(command) ==
  <<<<"etc", "automation">>, <<"etc", command>>, <<"home", "automation">>,
    <<"home", command>>, <<"cwd", command>>>>
Places == {"etc", "home"} \X (ValidCommands \cup {"automation"}) \cup {"cwd"} \X ValidCommands

\* parser.read skips a file that is not there; a key of a later file replaces the
\* same key, in the same spelling, of an earlier one.
Merged(files, command) ==
  LET Here    == {i \in 1 .. 5 : Locations(command)[i] \in DOMAIN files}
      File(i) == files[Locations(command)[i]]
      Last(k) == CHOOSE i \in Here : /\ k \in DOMAIN File(i)
                                     /\ \A j \in Here : k \in DOMAIN File(j) => j <= i
  IN  [k \in UNION {DOMAIN File(i) : i \in Here} |-> File(Last(k))[k]]

\* The spellings of a key in [defaults].
RepoKeys   == {"bzr-repo-dir", "bzr_repo_dir", "repo-dir", "repo_dir", "repository-dir", "repository_dir"}
BranchKeys == {"bzr-branch", "bzr_branch", "branch", "branch-nick", "branch_nick"}

\* processOptions: the command line's value, or that of whichever spelling the
\* dictionary happens to list first.
Lookup(given, keys, cnf) ==
  IF given # None THEN {given} ELSE {cnf[k] : k \in keys \cap DOMAIN cnf}

\* setProcessingMode
IsBzr(cli) == ~cli.sandbox.mysqlSandbox

\* What ends a run before its first step: the usage is printed, or something that
\* is required is missing.
NotACommand(cli) == cli.command \notin ValidCommands
NoRepository(cli, cnf) == ~cli.bzr.repo /\ RepoKeys \cap DOMAIN cnf = {}
NoBranch(cli, cnf) == Lookup(cli.bzr.branch, BranchKeys, cnf) = {}
NoBenchConfig(cli) ==
  \/ cli.command \in Benchmarks /\ ~cli.plain.bench
  \/ cli.command = "report" /\ (cli.reports.report = None \/ ~cli.plain.bench)
NoDatabase(cnf) == "db" \notin DOMAIN cnf

\* A dry run ends here too, and so does the report command, which has done its
\* work.  Without BZR the runner looks for repo_dir, which nothing has set.
Refused(cli, cnf) ==
  \/ NotACommand(cli) \/ NoBenchConfig(cli) \/ NoDatabase(cnf)
  \/ IsBzr(cli) /\ (NoRepository(cli, cnf) \/ NoBranch(cli, cnf))
  \/ cli.plain.dryRun \/ cli.command = "report" \/ ~IsBzr(cli)

\* bzr_revision or 'last:1', bzr_revision_step or 1
Default(value, otherwise) == IF value = None THEN otherwise ELSE value
Job(cli, branch) ==
  [command |-> cli.command, branch |-> branch,
   from |-> Default(cli.bzr.from, LastOne), to |-> Default(cli.bzr.to, LastOne),
   single |-> cli.bzr.single, step |-> Default(cli.bzr.step, 1),
   noPull |-> cli.plain.noPull, useRoot |-> cli.plain.useRoot]
=============================================================================
