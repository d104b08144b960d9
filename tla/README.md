# A TLA+ model of the Drizzle test and automation tools

The repository holds the programs that test the Drizzle database server, not
the server itself: two test runners (`tests/kewpie.py` and
`tests/test-run.pl`), a stress driver (`tests/stress-test.pl`) and the
`drizzle-automation` benchmark pipeline.  What they have in common, and what
is hard in all of them, is the handling of things they do not control:
server processes that start late or die, port numbers and id files shared with
other runs on the same host, threads that share counters, a results database
shared by several pipelines.  The modules in this directory model that part.

## 1. Inventory

### 1.1 Build-thread ids: `tests/lib/dtr_unique.pl`
State: one file of lines `id pid`, an flock on a second file, the ids of the
process.  Operations: request an id, request and wait, release in `END`.
Several `test-run.pl` processes of one host interact only through the file.
Hard: read-modify-write by several processes, owners killed without `END`, a
kill between `truncate` and `close`, pids used again.
Correct when two running processes never have the same id, nobody's line is
lost, and a waiting process is served.

### 1.2 Ports from a build-thread id: `tests/test-run.pl` 1098-1218
State: the ports of one run.  Operations: `set_dtr_build_thread_ports`,
`gimme_a_good_port`, `gimme_a_good_base_port`.  Ports are probed, and bound
only later by the servers.  Correct when two runs never choose the same port.

### 1.3 Port files: `tests/lib/sys_mgmt/port_management.py`
State: files `/tmp/dbqp_port_<user>_<port>`, listening sockets.  Operations:
get a block of ports, check, assign, free.  Hard: check and assign are two
steps for several kewpie processes; wrap-around at 32767; leftovers of crashes.

### 1.4 Server: `tests/lib/server_mgmt/server.py`, `drizzled.py`, `mysqld.py`
State: `status`, `pid`, `failed_test`, `need_reset`, port block, data directory
and its snapshot; outside Python, the server process.  Operations: start (with
a bounded wait), ping, stop (with a bounded wait, then kill), snapshot,
restore, reset, cleanup.  Hard: a server that answers only after the wait
has given up, that dies at any time, that does not stop when told.

### 1.5 Server manager: `tests/lib/server_mgmt/server_management.py`
State: the list of servers of each executor.  Operations: `request_servers`
(failed servers reset, list grown or shrunk, options compared, data directory
loaded, cluster joined, all started), stop, clean up.  Hard: ports of retired
servers, options changed behind a running server, partial failures.

### 1.6 Test executor and manager: `tests/lib/test_mgmt/`, `tests/lib/modes/`
State: the list of tests, the current test's status and output, the results.
Operations: get a test, prepare servers, execute, record, report, and the
clean-up of `kewpie.py`.  Hard: statuses left over from the previous test,
servers that survive the run.

### 1.7 `test-run.pl`: `run_tests`, `run_testcase`, `dtr_process.pl`, `dtr_timer.pl`
State: master and slave servers with their pids, two timers that are child
processes, the test program.  Operations: start and stop servers around each
test, wait for any child, timers, expected crashes, kills.  Hard: children that
end in any order, a timer racing the test, pids of reaped children.
Correct when no server is lost sight of or started twice, no data directory is
restored under a server, a test runs with the servers it asked for and within
its time, and the exit status says what happened.

### 1.8 `stress-test.pl`
State: counters shared by threads under locks, the flag `exiting`, per-thread
lists of tests.  Operations: the threads' loop, limits, abort on error.
Hard: limits that are checked under one lock and counted under another.

### 1.9 `drizzle-automation`: the runner, `runner.py`, `lib/options.py`, `lib/config.py`, `lib/sandbox.py`
State: the options of a run, merged from configuration files and the command
line; a repository directory with a root branch, a branch for each command
and one, the sandbox, for each revision.  Operations: configure, branch and
pull with bzr, compute the range of revisions, execute the command in each sandbox.
Hard: runs share the directories, bzr is killed half way, an old branch is in the way.
Correct when a command runs only on the revision it is meant for, for the
whole range, with the options the user gave.

### 1.10 `drizzle-automation sysbench`: `sysbench/run.py`, `lib/util.py`
State: the results database, the server's process and data directory.
Operations: start, prepare, run every concurrency level, log, stop.
Hard: run ids are read from the database long before they are written; a
server that dies between two iterations; a pipeline's kill of every server.

### 1.11 The other commands: `crashme/`, `dbt2/`, `drizzleslap/`, `randgen/`, `sqlbench/`, `lcov/`, `sloc/`, `doxy/`, `server/`, `builder/`
State: the servers on three ports, their data directories, result files in
`/tmp` and in the tree, the database.  Operations: each command is a fixed
sequence of builds, starts, tests and stops through one of three server adapters.
Hard: what a session that failed leaves behind meets the next one.
Correct when a session tests its own fresh server, reports failures, and logs its own
results.

### 1.12 Reports: `reports/`
State: the database, read by four or five queries while others write to it.
Operations: find the run, find the last 5 and 20 runs, aggregate, show.
Correct when the sections of a report agree, although they are queried one after the other.

### 1.13 Left aside
Code-tree detection, environment and symlinks of kewpie, test collection from files
(`dtr_cases.pl`, `lib/modes/*/*_test_management.py`), `tests/qp_tests`, test data,
`test_tools/` (vendored randgen and sql-bench), `ez_setup.py`, `playbooks/`, `tools/`.

## 2. The modules

| module | models | extends / uses |
|---|---|---|
| `IdAllocator` | what unique ids promise (abstract) | |
| `UniqueId` | `dtr_unique.pl` and the processes that call it | implements `IdAllocator` |
| `ServerManager` | one run of `kewpie.py` | |
| `PortManager` | `port_management.py`, several runs of several users | |
| `DtrRunner` | one run of `test-run.pl` | |
| `StressTest` | one run of `stress-test.pl` | |
| `RunOptions` | the options of a `drizzle-automation` run | |
| `Sandboxes` | several `drizzle-automation` runs that share a repository directory | `RunOptions` |
| `BenchPipeline` | several `drizzle-automation sysbench` pipelines | |
| `Commands` | sessions of the other commands, one after the other | `RunOptions` |
| `Reports` | a report while runs are being logged | |
| `UniqueIdProofs`, `PortManagerProofs`, `StressTestProofs`, `SandboxesProofs`, `BenchPipelineProofs`, `ServerManagerProofs`, `DtrRunnerProofs` | theorems | the module named |
| `AutomationProofs` | theorems | `Reports`, `Commands` |
| `MC...` | instances of each for the model checker | the module named |

Operators named as mutants in a comment are not part of a model: each is a
plausible mistake in the definition that follows it, and shows that a property
would notice.

### 2.1 `UniqueId`
One state per process, named by its pid: waiting for the flock, reading the
file line by line (`ReadLine` asks `ps` about the pid of each line), choosing
(`TakeId`, `NoneVacant`), holding the truncated file with the new lines still in
its buffer (`WriteBack` is the close), sleeping before a retry, running, and the
same three steps in `END`.  `Kill` is SIGKILL at any of these points: the
kernel drops the flock and the buffered lines.  New processes may come for ever.  A pid can be used again, by
another test-run.pl (`Start`) or by something else (`ForeignExit` ends it).
`canUsePs` is the variable of the same name: `ps` may work or not.

### 2.2 `ServerManager`
The runner is a single thread, so `pc` walks through `executor.execute`
(`GetTestCase`, `RepeatTest`), `request_servers` (`CheckServerStatus`,
`AllocateServer`, `RetireServer`, `ServersCounted`, `EvaluateServer`,
`LoadDatadirs`), `start_servers` (`Launch`, `Answered`, `StartTimeout`),
the test (`RunTest`), the resets of the native executors and the clean-up of
`main`.  What runs concurrently is outside Python: server processes, which boot
(`Boot`) or die while they boot, die under a test, stop answering (`Hang`, the
phase "mute") and are seen only by pings.  A server that outlives its shutdown is
killed, or, where the code raises an exception first, left (`Lingers`).
The record `proc[b]` is the process on port block `b` and notes which directory it was
started on (`place`) and whether that directory has since been removed (`home`).  Its
field `missed` is not the program's: the last ping of a `start()` or a `stop()` found
the process without an answer.  Results and outputs of tests are left out.
`want` and `opts` follow the aliasing of Python lists: `server_options` may be
the very list of the test's requirements (`sameList`).

### 2.3 `PortManager`
Each run looks at the port files, asks netstat, and creates the file: three
actions, between which any other run may do anything.  Files left behind by killed runs are
part of the initial states, and `Restart` leaves more of them.  `Incremented` is the
search's wrap-around, which happens only after a busy port.  `raced` is not a variable of the
program: it collects the ports that two searches have found free at the same time,
which nothing in the code prevents.

### 2.4 `DtrRunner`
`pc` is the place in `run_testcase`; `proc` are the children of the runner by
pid, timers and drizzletest included; `pid`, `timer`, `tester`, `killing` and
`hard` are what the runner remembers of them.  A dead child is a zombie until one
of the four places that call `waitpid` collects it: `CollectExit` and `KillHard`
(`dtr_check_stop_servers`), `RecordDeadChildren`, `StartFails`
(`sleep_until_file_created`) and `WaitForAny` (the loop in `spawn_parent_impl`).
The options of a master and its time zone are one value, since a difference of
either restarts it; a slave is restarted by every test.  Servers are told to stop by
admin clients, for which the runner waits without a limit: `ClientsEnd` is their end.  `killed` is not a
variable of the program: it records that a server had to be killed.

### 2.5 `StressTest`
The main thread (`RunningStage`, `CreateThread`, `StopCreating`, `JoinThreads`)
and the threads' loop, one action per critical section of
`test_counters_lock`: check a limit, count a test, get it, save the counters,
execute.  `EditTestsFile` is the user's edit under `--check-tests-file`, which adds
tests to the list or, in runs where `conf.edits` is "any", removes some; `removed`
remembers the latter for the properties.

### 2.6 `RunOptions` and `Sandboxes`
`Locations` is the order in which the parser is given the files of the three
directories, for the tool and for its command; `Merged` is the parser's rule (a later
file replaces a key), `Lookup` the
choice between an option of the command line and the spellings of its key,
`Refused` everything that ends a run before its first step, and `Job` what is left
of the options.  A run then walks through `RootSandbox.create`,
`get_revision_range` and, for each revision, `Sandbox.create` and the command.
A directory is absent, partial (bzr has not finished with it) or a whole branch,
whose log is the sequence of its revision ids; `upstream` is the branch at its
public address, which grows and is rewritten (`Commit`).  `Kill` leaves things as they
are.  `seen` is not a variable of the program: it collects the histories that
the root branch has held since the run pulled it, which is what "the right revision" can mean.

### 2.7 `BenchPipeline`
A pipeline is the sequence of calls of `runner.py` and `sysbench/run.py`;
pipelines share a host's port and process table (`StopAll`, `Stopped`,
`Listening`) and the database (`db`).  The effects of a kill on others are part of the
action that kills: whoever is talking to a server that is stopped loses
its run (`LoseRuns`).  Servers under the profiler are processes of another name, which
`stopAll` does not find (`Named`).  A configuration is inserted in one step, which takes the next id,
and committed in another (`CommitConfig`); whoever looks for it meanwhile finds none,
and of several any.  A pipeline has one server here: one that a revision under the profiler leaves
behind is taken over by the next revision's start, which ends on the busy port.

### 2.8 `Commands`
`Script` gives the steps of each command, in the order of its source, and each
kind of step is an action; `at` is the step a session has reached.  A step the options leave out
is skipped, so that a script has the same places for all options; the loops of
dbt2, drizzleslap and randgen over their tests go back (`Again`), and `round` is the test they are at.
A step that exits ends the session where it is: nothing is cleaned up.  `proc` is the
process on each of the three ports, with the session that started it, whether it is a valgrind process (`stopAll` does not find those), and whether its data
directory was removed under it; `worn` are the data directories a test has used;
`files` the result files, which are named after the revision only, so that a
later session of the same revision meets them (all sessions here are of one
revision); `rows` what is logged, each with the session whose file it came from.
Waits are left out: whether a server answers in time is a choice.

### 2.9 `Reports`
One report (`FindRun` or `OwnRun`, `Ranges`, `QueryFew`, `QueryMany`, `QueryAll`, `Show`), one
query an action, and the benchmarks that log runs, and results to any of them, in between.
Versions are sequences, because the lookup compares them by `LIKE`: a pattern whose end is
open and in which a branch may have wildcards (`Matches`).  A section is reduced to which
runs each of its lines aggregates over.  Nothing is logged when the report has
ended: that would not change it.

## 3. What is checked

A type invariant is part of every run with invariants, as a conjunct of
`Consistent` or as `TypeOK`; for `Sandboxes` and `Reports` it is a conjunct of the invariant that
is proved.  `CHECK_DEADLOCK FALSE` is said in all of them because every one of
these programs ends.

| run | question | bounds |
|---|---|---|
| `uid_runs` | do running processes have different ids, does the file know every owner, is `IdAllocator` implemented, is a waiting process served? | 3 pids, 2 ids, any number of processes one after the other |
| `km_safety` | is a server process ever lost sight of, deprived of its directory or ports; does a test run with what it asked for? | 4 tests of 5 kinds, up to 2 servers, 3 port blocks; no late or hanging servers |
| `km_live` | which server processes are left when a run ends, and does it end? | 2 tests, twice, up to 2 servers, which may answer late, hang and crash; `--verbose`, ctrl-C anywhere but in the clean-up |
| `km_ports` (violation) | are all port files gone after the clean-up? | 2 tests, up to 3 servers |
| `ports` | are blocks disjoint, locked and full, does a search end, though searches overlap? | 2 runs, 2 users, 4 ports, blocks of 2, 2 attempts, 1 other listener |
| `dtr` | are servers lost, doubled or robbed of their data; does the exit status say what happened; does the run end? | 2 tests of 3 kinds, a master and a slave, 1 crash, timers that run out anywhere |
| `dtr_limits` (violation) | is a test's time limit watched while it runs? | 1 test |
| `stress` | are limits overshot by less than the number of threads, is every counted test run, do ids increase, does the run end? | 2 threads, limits to 2, lists to 2, tests added to the list or removed from it |
| `sandboxes` | is a command run on its own revision, for the whole range, on the branch the most local file names? | 2 runs of 7 command lines, 5 files in the 3 directories, histories of 3 commits |
| `bench` | are results logged under the right run and configuration, is nothing lost, is the data fresh when levels rise? | 2 pipelines of 4 jobs, 2 hosts, 2 levels or 2 revisions or 2 iterations |
| `commands` | does a test talk to a fresh server of its own, does a failure show, are the logged results the session's, is nothing left after success? | 2 sessions of 14 jobs, up to 2 tests each |
| `reports` | do the sections of a report agree while others log? | 5 reports, 3 runs, 2 branches of which one is a pattern, 2 revisions, last 1 and last 2 |

Why these are enough.  *Unique ids*: a race needs two processes, a stale line a
third whose pid comes back; two ids make the difference between "mine" and
"another's".  *Servers*: the list has to grow, shrink and grow again, which three
tests do, and a failure needs a test after it.  Late and hanging servers break what `km_safety` checks
(section 3.3), so they have a run of their own, whose invariant says what is left of it.
*Ports*: blocks of two on four ports collide at the wrap.  *dtr*: the interplay of a test with the one before it;
the second test can follow a pass, a failure with `--force`, a timeout or a crash.
*Stress*: overshoot and lost updates need two threads between check and count.
*Sandboxes*: one run makes what another finds, and two revisions need the command
branch twice; a history of three commits can be rewritten at its end.
*Bench*: two pipelines that share a host and a database, or only a database.
*Commands*: what a session leaves matters to the next, so two; the jobs take every
command, adapter and option at least once.  *Reports*: with "last 5 and 20" scaled to 1 and 2,
three runs are more than either.

Where a theorem states the same property (section 4), the bounds of the run do not matter.

### 3.1 Fairness
`UniqueId` assumes that a process that can take its next step takes it, that
the flock goes to everyone who keeps asking (strong fairness of `Lock`; the kernel queues
the waiters), and that test runs and other programs end.  This does not serve everyone: a waiting
process sleeps and asks again, without a queue, so that newcomers may take each id that
is given back, for ever.  `WaiterServed` therefore says: if from some time on no test-run.pl
is started, a waiting process is served, unless `ps` does not work or a reused pid
keeps a stale line alive.  All three are behaviours of the code.
`ServerManager` assumes it of the runner, a single process, and of booting servers, unless they hang,
which either come up or end; the wait of `start()` is bounded in any case.  Nothing is assumed of the
client of a test, for which kewpie.py waits without a limit
(`dtr_test_execution.py:114`): `Terminates` says that the run ends or waits for it.
The wait for the client that shuts a server down (`server.py:324`) has no limit either; that client is
taken to end.  The 100 seconds `stop()` then waits for the server are one step.
`DtrRunner` assumes it of the runner and of the testcase timer, a process that sleeps, but not
of drizzletest, of servers told to shut down, or of the admin clients that tell
them.  For the last the runner waits without a limit, and for drizzletest too if its timer was lost
(section 3.2): `Terminates` names both waits, and says that a run which does not end is in one of
them.  `StressTest` assumes it of each thread.  Its runs are those with a limit that can be reached
(`Bounded`): in random mode no loop is counted, and once tests are removed a thread past the end of its
list may close no more loops, so that a limit on loops is none.  `PortManager` assumes it of each search.  The modules of `drizzle-automation` state no liveness: a
command waits for benchmark programs without a limit.

### 3.2 What the violations show
* `km_ports`: `server.cleanup()` stands after the loop of `stop_server_list`, so of
  several retired servers only the last gives its ports back.
* `dtr_limits`: `dtr_record_dead_children` collects timers together with servers and
  forgets them.  A timer that runs out while servers are being stopped no longer
  limits anything, against the usage text.

### 3.3 Other divergences
Met while modelling and not kept as runs.  Those in the models can be seen by changing a
constant; the models contain the others as they are in the code, and no
property claims more than the code does.

Ids, ports, threads:
* a process killed between `truncate` and `close` of the id file leaves it empty, and
  the next requester takes an id that is in use (`KillAtWrite = TRUE` in
  `uid_runs`: `IdExclusion` fails);
* two overlapping searches for ports can take the same one, for nothing serialises the check and the
  assignment.  The invariants of `PortManager` say how far this goes: only ports that two searches have
  found free at the same time (`raced`) are ever shared or lose their file.  The code's
  comment is "not *really* sure how well this works with multiple dbqp.py instances";
* INT in the initialization stage of stress-test.pl is forgotten by the running stage;
* a thread that stands past the end of a list from which tests were removed counts tests that it does not
  run: `TypeOK` lets its index pass the list, and `CountedAreRun` says "at most" instead of "exactly" then.  With a
  limit on loops only, such a run may never end (`Bounded` leaves it out), nor does the model empty the list, or
  shorten the one of the initialization stage;
* the `TestID` that a stress thread logs is read some time after the test was counted: two threads may
  log the same one (`OwnIdsIncrease` is about one thread).

kewpie.py:
* with `--repeat`, a test that loads a data directory passes `--restart` to drizzled
  the second time, for the server's option list is the test's (`Repeat = 2` in `km_safety`:
  `RunsAsAsked` fails).  Option lists that come from a suite's `master.cnf`
  are shared by its tests (`dtr_test_management.py:127,150-153`), so that the
  same can happen to another test of the suite, without `--repeat`; the model's tests have
  lists of their own.  Two tests later the option can match one that is added for a
  directory, and the directory of a running server is removed: the attempt to prove `Consistent` for
  every `Repeat` led to it (`Repeat = 2`, `MaxTests = 3`, one server, and the tests
  `T(<<{}>>, {1})` and `T(<<{"restart"}>>, {})`: `NoOrphan` fails);
* server processes can outlive the run, "our biggest concern" of `kewpie.py:114`: one that answers only after
  `start()` has given up, or after ctrl-C ended its wait (`tried_start`, meant for that, is
  commented out); one that does not answer when it is to be stopped, which is marked as stopped
  without a kill (`server.py:343-345`); one that outlives its shutdown under `--verbose`, for the
  warning before the kill names a variable that does not exist (`server.py:334-336`).  All of
  this happens in `km_live`, where `OnlyMissedAreLeft` says that no others are left, and
  it breaks what `km_safety` checks (`LateStart`, `Hangs` or "wait" in `InterruptAt`:
  `Consistent` fails).  A second ctrl-C, during the clean-up, is left out: what it cuts short is left;
* a test whose servers failed to start is recorded with the output of the test before it
  (`test_execution.py:132`); outputs are not in the model;
* `status` is a memory of the last start or stop; only a failed test makes the
  manager look again.

test-run.pl:
* a server that dies under a test does not fail it, although the comment above the wait says so,
  and an `.expect` file of a test that ended before its crash makes a later crash look expected;
* ^C while test-run.pl waits for servers to stop finds no pids, for they were forgotten
  when the shutdown was sent (add "stop" to `InterruptAt`: `Consistent` and `AllStopped` fail);
* `dtr_timer_stop` signals a pid that may have been collected, and could by then belong to
  something else; the models do not use pids again while the runner remembers them.

drizzle-automation, runner:
* two runs of the same command, branch and revision share a sandbox (and, if they
  benchmark, its data);
* `HEAD` is never replaced by the revision number: the string is in lower case by then;
* the sandbox of a revision is `branch-command-command-rN`, the documentation says otherwise;
* a key that two files spell differently can come from the less local file (`LocalOverrides`
  is about keys that the files spell alike; `lcov` in `sandboxes` has the other case);
* `--force` changes nothing, as commands exit instead of returning False; `valgrind` is
  accepted and has no runner; without BZR the runner stops at a name that is not defined
  (`repo_dir`), and so does `--use-root-sandbox` without `--no-pull`; every revision of a range then
  runs in the same tree;
* a killed `bzr branch` leaves a directory that ends every later run.

drizzle-automation, commands:
* levels that do not rise run on used data: only a rise clears it (`FreshIfRising` says so);
* one configuration may have two ids: it is looked for, inserted and committed in three steps, and then
  selected without an order.  `Consistent` holds what remains (`ConfigsServe`): every run's id is that of a
  committed row;
* `stopAll` is `killall -9 lt-drizzled`, and a server under the profiler is a valgrind process.
  One that a session leaves, because it was cut short, answers the next session's tests:
  `FreshServer` excepts exactly that (`Leftover`);
* dbt2 with the profiler always exits, for it profiles before any start (`dbt2/run.py:153`);
* the mysqld adapter's `stopAll` returns at once; `crash_check` and `setProfiler` are
  missing from the older adapters; their `start()` returns nothing, which a checked start takes for
  a failure, leaving the server behind;
* the start under the profiler is not checked (`lib/util.py:179`): a server that answers only after the
  directory was cleared for randgen's second test is taken for the one started then, which ended
  on the busy port, against "so we have a clean start each run" (`randgen/run.py:159`).
  `FreshServer` excepts it (`MayBeLate`); the proof of section 4.6 found it;
* `server_crash_check` (`drizzleslap/run.py:225`) is not defined; sqlbench mails to
  sysbench's recipients; a drizzleslap report without a stored run has no run id;
* doxy does not import `datetime` and always fails; sloc fails on a list of
  languages that is continued on a second line; lcov's average divides by zero without plugins;
* with `with_show_status`, the second counter of a level violates the primary key of
  `bench_show_status_history` and ends the pipeline;
* `getNextRunId` fails on an empty MySQL database (`int('NULL')`).

drizzle-automation, reports:
* the lookup of a run is `LIKE 'trunk-1%'`, which finds revision 12 too, and every branch that a `_`
  or `%` in the name matches: the report is about the newest of them (`Matches`);
* it returns False if there is none, callers look for None: instead of "Could not find the last
  run ID ... Exiting" (`reports/run.py:77-85`) there is a report on run 0, or, in drizzleslap, `IN ()`, an error
  of syntax.  With both, no property says that the report is about the run that was asked for: it need not be;
* sqlbench and drizzleslap join on the name only, so that a test with several levels is
  compared with any of them (`Trends` excepts it).

## 4. What is proved

### 4.1 `UniqueIdProofs`
For any set of pids, any range of ids and any number of processes:

* `TypeCorrect`: `TypeOK` is an invariant, whatever the kills.
* `IdExclusionHolds`: without kills between truncate and close, no two processes
  have the same id.
* `FileHolds`: under the same assumption the file records every owner, and a
  release removes only the releaser's line.
* `AllocatorImplemented`: every step of `UniqueId` is a step of `IdAllocator` or
  leaves the owners alone.

`IdExclusion` is not inductive: nothing in it says why a requester that is about to take an id
may believe that it is free.  The invariant `IInv` adds the chain of reasons: who holds the
flock and that only the holder is inside (`SemInv`), who may have an id (`IdInv`),
that outside a rewrite the file has a line for every owner (`FileInv`), that an id
the holder has read and not found taken has no owner (`ScanInv`), that the buffer
of a writer holds what the file lost (`WriteInv`), and what a release has read
(`ReleaseInv`).  Each action that touches the file or the flock has its lemma; the
others leave `IInv` alone.  The refinement adds `OwnersKnown`: the
abstract owner of an id is exactly the process that has it.

The assumptions are those of `ConstantsAssumption` (bounds are integers, `NoPid` is no pid,
`NoId` no id) and `~KillAtWrite`, which section 3.3 shows to be needed.

### 4.2 `PortManagerProofs`
For any limits of the ports, any size of block, any number of runs and users, any leftovers:

* `PortsInRange`: `TypeOK`, which bounds the ports a late wrap can reach.  `TInv`
  adds that the next port is below `MaxPort` plus the ports the block has
  (`SearchInv`): without it the bound is not inductive.
* `PortsExclusive`, `PortsLocked`, `BlocksFull`: `Exclusive`, `HeldLocked`
  and `FullBlocks`, however searches overlap, each but for the ports in `raced`.  `XInv` adds that
  a port which a search has found free, and which another run holds nevertheless, is in
  `raced`, for whoever locked it did so while the search was under way (`Checked`); and
  that any other block has as many ports as it is long (`Counted`).  `Exclusive` needs `HeldLocked` (a
  held port is seen by a search), and `HeldLocked` needs `Exclusive` (a run that frees its ports
  unlocks nobody else's), so they are proved together.

The only assumption is `PortAssumption` (the preferred port lies between the limits,
blocks and attempts are not empty).

### 4.3 `StressTestProofs`
For any number of threads, any limits and lists (`StressAssumption`):

* `CountersBounded`: `TypeOK`, whose bound on the counters is what has to be proved, whatever is done to the
  list: a limit on tests also limits the loops, for a thread closes at most one for each test it counts
  (`Closing`), and, until a test is removed, a limit on loops also limits tests.  `Progress` says that no more tests were counted than the closed loops hold and
  the threads have got since (`Got`); `Overrun`, that the loops pass their limit by no more than the threads that have
  closed one and not checked since (`Through`).  Such a thread has got nothing, so that in all
  there are at most `MaxLimit * MaxLen * Threads + Threads`.  It assumes a longest list
  (`LongestAssumption`).  Runs in which tests may be removed have a limit on tests.
* `LimitsHold`: `Overshoot`.  A counter can pass its limit only by what is under way, so the
  invariant bounds the counter plus the number of threads that stand between their
  check and their count; the step from check to count moves one thread and no sum.
* `CountedTestsAreRun`: `CountedAreRun`.  The tests executed and those of the threads that are
  past the count are no more than the tests counted, and as many until a test is removed (`Pending`);
  at the end there is no such thread.
* `IdsIncrease`: `OwnIdsIncrease`, from the fact that the shared counter has passed every id a
  thread has logged when the thread has counted its next test.

### 4.4 `SandboxesProofs`
For any number of runs, command lines, branches, files and histories (`SandboxAssumption`):

* `RevisionsAreRight`: `RightRevision`.  The invariant follows the revision through the
  three branches: what the root branch holds was seen (`RootSeen`), what the command branch holds
  once a run has made or pulled it was seen too (`MadeSeen`), and the sandbox is a cut of
  that.  It needs that nobody else is putting something into the same sandbox when bzr
  finishes (`OneMaker`, the theorem `SandboxesHaveOneMaker`), because bzr refuses a
  directory that exists.
* `LocalFilesOverride`: `LocalOverrides`, that a run takes its branch from the most local of the files
  that name one, where `MoreLocal` is said of directories and files, and `Locations` is the
  code's sequence of them: the proof goes through its places, and
  a sequence in another order (the mutant `AsSearched`) fails it.
* `RangeIsWhole`: for all a, b and steps, the sequence `RevisionRange(a, b, step)` holds every
  step-th number from a to b, in rising order; a fact of integer division.
* `RangesAreCovered`: `RangeCovered`.  `Placed` says that what a run has executed, the
  revision it is at, and what is to come are together the range.

### 4.5 `BenchPipelineProofs`
For any pipelines, hosts, jobs and databases (`BenchAssumption`, `DatabaseAssumption`), every property of the run
`bench`: `TypesAndConfigs` (`Consistent`), `ResultsHaveTheirRun`, `DoneIsComplete`, `LevelsAreFresh`, and
`RunsHaveOwnIds`, which no run checks.

A pipeline has 23 control points and 23 actions, and most of them do not matter to the
database.  The proof reduces the points to the stages of a revision (setting up, working,
logging, level done, done, exit) and the actions to nine kinds of step between stages.  For the
configurations, `Inserting` says that only a pipeline that is about to commit has a row that is not
committed, and `Configs` that no insert has an id beyond the number of inserts: a pipeline therefore inserts once,
and takes a committed id, whoever inserts the configuration meanwhile.  `ResultsAttributed` is
not inductive: a later iteration adds a row without adding a run, so the invariant says that
the run of a pipeline that has begun to log is in the database (`Started`), under an id
nobody else has written (`RunIds`).  `Complete` needs to know which rows are there in the middle of a level
(`Progress`); `FreshIfRising` follows the data directory of a pipeline that is alone on its host from
`Clear` to the run (`Fresh`), through servers that die on the way.

### 4.6 `AutomationProofs`
Of `Reports`, for any branches, revisions, keys and number of runs (`ReportsAssumption`):

* `SectionsWiden`: `Trends`.

Everything the benchmarks log between two queries only adds to the database (`Grown`).  The
invariant therefore states what each query has left in terms that adding does not
change: the ranges are of runs that are like the one asked (`Ranged`), and each line of a section is
over runs that had a result of its key (`FewDrawn`, `ManyDrawn`, `AllDrawn`).  That a
key has one level can cease to hold, but not become true, which is the right direction.

Of `Commands`, for any jobs, options, numbers of tests and sessions (`CommandsAssumption`), every property
of the run `commands`:

* `HostLeftFree` (`Consistent`), `CleanStart` (`FreshServer`), `FailedIsTold` (`HonestExit`),
  `LoggedIsMeasured` (`OwnResults`).

None of them is inductive, as none says what a session has done so far.  The place in the script does:
the tables `Cleared`, `Settled` and `Gone` name, for each command and port, the places at which the
directory is clear, a server that was started has answered, and the server has been told to
stop.  That the scripts respect the tables, step by step and from the end of a loop back to its
start, is a lemma for each command (`CrashmeRespects` to `RandgenRespects`, together
`ScriptsRespect`) about no state at all; that each action does to its port what the tables rely
on is another (`Behaves`).  `Servers` follows from the two.  Whose server it is only
follows behind `stopAll` (`OwnServer`): a server there is of this session or one that `stopAll`
did not find (`Leftover`), and one that lost its directory is about to end or is the late one of the profiler (`Late`).

For the results, a few steps have a place of their own (`Landmarks`): the tests, the end of the loop, the
verdict, the logging.  `Counted` says that a failed test of this session is still to be
counted, or has been counted and the verdict is still to come; `OwnFiles`, which result files are
the session's own by now and that none is missing for a test that is done (`Done`);
`Recorded`, that up to its place nothing is logged for the session, and behind it everything.

### 4.7 `ServerManagerProofs`
For any number of port blocks, servers and tests, and whatever options and data directories the tests ask
for (`ConstantsAssumption`), every invariant of the runs `km_safety` and `km_live`:

* `NothingIsLost` (`Consistent`) and `PortsAreHeld`, from the invariant
  `IInv`: servers have ports of their own (`Apart`), whose files they hold (`Held`); outside of
  a start every process is up and its server has its pid (`Known`), so that `stop()` never
  raises.  `NoOrphan` is the hard part, because `load_datadir` stops nothing.  The proof
  has to follow why nothing runs there: in dtr mode `--restart` is added to the test's list, no
  server has it (`AllPlain`), so the lists differ and the server is reset; in native mode a server
  of an earlier test is stopped or marked as failed, and those that are marked are reset
  first (`Rested`).
* `TestsRunAsAsked` (`RunsAsAsked`), from `JInv` on top of it: dirty data comes with a failed server, loaded data with one that needs a reset (`Clean`), a process has
  the options of its server (`RunsOwn`), and a server that has been compared fits the test (`Readied`,
  `Serves`), whose lists are as collected until then (`Unread`).
* `OnlyTheMissedAreLeft` (`OnlyMissedAreLeft`), of every behaviour of the model, from an invariant of its own
  (`KInv`).  Until the run has ended, a process is on the ports of a server of the list that the loop of
  `stop()` calls, if one is under way, has not come to, or it has missed its last ping (`Tracked`); a mark stays
  until the process is gone.  The clean-up then reaches the end of the list, where all that is left
  has a mark, or ends in an exception, before any port file is given up.

Each is proved from what it needs, and no more; section 3.3 says what happens otherwise:

| | no start gives up on a server that comes up later, no server hangs | no interrupt in a start | no `--repeat` |
|---|---|---|---|
| `NothingIsLost` | yes | yes | yes |
| `ProcessesAreKnown`, `PortsAreHeld` | yes | yes | |
| `TestsRunAsAsked` | yes | | yes |
| `OnlyTheMissedAreLeft` | | | |

(`Outwaits`, `Undisturbed`, `Once`.)  `ProcessesAreKnown` is `NothingIsLost` without `NoOrphan`.  An
interrupt in a start leaves the invariant, but leads to the clean-up, where no test runs
(`CleaningUp`, `NoneAfter`).  With `--repeat` only the two facts that rest on the server's options go:
`home` in `Known`, and `AllPlain`.

### 4.8 `DtrRunnerProofs`
For any number of slaves, kinds of tests, tests and crashes, with timers that run out anywhere, every
invariant of the run `dtr`: `ServersAreKnown` (`Consistent`), `TestsGetTheirServers` (`RightServers`),
`DataIsLeft` (`DataUnderServers`), `SuccessIsHonest` (`HonestExit`), `NoneIsLeftRunning`
(`AllStopped`).

The runner knows its children by pids only, so the invariant is a correspondence: what a
record says is true of the child (`Records`), and every child is in a record or among those about
to be killed (`Family`).  A pid of a timer that was collected as a dead child stays
recorded: the proof rests on the model's rule that a remembered pid is not used again (section
3.3).  On top of it, `Gone` says
at which steps which servers have been told to stop, so that no directory is made anew under one;
`AsAsked` says which servers of the test are as it asks for; `Counted` relates the results to the
tests begun.

They assume `Roomy`, that there are more pids than the runner can remember (one for each
server, two timers, drizzletest), so that a fork always finds one (`APidIsLeft`: a count
of what is remembered).  `ServersAreKnown` and `NoneIsLeftRunning` assume `Uninterrupted` too, that ^C
does not come while servers are being stopped, where their pids are forgotten (section 3.3).  The
others hold even then: the invariant is lost, but the runner only stops what it still knows and ends,
without success (`Abandoned`: `AbandonStep` enters it, `AbandonedStays` says nothing leaves it).

### 4.9 Only model-checked
All liveness: `Terminates` of two modules, `SearchEnds`, `Ends`, `WaiterServed`.  Fairness is out of the
prover's reach.  Every invariant and every action property of the runs has a theorem.

## 5. What is not modelled
The list in section 1.13: it is directory scans, lookups and vendored code, without state that
more than one actor touches.  Ports computed from a build-thread id
(`test-run.pl` 1098-1218) are arithmetic on one number; exclusion of the ids is
`UniqueId`.

In the modelled programs: debuggers and valgrind, cluster joins of
mysqld (native tests), `--extern`, `--start-and-exit` of test-run.pl, leftovers of
earlier runs killed by `dtr_kill_leftovers`, `--check-testcases`, masters beyond the first
(no test uses a second one), the text of reports and mails, averages, and the benchmark programs
themselves, of which only success, failure and the death of their server are modelled.
`dtr_kill_leftovers` decides by pid files and ports what it may kill; a model would have to
make up the processes it finds.
