------------------------------ MODULE Commands ------------------------------
(* The commands of drizzle-automation that test or measure a server or its   *)
(* source: crashme, dbt2, drizzleslap, randgen, sqlbench, doxy, lcov and     *)
(* sloc, one session (a call of execute) after the other on one host.  A     *)
(* command is a sequence of steps, most of which start and stop servers      *)
(* through an adapter; a step that fails ends the session where it is, and   *)
(* what it leaves is found by the next one.                                  *)
EXTENDS RunOptions, FiniteSets

CONSTANTS
  Jobs,         \* what a session may be asked: [command, old, tests, options]
  MaxSessions   \* bound

ASSUME CommandsAssumption ==
  /\ MaxSessions \in Nat \ {0}
  /\ Jobs \subseteq [command : {"crashme", "dbt2", "doxy", "drizzleslap", "lcov", "randgen", "sloc",
                               "sqlbench"},
                     old : BOOLEAN, tests : Nat \ {0}, options : ServingOptions]

VARIABLES
  job, session, at,  \* the session's job, number and place in its script
  round,             \* which of its tests a command that repeats them is at
  over,              \* "no", "done" (execute returned True) or "exit"
  busy, failed,      \* is a test running; fail_tests
  proc,              \* the process on each port
  worn,              \* ports whose data directory a test has used
  files,             \* result files: [command, test, session]
  rows,              \* of the results database: [command, session, test, of]
  bad                \* sessions with a failed test (for checking only)

commandsVars == <<job, session, at, round, over, busy, failed, proc, worn, files, rows, bad>>
-----------------------------------------------------------------------------
\* 9306, 9307 and 10000
Ports == {"main", "validator", "mysql"}
Port(j) == IF j.options.server = "mysqld" THEN "mysql" ELSE "main"
Serverless == {"doxy", "lcov", "sloc"}
PortsOf(j) == IF j.command \in Serverless THEN {}
              ELSE {Port(j)} \cup {p \in {"validator"} : j.command = "randgen" /\ j.options.validator}

\* Which adapter: revisions before 950 have drizzleadmin.
Adapter(j) == IF j.options.server = "mysqld" THEN "mysqld" ELSE IF j.old THEN "olddrizzled" ELSE "drizzled"
CanProfile(j) == Adapter(j) # "olddrizzled"   \* setProfiler
CanCheck(j)   == Adapter(j) = "drizzled"      \* crash_check
\* start() of the other adapters returns None, which is taken for a failure.
Told(j, up) == Adapter(j) = "drizzled" /\ up

NoProcess == [state |-> "none", by |-> 0, lost |-> FALSE, valgrind |-> FALSE]
-----------------------------------------------------------------------------
\* The steps of each command, in order; one that the options leave out is
\* skipped, and "again" goes back to the first step of the loop over the tests.
Step(d, p)       == [do |-> d, port |-> p]
Main(j, d)       == Step(d, Port(j))
MainIf(c, j, d)  == Step(IF c THEN d ELSE "skip", Port(j))
Validator(j, d)  == Step(IF j.options.validator THEN d ELSE "skip", "validator")

Crashme(j) ==
  <<Main(j, "ask"), MainIf(j.options.build, j, "build"), Main(j, "stopAll"), Main(j, "clear"),
    Main(j, "start"), Main(j, "test"), Main(j, "stop")>>

SqlBench(j) ==
  <<MainIf(j.options.build, j, "build"), Main(j, "stopAll"), Main(j, "clear"), Main(j, "start"),
    Main(j, "createOrStop"), Main(j, "ask"), Main(j, "test"), MainIf(j.options.store, j, "log"),
    Main(j, "stop"), MainIf(j.options.mail, j, "mail")>>

Dbt2(j) ==
  <<MainIf(j.options.build, j, "build"), Main(j, "stopAll"), Main(j, "clear"),
    MainIf(j.options.profiler, j, "profile"), Main(j, "ask"), Main(j, "startOrExit"), Main(j, "load"),
    Main(j, "stop"), Main(j, "workload"), Main(j, "again"), MainIf(j.options.store, j, "log"),
    MainIf(j.options.mail, j, "mail")>>

DrizzleSlap(j) ==
  <<Main(j, "ask"), MainIf(j.options.build, j, "build"), Main(j, "stopAll"), Main(j, "clear"),
    Main(j, "startOrExit"), Main(j, "createOrCheck"), MainIf(j.options.store, j, "ask"),
    Main(j, "removeFile"), Main(j, "countedTest"), Main(j, "stopIfUp"), Main(j, "clear"),
    Main(j, "start"), Main(j, "createOrLeave"), Main(j, "again"), Main(j, "verdict"), Main(j, "stop"),
    MainIf(j.options.store, j, "log"), MainIf(j.options.mail, j, "mail")>>

RandgenThen(j, last) ==
  <<Main(j, "ask"), MainIf(j.options.build, j, "build"), Main(j, "stopAll"), Main(j, "clear"),
    Validator(j, "clear"), Validator(j, "start"), Validator(j, "createOrStop"),
    Main(j, "start"), Main(j, "createOrStop"), MainIf(j.options.profiler, j, "profile"),
    Main(j, "countedTest"), Main(j, "stopIfUp"), Main(j, "clear"), Main(j, "start"),
    Main(j, "createOrStop"), Validator(j, "stopIfUp"), Validator(j, "clear"), Validator(j, "start"),
    Validator(j, "createOrStop"), Main(j, "again"), Main(j, "stop"), last, Main(j, "verdict")>>
RandgenLeaving(j) == RandgenThen(j, Main(j, "skip"))   \* a mutant of Randgen: the validator stays
Randgen(j) == RandgenThen(j, Validator(j, "stop"))

\* lcov builds and tests a drizzled; sloc counts, and always logs; doxy fails at
\* once: its first line needs a module that it does not import.
Lcov(j) ==
  <<Main(j, "reset"), MainIf(j.options.build /\ j.options.server = "drizzled", j, "build"),
    Main(j, "measure"), MainIf(j.options.rsync, j, "rsync"), MainIf(j.options.store, j, "average"),
    MainIf(j.options.store, j, "log")>>
Sloc(j) == <<Main(j, "measure"), Main(j, "scrape"), Main(j, "log")>>
Doxygen(j) == <<Main(j, "doxy")>>

Script(j) == CASE j.command = "crashme"     -> Crashme(j)
               [] j.command = "sqlbench"    -> SqlBench(j)
               [] j.command = "dbt2"        -> Dbt2(j)
               [] j.command = "drizzleslap" -> DrizzleSlap(j)
               [] j.command = "randgen"     -> Randgen(j)
               [] j.command = "lcov"        -> Lcov(j)
               [] j.command = "sloc"        -> Sloc(j)
               [] j.command = "doxy"        -> Doxygen(j)
-----------------------------------------------------------------------------
\* From get_profile_options on, the adapter starts the server under the profiler
\* (dbt2-run-workload starts its own).
Here == Script(job)[at].do
P    == Script(job)[at].port
Profiling  == Here # "workload" /\ P = Port(job) /\ \E n \in 1 .. at : Script(job)[n].do = "profile"
Process(s) == [state |-> s, by |-> session, lost |-> FALSE, valgrind |-> Profiling]
Up(p) == proc[p].state = "up"      \* ping
\* A process that finds another on its port ends, unless that one goes first.
Launched(there) ==
  CASE there.state = "none"     -> {NoProcess, Process("starting"), Process("up")}
    [] there.state = "stopping" -> {NoProcess, Process("starting"), Process("up"), there}
    [] OTHER                    -> {there, [there EXCEPT !.state = "up"]}
-----------------------------------------------------------------------------
CommandsInit ==
  /\ job \in Jobs /\ session = 0 /\ at = 1 /\ round = 1 /\ over = "exit" /\ busy = FALSE /\ failed = 0
  /\ proc = [p \in Ports |-> NoProcess] /\ worn = {} /\ files = {} /\ rows = {} /\ bad = {}

Doing(d) == over = "no" /\ ~busy /\ Here = d
Advance ==
  /\ at' = at + 1 /\ over' = IF at = Len(Script(job)) THEN "done" ELSE "no"
  /\ UNCHANGED <<job, session, round>>
Exit == over' = "exit" /\ UNCHANGED <<job, session, at, round>>
Onward(ok) == IF ok THEN Advance ELSE Exit
Put(p, q)  == proc' = [proc EXCEPT ![p] = q]
Stopping(p) == Put(p, [proc[p] EXCEPT !.state = "stopping"])
TestsKept  == UNCHANGED <<busy, failed, files, rows, bad>>

NewSession ==
  /\ over # "no" /\ session < MaxSessions /\ session' = session + 1
  /\ job' \in Jobs /\ at' = 1 /\ round' = 1 /\ over' = "no" /\ failed' = 0
  /\ UNCHANGED <<busy, proc, worn, files, rows, bad>>

Skip == Doing("skip") /\ Advance /\ UNCHANGED <<proc, worn>> /\ TestsKept

\* The next test of the loop, if there is one.
Loops == {"countedTest", "workload"}
Again ==
  /\ Doing("again") /\ UNCHANGED <<proc, worn>> /\ TestsKept
  /\ \/ round = job.tests /\ Advance
     \/ /\ round < job.tests /\ round' = round + 1 /\ UNCHANGED <<job, session, over>>
        /\ at' \in {n \in 1 .. at : Script(job)[n].do \in Loops}

\* build: a failed make is tried again after a clean and a reconfiguration.
Builds(force, first, making, second, again) == (force => first) /\ (making \/ (second /\ again))
Build ==
  /\ Doing("build") /\ UNCHANGED <<proc, worn>> /\ TestsKept
  /\ \E first, making, second, again \in BOOLEAN :
       Onward(Builds(job.options.force, first, making, second, again))

Try(d) == Doing(d) /\ UNCHANGED <<proc, worn>> /\ TestsKept /\ \E ok \in BOOLEAN : Onward(ok)
Ask    == Try("ask")

\* killall -9 lt-drizzled, which is not the name of a process under the
\* profiler; mysqld's stopAll is a return.
OfDrizzle == job.options.server = "drizzled"
StopNone ==   \* a mutant of StopAll
  Doing("stopAll") /\ OfDrizzle /\ Advance /\ UNCHANGED <<worn, proc>> /\ TestsKept
StopAll ==
  /\ Doing("stopAll") /\ OfDrizzle /\ Advance /\ UNCHANGED worn /\ TestsKept
  /\ proc' = [p \in Ports |-> IF p = "mysql" \/ proc[p].valgrind THEN proc[p] ELSE NoProcess]
StopAllMySQLd ==
  Doing("stopAll") /\ ~OfDrizzle /\ Advance /\ UNCHANGED <<worn, proc>> /\ TestsKept

\* rm -rf of the data directory, whoever has it open.
Lost(p) == [proc[p] EXCEPT !.lost = proc[p].state # "none"]
Clear ==
  /\ Doing("clear") /\ P # "mysql" /\ worn' = worn \ {P} /\ TestsKept
  /\ Advance /\ Put(P, Lost(P))
\* bootstrap: a server that reads SQL and ends; what answers on the port is
\* another one, and is stopped.
Bootstrap ==
  IF Up(P) THEN \/ Advance /\ Stopping(P)
                \/ Exit /\ Put(P, NoProcess)
           ELSE Advance /\ Put(P, Lost(P))
ClearMySQLd ==
  /\ Doing("clear") /\ P = "mysql" /\ TestsKept
  /\ \/ worn' = worn \ {P} /\ Bootstrap
     \/ Exit /\ UNCHANGED <<worn, proc>>

\* start: a server that does not answer in time may still come up.
Start ==
  /\ Doing("start") /\ Advance /\ UNCHANGED worn /\ TestsKept
  /\ \E q \in Launched(proc[P]) : Put(P, q)
StartOrExit ==
  /\ Doing("startOrExit") /\ UNCHANGED worn /\ TestsKept
  /\ \E q \in Launched(proc[P]) : Put(P, q) /\ Onward(Told(job, q.state = "up"))

\* drop_and_create_test_database, and what is done when it fails: stop (which
\* exits itself if nothing answers); crash_check and stop; server_crash_check,
\* a name that nobody has defined.
Create(onFailure) ==
  /\ Doing(onFailure) /\ UNCHANGED worn /\ TestsKept
  /\ \/ Up(P) /\ Advance /\ UNCHANGED proc
     \/ /\ Exit
        /\ IF Up(P) /\ (onFailure = "createOrStop" \/ (onFailure = "createOrCheck" /\ CanCheck(job)))
             THEN Stopping(P) ELSE UNCHANGED proc
CreateDatabase == \E f \in {"createOrStop", "createOrCheck", "createOrLeave"} : Create(f)

\* get_profile_options: stop, and start under the profiler.
Profile ==
  /\ Doing("profile") /\ UNCHANGED worn /\ TestsKept
  /\ \/ ~Up(P) /\ Exit /\ UNCHANGED proc
     \/ Up(P) /\ ~CanProfile(job) /\ Exit /\ Stopping(P)
     \/ /\ Up(P) /\ CanProfile(job) /\ Advance
        /\ \E q \in Launched([proc[P] EXCEPT !.state = "stopping"]) : Put(P, q)

Stop ==
  /\ Doing("stop") /\ UNCHANGED worn /\ TestsKept
  /\ IF Up(P) THEN Advance /\ Stopping(P) ELSE Exit /\ UNCHANGED proc
\* ping or crash_check, then stop: the server may die in between.
StopIfUp ==
  /\ Doing("stopIfUp") /\ UNCHANGED worn /\ TestsKept
  /\ \/ ~Up(P) /\ Advance /\ UNCHANGED proc
     \/ Up(P) /\ Advance /\ Stopping(P)
     \/ Up(P) /\ Exit /\ Put(P, NoProcess)
-----------------------------------------------------------------------------
Tests == {"load", "test", "countedTest"}
BeginTest ==
  /\ \E d \in Tests : Doing(d)
  /\ busy' = TRUE /\ worn' = worn \cup PortsOf(job)
  /\ UNCHANGED <<job, session, at, round, over, failed, proc, files, rows, bad>>

ResultOf(s, n) == [command |-> job.command, test |-> n, session |-> s]
Ending == busy /\ busy' = FALSE /\ UNCHANGED <<proc, worn, rows>>
\* crash-me and run-all-tests end the session if they fail, or if their result
\* file, which they make anew, tells of a failed test.
EndTest ==
  /\ Ending /\ Here = "test" /\ UNCHANGED failed
  /\ LET others == {f \in files : f.command # job.command}
         result == {ResultOf(session, 1)} IN
     \/ Advance /\ files' = others \cup result /\ UNCHANGED bad
     \/ Exit /\ files' \in {files, others, others \cup result} /\ bad' = bad \cup {session}
\* dbt2-drizzle-load-db.
EndLoad ==
  /\ Ending /\ Here = "load" /\ UNCHANGED <<failed, files>>
  /\ \/ Advance /\ UNCHANGED bad
     \/ Exit /\ bad' = bad \cup {session}
\* gentest.pl and drizzleslap are counted; gentest.pl is only believed if the
\* server still answers.
Believed == job.command = "randgen" => Up(P)
PassTest ==
  /\ Ending /\ Here = "countedTest" /\ Believed /\ Advance
  /\ files' = files \cup {ResultOf(session, round)} /\ UNCHANGED <<failed, bad>>
FailTest ==
  /\ Ending /\ Here = "countedTest" /\ Advance
  /\ failed' = failed + 1 /\ bad' = bad \cup {session} /\ UNCHANGED files
\* The other adapters have no crash_check.
CheckFails ==
  /\ Ending /\ Here = "countedTest" /\ ~Believed /\ ~CanCheck(job)
  /\ Exit /\ UNCHANGED <<failed, bad, files>>

\* dbt2-run-workload starts and stops the server itself, in a directory for its
\* results that has been removed before.
Workload ==
  /\ Doing("workload") /\ UNCHANGED <<busy, failed, rows>>
  /\ worn' = worn \cup {P}
  /\ LET others == {f \in files : f.command # "dbt2" \/ f.test # round} IN
     \/ /\ Advance /\ UNCHANGED <<proc, bad>>
        /\ files' = others \cup {ResultOf(session, round)}
     \/ /\ Exit /\ files' = others /\ bad' = bad \cup {session}
        /\ \E q \in Launched(proc[P]) : Put(P, q)

-----------------------------------------------------------------------------
\* lcov: the coverage of each directory is found in what the test suite left;
\* the average over no plugin is a division by zero.
ResetCounters == Try("reset")
Rsync         == Try("rsync")
Average       == Try("average")
\* make lcov, which runs the test suite; sloccount.
Results(j) == {[command |-> j.command, test |-> n, session |-> session] : n \in 1 .. j.tests}
Measure ==
  /\ Doing("measure") /\ UNCHANGED <<proc, worn, busy, failed, rows>>
  /\ LET others == {f \in files : f.command # job.command} IN
     \/ Advance /\ files' = others \cup Results(job) /\ UNCHANGED bad
     \/ Exit /\ files' \in {files, others, others \cup Results(job)} /\ bad' = bad \cup {session}
\* A list of languages that is continued on the next line ends in a comma, and
\* what is behind the comma is no language=count.
Scrape ==
  /\ Doing("scrape") /\ UNCHANGED <<proc, worn>> /\ TestsKept
  /\ \E continued \in BOOLEAN : Onward(~continued)
Doxy == Doing("doxy") /\ Exit /\ UNCHANGED <<proc, worn>> /\ TestsKept
-----------------------------------------------------------------------------
KeepFile ==   \* a mutant of RemoveFile: the csv file of the last session is added to
  Doing("removeFile") /\ Advance /\ UNCHANGED <<proc, worn, busy, failed, rows, bad, files>>
RemoveFile ==
  /\ Doing("removeFile") /\ Advance /\ UNCHANGED <<proc, worn, busy, failed, rows, bad>>
  /\ files' = {f \in files : f.command # "drizzleslap"}

VerdictOfLast ==   \* a mutant of Verdict: one failed test is let pass
  Doing("verdict") /\ Onward(failed <= 1) /\ UNCHANGED <<proc, worn>> /\ TestsKept
Verdict == Doing("verdict") /\ Onward(failed = 0) /\ UNCHANGED <<proc, worn>> /\ TestsKept

\* The run, then its results one by one; an SQL error exits.  Sloc's rows are
\* those of a revision: the next count of it replaces them.
ToLog == {f \in files : f.command = job.command /\ f.test \in 1 .. job.tests}
Log ==
  /\ Doing("log") /\ UNCHANGED <<proc, worn, busy, failed, files, bad>>
  /\ \E some \in SUBSET ToLog :
       /\ rows' = {r \in rows : job.command = "sloc" => r.command # "sloc" \/ \A f \in some : f.test # r.test}
                  \cup {[command |-> job.command, session |-> session, test |-> f.test, of |-> f.session] :
                         f \in some}
       /\ \/ Exit
          \/ some = ToLog /\ Advance

\* drizzleslap has no run id to report on if it has not stored one.
Mail ==
  /\ Doing("mail") /\ UNCHANGED <<proc, worn>> /\ TestsKept
  /\ \E ok \in BOOLEAN : (job.command = "drizzleslap" /\ ~job.options.store => ~ok) /\ Onward(ok)

\* Ctrl-C, or the end of the runner by a signal.
Kill == over = "no" /\ Exit /\ busy' = FALSE /\ UNCHANGED <<failed, proc, worn, files, rows, bad>>

Free == UNCHANGED <<job, session, at, round, over, busy, failed, worn, files, rows>>
ServerUp(p) == proc[p].state = "starting" /\ Put(p, [proc[p] EXCEPT !.state = "up"]) /\ Free /\ UNCHANGED bad
ServerEnds(p) ==
  /\ proc[p].state # "none" /\ Put(p, NoProcess) /\ Free
  /\ bad' = IF busy /\ Up(p) /\ p = P /\ job.command = "randgen" THEN bad \cup {session} ELSE bad

CommandsNext ==
  \/ NewSession \/ Skip \/ Again \/ Build \/ Ask \/ StopAll \/ StopAllMySQLd \/ Clear \/ ClearMySQLd \/ Start \/ StartOrExit \/ CreateDatabase
  \/ Profile \/ Stop \/ StopIfUp \/ BeginTest \/ EndTest \/ EndLoad \/ PassTest \/ FailTest \/ CheckFails
  \/ ResetCounters \/ Measure \/ Rsync \/ Average \/ Scrape \/ Doxy
  \/ Workload \/ RemoveFile \/ Verdict \/ Log \/ Mail \/ Kill
  \/ \E p \in Ports : ServerUp(p) \/ ServerEnds(p)

CommandsSpec == CommandsInit /\ [][CommandsNext]_commandsVars
-----------------------------------------------------------------------------
\* The types of the state.
TypeOK ==
  /\ job \in Jobs /\ session \in 0 .. MaxSessions /\ at \in 1 .. Len(Script(job)) + 1
  /\ round \in 1 .. job.tests /\ over \in {"no", "done", "exit"} /\ busy \in BOOLEAN /\ failed \in 0 .. job.tests
  /\ proc \in [Ports -> [state : {"none", "starting", "up", "stopping"}, by : 0 .. session, lost : BOOLEAN,
                     valgrind : BOOLEAN]]
  /\ worn \subseteq Ports /\ bad \subseteq 1 .. session

\* The server under the profiler need not answer before the first test: nobody
\* looks at what start() returns (util.py:179).  One that answers late, after the
\* directory was cleared for the next test, is taken for the one started then.
MayBeLate(p) == p = Port(job) /\ job.command = "randgen" /\ job.options.profiler /\ round > 1

\* A server that an earlier session, cut short, has left under the profiler:
\* stopAll does not find it, and it answers in place of the session's own.
Leftover(p) == proc[p].by # session /\ proc[p].valgrind

\* A test of a drizzled begins on data directories that were cleared after the
\* last test.  Whoever answers on its ports was started by this session, on the
\* directory as it was cleared unless it came late under the profiler ("start
\* and stop the server each time so we have a clean start each run",
\* randgen/run.py:159, drizzleslap/run.py:203), or is a Leftover; a plain server
\* of an earlier session is not, however that session ended.
FreshServer ==
  (\E d \in Tests : Doing(d)) /\ job.options.server = "drizzled" =>
    \A p \in PortsOf(job) :
      /\ p \notin worn
      /\ Up(p) => Leftover(p) \/ (proc[p].by = session /\ (proc[p].lost => MayBeLate(p)))

\* A command that returns has told all its servers to stop (randgen/run.py:204,
\* drizzleslap/run.py:237): the host is free for the next one.
NothingLeft == over = "done" =>
  \A p \in PortsOf(job) : proc[p].state \in {"none", "stopping"}

\* The state is well typed, and no server is left behind by success.
Consistent == TypeOK /\ NothingLeft

\* A command only returns if all tests passed, and randgen's server was still
\* there after each of them; nothing is logged for others.
HonestExit ==
  /\ over = "done" => session \notin bad
  /\ \A r \in rows : r.session \notin bad

\* What a session logs are its own results, and all of them if it returns.
Measured(j) == IF j.command = "sqlbench" THEN {1} ELSE 1 .. j.tests
OwnResults ==
  /\ \A r \in rows : r.of = r.session
  /\ over = "done" /\ job.options.store /\ job.command \in {"dbt2", "drizzleslap", "lcov", "sqlbench"} =>
       {r.test : r \in {x \in rows : x.session = session}} = Measured(job)
=============================================================================
