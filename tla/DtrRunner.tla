----------------------------- MODULE DtrRunner -----------------------------
(* One run of tests/test-run.pl after its servers are installed: for each    *)
(* test it decides which servers must be stopped, collects dead children,    *)
(* starts what is missing, runs drizzletest and waits for whichever child    *)
(* ends first: the test, a server, or one of the timers, which are child     *)
(* processes too.  The runner knows its children only by their pids.         *)
EXTENDS Integers, Sequences, FiniteSets

CONSTANTS
  Pids,        \* numbers the kernel hands out
  NumSlaves,   \* max_slave_num: no test uses more slaves
  TestKinds,   \* opts (and time zone), slaves, restart: it asks for a restart
  MaxTests,
  MaxCrashes,  \* deaths of servers nobody asked for
  InterruptAt, \* where ^C may arrive
  ExpireAt     \* where a timer may run out

Servers == 0 .. NumSlaves   \* 0 is the master
Timers  == {"suite", "testcase"}
Points  == {"next", "stop", "reap", "start", "await", "spawn", "run",
            "restore", "done", "report", "exited"}
Opts    == {t.opts : t \in TestKinds} \cup {"none"}

ASSUME ConstantsAssumption ==
  /\ Pids \subseteq Nat \ {0} /\ IsFiniteSet(Pids)
  /\ NumSlaves \in Nat /\ MaxTests \in Nat /\ MaxCrashes \in Nat
  /\ \A t \in TestKinds : t.slaves \in 0 .. NumSlaves /\ t.restart \in BOOLEAN
  /\ InterruptAt \subseteq Points \ {"exited"} /\ ExpireAt \subseteq Points

VARIABLES
  force,                  \* --force
  pc, i, next,            \* the runner's step, its loop, where it goes when servers are stopped
  test, ran, restart, results,
  pid, startOpts,         \* $srv->{pid} and {start_opts}; pid 0: not running
  timer,                  \* $glob_timers: the pid of each timer that is recorded
  tester, saved, code,    \* drizzletest: its pid, whether it was timed out, how it ended
  killing, hard,          \* @kill_pids still to look at, and %kill_pids
  found, failed,          \* $found_problems, $tot_failed
  proc,                   \* the children, by pid
  pidfile, expect,        \* files: the server's pid file, its .expect file
  crashes, killed, exit   \* deaths so far; a server needed SIGKILL; how the runner ended

loop   == <<pc, i, next>>
tested == <<test, ran, restart, results, saved, code>>
known  == <<pid, startOpts, timer, tester>>
lists  == <<killing, hard>>
marks  == <<found, failed, exit>>
world  == <<proc, pidfile, expect, crashes, killed>>
vars   == <<force, loop, tested, known, lists, marks, world>>

Free == [role |-> "none", phase |-> "free", of |-> 0, opts |-> "none", since |-> 0, home |-> TRUE]
Child(role) == [Free EXCEPT !.role = role, !.phase = "running"]

At(p)   == pc = p
Goto(p) == pc' = p /\ i' = 0

Zombies   == {p \in Pids : proc[p].phase = "zombie"}
IsServer(p)    == proc[p].role = "server"
ServerRuns(p)  == IsServer(p) /\ proc[p].phase \in {"booting", "up", "stopping"}

\* Pids are not used again while the runner still remembers them.
Remembered == {pid[s] : s \in Servers} \cup {timer[n] : n \in Timers} \cup {tester}
              \cup killing \cup hard
NewPid == CHOOSE p \in Pids \ Remembered : proc[p].phase = "free"

\* drizzled_start: the old pid file goes, the process is forked.
DrizzledStart(P, s, o) ==
  /\ proc' = [P EXCEPT ![NewPid] = [role |-> "server", phase |-> "booting", of |-> s,
                                   opts |-> o, since |-> ran, home |-> TRUE]]
  /\ pid' = [pid EXCEPT ![s] = NewPid] /\ startOpts' = [startOpts EXCEPT ![s] = o]
  /\ pidfile' = [pidfile EXCEPT ![s] = FALSE]

\* A data directory is removed and copied anew; the servers on it, if any, lose theirs.
Evicted(P, S) == [p \in Pids |-> IF ServerRuns(p) /\ P[p].of \in S
                                 THEN [P[p] EXCEPT !.home = FALSE] ELSE P[p]]

\* dtr_timer_stop: SIGTERM, and a waitpid that returns at once for a pid already reaped.
TimerStopped(P, n) ==
  [p \in Pids |-> IF p = timer[n] /\ P[p].role = n THEN Free ELSE P[p]]
-----------------------------------------------------------------------------
(* Stopping servers.  Their pids are forgotten when the shutdown is sent;    *)
(* from there on only the list of pids to be killed knows them.  A server    *)
(* that is not up yet does not hear the request.                             *)
Asked(P, S) == [p \in Pids |-> IF P[p].phase = "up" /\ \E s \in S : pid[s] = p
                               THEN [P[p] EXCEPT !.phase = "stopping"] ELSE P[p]]
MasterToKill(S) == {pid[s] : s \in S \cap {0}} \ {0}   \* a mutant of PidsToKill
PidsToKill(S)   == {pid[s] : s \in S} \ {0}
StopServers(P, S) ==
  /\ proc' = Asked(P, S) /\ killing' = PidsToKill(S) /\ hard' = {}
  /\ pid' = [s \in Servers |-> IF s \in S THEN 0 ELSE pid[s]]
StopAllServers(P, then) == StopServers(P, Servers) /\ Goto("stop") /\ next' = then

\* dtr_wait_blocking: the clients that carry the requests are waited for first, for as
\* long as they take; in a wait for servers to stop, i = 1 says that they have ended.
AwaitsClients == At("stop") /\ i = 0 /\ killing # {}
ClientsEnd ==
  /\ AwaitsClients /\ i' = 1
  /\ UNCHANGED <<force, pc, next, tested, known, lists, marks, world>>

\* dtr_check_stop_servers, pid by pid: its exit is collected; or the patience,
\* one count for all, is used up; or waitpid does not know the child any more.
CollectExit(p) ==
  /\ At("stop") /\ i = 1 /\ p \in killing /\ killing' = killing \ {p}
  /\ \/ /\ proc[p].phase = "zombie" /\ proc' = [proc EXCEPT ![p] = Free]
        /\ pidfile' = [pidfile EXCEPT ![proc[p].of] = FALSE] /\ UNCHANGED hard
     \/ proc[p].phase # "zombie" /\ hard' = hard \cup {p} /\ UNCHANGED <<proc, pidfile>>
  /\ UNCHANGED <<force, loop, tested, known, marks, expect, crashes, killed>>

Overlooked == found   \* a mutant of Flagged
Flagged    == TRUE
KillHard ==
  /\ At("stop") /\ killing = {} /\ hard # {} /\ hard' = {}
  /\ found' = Flagged /\ killed' = (killed \/ \E p \in hard : ServerRuns(p))
  /\ proc' = [p \in Pids |-> IF p \in hard THEN Free ELSE proc[p]]
  /\ pidfile' = [s \in Servers |-> pidfile[s] /\ ~\E p \in hard : IsServer(p) /\ proc[p].of = s]
  /\ UNCHANGED <<force, loop, tested, known, killing, failed, exit, expect, crashes>>

Exit(P, how) ==   \* dtr_exit stops the timers; the process ends.
  /\ Goto("exited") /\ exit' = how /\ timer' = [n \in Timers |-> 0]
  /\ proc' = TimerStopped(TimerStopped(P, "suite"), "testcase")

Stopped ==
  /\ At("stop") /\ killing = {} /\ hard = {}
  /\ \/ next = "exit" /\ Exit(proc, "error")
     \/ next # "exit" /\ Goto(next) /\ UNCHANGED <<exit, proc, timer>>
  /\ UNCHANGED <<force, next, tested, pid, startOpts, tester, lists, found, failed,
                 pidfile, expect, crashes, killed>>
-----------------------------------------------------------------------------
(* run_tests and run_testcase.                                               *)
Init ==
  /\ force \in BOOLEAN
  /\ pc = "next" /\ i = 0 /\ next = "next" /\ ran = 0 /\ results = <<>>
  /\ test = [opts |-> "none", slaves |-> 0, restart |-> FALSE] /\ restart = FALSE
  /\ pid = [s \in Servers |-> 0] /\ startOpts = [s \in Servers |-> "none"]
  /\ LET p == CHOOSE q \in Pids : TRUE IN
     /\ proc = [q \in Pids |-> IF q = p THEN Child("suite") ELSE Free]
     /\ timer = [n \in Timers |-> IF n = "suite" THEN p ELSE 0]
  /\ tester = 0 /\ saved = FALSE /\ code = "none" /\ killing = {} /\ hard = {}
  /\ found = FALSE /\ failed = FALSE /\ killed = FALSE /\ exit = "none" /\ crashes = 0
  /\ pidfile = [s \in Servers |-> FALSE] /\ expect = [s \in Servers |-> FALSE]

NeedMasterRestart(t) == t.restart \/ startOpts[0] # t.opts \/ pid[0] = 0
SlavesIfMissing(t)  ==   \* a mutant of NeedSlaveRestart
  t.slaves > 0 /\ \A s \in 1 .. NumSlaves : pid[s] = 0
NeedSlaveRestart(t) == NumSlaves # 0 /\ (t.slaves > 0 \/ \E s \in 1 .. NumSlaves : pid[s] # 0)
ToStop(t) == IF NeedMasterRestart(t) THEN Servers
             ELSE IF NeedSlaveRestart(t) THEN 1 .. NumSlaves ELSE {}

BeginTest ==
  /\ At("next") /\ ran < MaxTests
  /\ \E t \in TestKinds :
       /\ test' = t /\ restart' = (NeedMasterRestart(t) \/ NeedSlaveRestart(t))
       /\ StopServers([proc EXCEPT ![NewPid] = Child("testcase")], ToStop(t))
  /\ timer' = [timer EXCEPT !["testcase"] = NewPid]
  /\ Goto("stop") /\ next' = "reap" /\ ran' = ran + 1
  /\ UNCHANGED <<force, results, saved, code, startOpts, tester, marks, pidfile, expect,
                 crashes, killed>>

\* dtr_record_dead_children: whoever has ended; a timer among them is only warned about.
PidsOfTheLiving == [s \in Servers |-> IF pid[s] \in Zombies THEN 0 ELSE pid[s]]
RecordDeadChildren ==
  /\ At("reap") /\ pid' = PidsOfTheLiving
  /\ proc' = [p \in Pids |-> IF p \in Zombies THEN Free ELSE proc[p]]
  /\ IF restart \/ Zombies # {} THEN Goto("start") ELSE Goto("spawn")
  /\ UNCHANGED <<force, next, tested, startOpts, timer, tester, lists, marks,
                 pidfile, expect, crashes, killed>>

\* run_testcase_start_servers: the master, then the slaves on fresh directories
\* (if there is a snapshot to copy them from), then a wait for every pid file.
StartServer ==
  /\ At("start") /\ i <= test.slaves /\ i' = i + 1
  /\ LET P == IF i = 1 /\ force THEN Evicted(proc, 1 .. test.slaves) ELSE proc IN
     \/ pid[i] = 0 /\ DrizzledStart(P, i, test.opts)
     \/ pid[i] # 0 /\ proc' = P /\ UNCHANGED <<pid, startOpts, pidfile>>
  /\ UNCHANGED <<force, pc, next, tested, timer, tester, lists, marks, expect, crashes, killed>>

AllStarted ==
  /\ At("start") /\ i > test.slaves /\ Goto("await")
  /\ UNCHANGED <<force, next, tested, known, lists, marks, world>>

Awaited ==
  /\ At("await")
  /\ \/ i <= NumSlaves /\ (pid[i] = 0 \/ pidfile[i]) /\ i' = i + 1 /\ UNCHANGED pc
     \/ i > NumSlaves /\ Goto("spawn")
  /\ UNCHANGED <<force, next, tested, known, lists, marks, world>>

\* report_failure_and_restart
Fail(P) ==
  /\ results' = Append(results, "failed") /\ failed' = TRUE
  /\ StopAllServers(P, IF force THEN "restore" ELSE "exit")

\* sleep_until_file_created collects a server that died, its pid stays in the list.
StartFails ==
  /\ At("await") /\ i <= NumSlaves /\ pid[i] # 0 /\ ~pidfile[i]
  /\ Fail([p \in Pids |-> IF p = pid[i] /\ p \in Zombies THEN Free ELSE proc[p]])
  /\ UNCHANGED <<force, test, ran, restart, saved, code, startOpts, timer, tester, found, exit,
                 pidfile, expect, crashes, killed>>

RunDrizzletest ==
  /\ At("spawn") /\ Goto("run") /\ tester' = NewPid
  /\ proc' = [proc EXCEPT ![NewPid] = Child("test")]
  /\ UNCHANGED <<force, next, tested, pid, startOpts, timer, lists, marks, pidfile,
                 expect, crashes, killed>>
-----------------------------------------------------------------------------
(* The wait for drizzletest: waitpid(-1) returns any child that has ended.   *)
Reaped(z) == [proc EXCEPT ![z] = Free]

SuiteTimeout(z) ==
  /\ z = timer["suite"] /\ Exit(Reaped(z), "suite")
  /\ UNCHANGED <<force, next, tested, pid, startOpts, tester, lists, found, failed, pidfile,
                 expect, crashes, killed>>

TimeoutWarned == proc' = Reaped(timer["testcase"])   \* a mutant of TesterKilled
TesterKilled  == proc' = [Reaped(timer["testcase"]) EXCEPT ![tester].phase = "zombie"]
TestcaseTimeout(z) ==
  /\ z = timer["testcase"] /\ saved' = TRUE /\ TesterKilled
  /\ UNCHANGED <<force, loop, test, ran, restart, results, code, known, lists, marks, pidfile,
                 expect, crashes, killed>>

TestEnded(z) ==
  /\ z = tester /\ tester' = 0 /\ saved' = FALSE /\ code' = "none"
  /\ \/ (saved \/ code = "failed") /\ Fail(Reaped(z))
     \/ /\ ~saved /\ code # "failed" /\ results' = Append(results, code)
        /\ proc' = Reaped(z) /\ Goto("done") /\ UNCHANGED <<next, pid, lists, failed>>
  /\ UNCHANGED <<force, test, ran, restart, startOpts, timer, found, exit, pidfile,
                 expect, crashes, killed>>

\* check_expected_crash_and_restart
ServerDied(z, s) ==
  /\ pid[s] = z /\ z \notin {timer[n] : n \in Timers}
  /\ \/ /\ expect[s] /\ DrizzledStart(Reaped(z), s, startOpts[s])
        /\ expect' = [expect EXCEPT ![s] = FALSE]
     \/ /\ ~expect[s] /\ proc' = Reaped(z) /\ pid' = [pid EXCEPT ![s] = 0]
        /\ UNCHANGED <<startOpts, pidfile, expect>>
  /\ UNCHANGED <<force, loop, tested, timer, tester, lists, marks, crashes, killed>>

WaitForAny ==
  /\ At("run")
  /\ \E z \in Zombies : \/ SuiteTimeout(z) \/ TestcaseTimeout(z) \/ TestEnded(z)
                        \/ \E s \in Servers : ServerDied(z, s)

RestoreInstalledDb ==
  /\ At("restore") /\ proc' = Evicted(proc, Servers) /\ Goto("done")
  /\ UNCHANGED <<force, next, tested, known, lists, marks, pidfile, expect, crashes, killed>>

EndTest ==
  /\ At("done") /\ Goto("next")
  /\ proc' = TimerStopped(proc, "testcase") /\ timer' = [timer EXCEPT !["testcase"] = 0]
  /\ UNCHANGED <<force, next, tested, pid, startOpts, tester, lists, marks, pidfile,
                 expect, crashes, killed>>

NoMoreTests ==
  /\ At("next") /\ ran = MaxTests /\ StopAllServers(proc, "report")
  /\ UNCHANGED <<force, tested, startOpts, timer, tester, marks, pidfile, expect,
                 crashes, killed>>

ReportStats ==
  /\ At("report") /\ Exit(proc, IF failed \/ found THEN "error" ELSE "ok")
  /\ UNCHANGED <<force, next, tested, pid, startOpts, tester, lists, found, failed, pidfile,
                 expect, crashes, killed>>

\* handle_int_signal, which is reset: a second ^C is not handled.
Interrupt ==
  /\ pc \in InterruptAt /\ next # "exit" /\ StopAllServers(proc, "exit")
  /\ UNCHANGED <<force, tested, startOpts, timer, tester, marks, pidfile, expect,
                 crashes, killed>>
-----------------------------------------------------------------------------
(* The children.                                                             *)
Ends(p) == proc' = [proc EXCEPT ![p].phase = "zombie"]
Turns(p, from, to) == proc[p].phase = from /\ proc' = [proc EXCEPT ![p].phase = to]
Rest == UNCHANGED <<force, loop, tested, known, lists, marks>>

Boot(p) ==
  /\ Turns(p, "booting", "up") /\ pidfile' = [pidfile EXCEPT ![proc[p].of] = TRUE]
  /\ Rest /\ UNCHANGED <<expect, crashes, killed>>
ShutDown(p) ==
  /\ Turns(p, "stopping", "zombie") /\ Rest /\ UNCHANGED <<pidfile, expect, crashes, killed>>
Crash(p) ==
  /\ ServerRuns(p) /\ crashes < MaxCrashes /\ crashes' = crashes + 1 /\ Ends(p)
  /\ Rest /\ UNCHANGED <<pidfile, expect, killed>>
TestEnds(p) ==
  /\ p = tester /\ proc[p].phase = "running" /\ Ends(p)
  /\ code' \in {"passed", "failed"}   \* a skipped test is no failure: as if passed
  /\ UNCHANGED <<force, loop, test, ran, restart, results, saved, known, lists, marks, pidfile,
                 expect, crashes, killed>>
WriteExpect(s) ==
  /\ tester # 0 /\ proc[tester].phase = "running" /\ crashes < MaxCrashes
  /\ expect' = [expect EXCEPT ![s] = TRUE]
  /\ Rest /\ UNCHANGED <<proc, pidfile, crashes, killed>>
Expire(n) ==
  /\ pc \in ExpireAt /\ timer[n] # 0 /\ proc[timer[n]] = Child(n) /\ Ends(timer[n])
  /\ Rest /\ UNCHANGED <<pidfile, expect, crashes, killed>>

Runner ==
  \/ \E p \in Pids : CollectExit(p)
  \/ KillHard \/ Stopped \/ BeginTest \/ RecordDeadChildren \/ StartServer \/ AllStarted
  \/ Awaited \/ StartFails \/ RunDrizzletest \/ WaitForAny \/ RestoreInstalledDb
  \/ EndTest \/ NoMoreTests \/ ReportStats
Children ==
  \/ \E p \in Pids : Boot(p) \/ ShutDown(p) \/ Crash(p) \/ TestEnds(p)
  \/ \E s \in Servers : WriteExpect(s)
  \/ \E n \in Timers : Expire(n)
Next == Runner \/ Interrupt \/ Children \/ ClientsEnd

Spec     == Init /\ [][Next]_vars
FairSpec == Spec /\ WF_vars(Runner) /\ WF_vars(Expire("testcase"))
-----------------------------------------------------------------------------
(* Properties.                                                               *)
Process == [role : {"none", "server", "test"} \cup Timers,
            phase : {"free", "running", "booting", "up", "stopping", "zombie"},
            of : Servers, opts : Opts, since : 0 .. MaxTests, home : BOOLEAN]

\* The types of the runner's state (test-run.pl, lib/dtr_process.pl, lib/dtr_timer.pl).
TypeOK ==
  /\ force \in BOOLEAN /\ pc \in Points /\ i \in 0 .. NumSlaves + 1 /\ next \in Points \cup {"exit"}
  /\ ran \in 0 .. MaxTests /\ restart \in BOOLEAN /\ saved \in BOOLEAN
  /\ pid \in [Servers -> Pids \cup {0}] /\ startOpts \in [Servers -> Opts]
  /\ timer \in [Timers -> Pids \cup {0}] /\ tester \in Pids \cup {0}
  /\ killing \subseteq Pids /\ hard \subseteq Pids
  /\ proc \in [Pids -> Process]
  /\ pidfile \in [Servers -> BOOLEAN] /\ expect \in [Servers -> BOOLEAN]

\* No server is lost sight of: its pid is in the server's record or among those
\* about to be killed; so no second server is started on its ports and directory.
EveryServerKnown ==
  \A p \in Pids : ServerRuns(p) => p \in killing \cup hard \/ pid[proc[p].of] = p
OneServerEach ==
  \A p, q \in Pids : ServerRuns(p) /\ ServerRuns(q) /\ proc[p].of = proc[q].of => p = q
Consistent == TypeOK /\ EveryServerKnown /\ OneServerEach

\* drizzletest is only started with all servers of the test, as the test asks for
\* them, and slaves that no earlier test has used.
RightServers ==
  At("spawn") => \A s \in 0 .. test.slaves :
    /\ pid[s] # 0 /\ IsServer(pid[s]) /\ proc[pid[s]].of = s /\ proc[pid[s]].opts = test.opts
    /\ s > 0 => proc[pid[s]].since = ran

\* No data directory is restored under a running server.
DataUnderServers == \A p \in Pids : ServerRuns(p) => proc[p].home

\* Only a run whose tests all passed or were skipped, and whose servers all went
\* when they were asked to, reports success.
HonestExit == exit = "ok" => ~killed /\ Len(results) = MaxTests
                             /\ \A k \in DOMAIN results : results[k] # "failed"

\* When the run ends, other than by the suite's timeout, its servers have ended.
AllStopped == At("exited") /\ exit # "suite" => \A p \in Pids : ~ServerRuns(p)

\* While a test runs, its time limit and the suite's are still watched.
LimitsInForce ==
  At("run") => /\ proc[timer["suite"]].role = "suite"
               /\ saved \/ proc[timer["testcase"]].role = "testcase"

\* The run ends, whatever the servers do, but for the two waits the code sets no
\* bound to: for the clients that ask servers to stop ("we trust it to terminate
\* itself"), and for a drizzletest whose timer was lost before it started.
TimerLost  == ~saved /\ proc[timer["testcase"]].role # "testcase"
Terminates == \/ <>At("exited")
              \/ <>[]AwaitsClients
              \/ <>[](At("run") /\ TimerLost)
=============================================================================
