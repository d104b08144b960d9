--------------------------- MODULE ServerManager ---------------------------
(* One run of tests/kewpie.py: the executor fetches tests, asks the server   *)
(* manager for servers, runs the test and records it; kewpie.py cleans up at *)
(* the end.  A server is a Python object (servers), a port block with port   *)
(* files (locked), a data directory named after the server's place in the    *)
(* list (datadir), and a process that Python only sees through pings (proc). *)
EXTENDS Naturals, Sequences, FiniteSets

CONSTANTS
  Blocks,        \* port blocks, one per call of get_port_block
  Options,       \* options of a server, or of the runner
  RunnerOptions, \* '--restart' and the others filter_server_options removes
  Restart,       \* '--restart'
  TestKinds,     \* the tests: reqs, an option set per server, and loads
  MaxServers, MaxTests, Repeat,
  LateStart,     \* may a server answer after start() stopped waiting?
  Hangs,         \* may one stop answering, or outlive its shutdown?
  Verbose,       \* --verbose
  Crashes,       \* may a test's load kill servers?
  InterruptAt    \* where ctrl-C, or sys.exit, may end the run

Modes == {"dtr", "native"}
Places == 1 .. MaxServers
Points == {"next", "check", "count", "evaluate", "special", "start", "wait",
           "ready", "run", "after", "record", "cleanup", "free", "ended"}

ASSUME ConstantsAssumption ==
  /\ Restart \in RunnerOptions /\ RunnerOptions \subseteq Options
  /\ MaxServers \in Nat \ {0} /\ MaxTests \in Nat /\ Repeat \in Nat \ {0}
  /\ LateStart \in BOOLEAN /\ Hangs \in BOOLEAN /\ Verbose \in BOOLEAN /\ Crashes \in BOOLEAN
  /\ InterruptAt \subseteq Points
  /\ \A t \in TestKinds : /\ t \in [reqs : Seq(SUBSET Options), loads : SUBSET Places]
                          /\ Len(t.reqs) <= MaxServers
                          /\ \A k \in t.loads : k <= Len(t.reqs)

VARIABLES
  conf,      \* the command line: mode, force, startandexit
  pc, i,     \* the step of the runner, and the place its loop is at
  test,      \* current_testcase, as it was collected
  want,      \* its server_requirements: lists that are changed in place
  ran, rep,  \* tests fetched, repetitions of the current one
  servers, proc, locked, datadir,
  badStart, status  \* of the current test

objects == <<servers, proc, datadir>>
tested  == <<test, want, ran, rep>>
judged  == <<badStart, status>>
vars    == <<conf, pc, i, tested, objects, locked, judged>>

\* phase: "none" | "booting" | "up" | "mute".  missed (for checking only): the
\* last ping of a start() or a stop() found no answer.
NoProc == [phase |-> "none", place |-> 1, opts |-> {}, home |-> TRUE, since |-> 0, missed |-> FALSE]
NoTest == [reqs |-> <<>>, loads |-> {}]
-----------------------------------------------------------------------------
(* Server objects.  sameList: server_options is the list object the current  *)
(* test holds, so that a change of one is a change of the other.             *)
NewServer(b) == [block |-> b, status |-> 0, hasPid |-> FALSE, failed |-> FALSE,
                 needReset |-> FALSE, opts |-> {}, sameList |-> FALSE]

Answers(s) == proc[s.block].phase = "up"
Live(b)    == proc[b].phase # "none"
Miss(b)    == [proc EXCEPT ![b].missed = Live(b)]

\* The data directory of the server at place k is removed and copied anew.
Evicted(P, k) == [b \in Blocks |-> IF P[b].phase # "none" /\ P[b].place = k
                                   THEN [P[b] EXCEPT !.home = FALSE] ELSE P[b]]

\* get_port: no port file, nobody listening.
FreeBlocks == {b \in Blocks : b \notin locked /\ proc[b].phase \notin {"up", "mute"}}

At(p)      == pc = p
Goto(p, k) == pc' = p /\ i' = k
\* An exception: main prints it and cleans up; nothing catches one of the clean-up.
Raise      == Goto(IF pc = "cleanup" THEN "ended" ELSE "cleanup", 1)

\* stop(): a server that does not answer is marked stopped, and lives on.  One
\* that answers is shut down, and killed if it is still there after 100 seconds.
\* find_pid(None) is a TypeError, after the shutdown command was sent; so is, with
\* --verbose, the kill a NameError, for the warning before it names no object.
StopProc(s)   == IF Answers(s) THEN [proc EXCEPT ![s.block] = NoProc] ELSE Miss(s.block)
StopRaises(s) == Answers(s) /\ ~s.hasPid
Lingers(s) ==
  /\ Hangs /\ Answers(s) /\ (Verbose \/ ~s.hasPid) /\ Raise
  /\ proc' \in {proc, [proc EXCEPT ![s.block].phase = "mute"]}

StopForgets(p) ==   \* a mutant of Stop
  /\ Goto(p, i + 1) /\ servers' = [servers EXCEPT ![i].status = 0] /\ UNCHANGED proc
Stop(p) ==
  LET s == servers[i] IN
  \/ Lingers(s) /\ UNCHANGED servers
  \/ /\ proc' = StopProc(s)
     /\ \/ StopRaises(s) /\ Raise /\ UNCHANGED servers
        \/ /\ ~StopRaises(s) /\ Goto(p, i + 1)
           /\ servers' = [servers EXCEPT ![i].status = 0]

ResetServer(s, p) ==
  \/ Lingers(s) /\ UNCHANGED <<servers, datadir>>
  \/ /\ StopRaises(s) /\ Raise
     /\ proc' = StopProc(s) /\ UNCHANGED <<servers, datadir>>
  \/ /\ ~StopRaises(s) /\ Goto(p, i + 1)
     /\ proc' = Evicted(StopProc(s), i)
     /\ datadir' = [datadir EXCEPT ![i] = "clean"]
     /\ servers' = [servers EXCEPT ![i] =
                     [s EXCEPT !.status = 0, !.failed = FALSE, !.needReset = FALSE]]

-----------------------------------------------------------------------------
(* The executor's loop.                                                      *)
Init ==
  /\ conf \in [mode : Modes, force : BOOLEAN, startandexit : BOOLEAN]
  /\ pc = "next" /\ i = 1 /\ test = NoTest /\ want = <<>> /\ ran = 0 /\ rep = Repeat
  /\ \E b \in Blocks : servers = <<NewServer(b)>> /\ locked = {b}
  /\ proc = [b \in Blocks |-> NoProc] /\ datadir = [k \in Places |-> "clean"]
  /\ badStart = FALSE /\ status = "none"

Requested(t) == IF t.reqs = <<>> THEN Goto("ready", 1) ELSE Goto("check", 1)

GetTestCase ==
  /\ At("next") /\ rep = Repeat /\ ran < MaxTests
  /\ \E t \in TestKinds : test' = t /\ want' = t.reqs /\ Requested(t)
  /\ servers' = [k \in DOMAIN servers |-> [servers[k] EXCEPT !.sameList = FALSE]]
  /\ ran' = ran + 1 /\ rep' = 1 /\ status' = "none" /\ badStart' = FALSE
  /\ UNCHANGED <<conf, proc, datadir, locked>>

RepeatTest ==
  /\ At("next") /\ rep < Repeat
  /\ rep' = rep + 1 /\ Requested(test) /\ status' = "none" /\ badStart' = FALSE
  /\ UNCHANGED <<conf, test, want, ran, objects, locked>>

NoMoreTests ==
  /\ At("next") /\ rep = Repeat /\ Goto("cleanup", 1)
  /\ UNCHANGED <<conf, tested, objects, locked, judged>>

\* check_server_status, the first part of request_servers
CheckServerStatus ==
  /\ At("check") /\ UNCHANGED <<conf, tested, locked, judged>>
  /\ \/ i > Len(servers) /\ Goto("count", Len(test.reqs) + 1) /\ UNCHANGED objects
     \/ /\ i <= Len(servers) /\ servers[i].failed /\ ResetServer(servers[i], "check")
     \/ /\ i <= Len(servers) /\ ~servers[i].failed
        /\ Goto("check", i + 1) /\ UNCHANGED objects

\* process_server_count: grow by one server, stop one that is retired, or drop
\* the retired ones; server.cleanup() runs once, for the last of them.
AllocateServer ==
  /\ At("count") /\ Len(servers) < Len(test.reqs)
  /\ \E b \in FreeBlocks : /\ servers' = Append(servers, NewServer(b))
                           /\ locked' = locked \cup {b}
  /\ proc' = Evicted(proc, Len(servers) + 1)
  /\ datadir' = [datadir EXCEPT ![Len(servers) + 1] = "clean"]
  /\ UNCHANGED <<conf, pc, i, tested, judged>>

RetireServer ==
  /\ At("count") /\ i <= Len(servers) /\ Stop("count")
  /\ UNCHANGED <<conf, tested, datadir, locked, judged>>

FreedLastKept == IF Len(servers) > Len(test.reqs)         \* a mutant of FreedByShrink
                 THEN {servers[Len(test.reqs)].block} ELSE {}
Settled == SubSeq(servers, 1, Len(test.reqs))
FreedByShrink == IF Len(servers) > Len(test.reqs)
                 THEN {servers[Len(servers)].block} ELSE {}
ServersCounted ==
  /\ At("count") /\ Len(servers) >= Len(test.reqs) /\ i > Len(servers)
  /\ servers' = Settled /\ locked' = locked \ FreedByShrink
  /\ Goto("evaluate", 1)
  /\ UNCHANGED <<conf, tested, proc, datadir, judged>>
-----------------------------------------------------------------------------
(* evaluate_existing_servers: the data directories asked for in a .cnf file  *)
(* come with '--restart'; options are compared, and filtered when they       *)
(* differ, all on the lists themselves.                                      *)
Marked(k) == IF conf.mode = "dtr" /\ k \in test.loads THEN want[k] \cup {Restart} ELSE want[k]
Current(k) == IF servers[k].sameList THEN Marked(k) ELSE servers[k].opts
Filtered(k)   == Marked(k) \ RunnerOptions
OptionsAlways(k) == TRUE   \* a mutant of OptionsMatch
OptionsMatch(k) == Current(k) = Marked(k)

EvaluateServer ==
  /\ At("evaluate") /\ i <= Len(servers)
  /\ LET kept    == [servers[i] EXCEPT !.opts = Current(i)]
         changed == [kept EXCEPT !.opts = Filtered(i), !.sameList = TRUE]
     IN \/ /\ OptionsMatch(i) /\ want' = [want EXCEPT ![i] = Marked(i)]
           /\ \/ servers[i].needReset /\ ResetServer(kept, "evaluate")
              \/ /\ ~servers[i].needReset /\ Goto("evaluate", i + 1)
                 /\ servers' = [servers EXCEPT ![i] = kept] /\ UNCHANGED <<proc, datadir>>
        \/ /\ ~OptionsMatch(i) /\ want' = [want EXCEPT ![i] = Filtered(i)]
           /\ ResetServer(changed, "evaluate")
  /\ UNCHANGED <<conf, test, ran, rep, locked, judged>>

\* handle_special_server_requests: load_datadir, whatever the server is doing
LoadDatadirs ==
  /\ At("evaluate") /\ i > Len(servers) /\ Goto("start", 1)
  /\ proc' = [b \in Blocks |-> IF Live(b) /\ proc[b].place \in test.loads
                               THEN [proc[b] EXCEPT !.home = FALSE] ELSE proc[b]]
  /\ datadir' = [k \in Places |-> IF k \in test.loads THEN "loaded" ELSE datadir[k]]
  /\ servers' = [k \in DOMAIN servers |->
                  IF k \in test.loads THEN [servers[k] EXCEPT !.needReset = TRUE] ELSE servers[k]]
  /\ UNCHANGED <<conf, tested, locked, judged>>

\* start(): a process on ports that are taken by an older one ends at once.
Launch ==
  /\ At("start") /\ i <= Len(servers) /\ servers[i].status = 0
  /\ servers' = [servers EXCEPT ![i].hasPid = FALSE]
  /\ proc' = IF Live(servers[i].block) THEN proc
             ELSE [proc EXCEPT ![servers[i].block] =
                    [phase |-> "booting", place |-> i, opts |-> servers[i].opts,
                     home |-> TRUE, since |-> ran,
                     missed |-> FALSE]]
  /\ Goto("wait", i)
  /\ UNCHANGED <<conf, tested, locked, datadir, judged>>

AlreadyRunning ==
  /\ At("start") /\ i <= Len(servers) /\ servers[i].status = 1 /\ Goto("start", i + 1)
  /\ UNCHANGED <<conf, tested, objects, locked, judged>>

Answered ==
  /\ At("wait") /\ Answers(servers[i]) /\ Goto("start", i + 1)
  /\ servers' = [servers EXCEPT ![i].status = 1, ![i].hasPid = TRUE]
  /\ proc' = [proc EXCEPT ![servers[i].block].missed = FALSE]
  /\ UNCHANGED <<conf, tested, locked, datadir, judged>>

GivesUp == /\ At("wait") /\ ~Answers(servers[i])
           /\ LateStart \/ Hangs \/ ~Live(servers[i].block)
WaitForever == GivesUp /\ UNCHANGED vars   \* a mutant of StartTimeout
StartTimeout ==
  /\ GivesUp /\ Goto("start", i + 1) /\ badStart' = TRUE /\ proc' = Miss(servers[i].block)
  /\ UNCHANGED <<conf, tested, servers, datadir, locked, status>>

\* set_server_status marks every server of a failed test.
MarkFirst(S, st)  == [k \in DOMAIN S |-> IF st = "fail" /\ k = 1   \* a mutant of MarkFailed
                                         THEN [S[k] EXCEPT !.failed = TRUE] ELSE S[k]]
MarkFailed(S, st) == [k \in DOMAIN S |-> IF st = "fail" THEN [S[k] EXCEPT !.failed = TRUE] ELSE S[k]]

ServersStarted ==
  /\ At("start") /\ i > Len(servers) /\ Goto("ready", 1)
  /\ status' = IF badStart THEN "fail" ELSE status
  /\ servers' = MarkFailed(servers, status')
  /\ UNCHANGED <<conf, tested, proc, datadir, locked, badStart>>

\* handle_start_and_exit: the port files go, the servers stay.
StartAndExit ==
  /\ At("ready") /\ conf.startandexit /\ Goto("ended", 1)
  /\ locked' = locked \ {servers[k].block : k \in DOMAIN servers}
  /\ UNCHANGED <<conf, tested, objects, judged>>

Ready ==
  /\ At("ready") /\ ~conf.startandexit
  /\ Goto(IF status = "fail" THEN "record" ELSE "run", 1)
  /\ UNCHANGED <<conf, tested, objects, locked, judged>>
-----------------------------------------------------------------------------
(* execute_testCase of the modes.  A failed test leaves its data behind; the *)
(* native and sysbench executors reset their servers after each test.        *)
RunTest ==
  /\ At("run")
  /\ \E st \in {"pass", "skipped", "fail"}, dead \in SUBSET {b \in Blocks : Live(b)} :
       /\ dead # {} => Crashes
       /\ status' = st
       /\ servers' = MarkFailed(servers, st)
       /\ proc' = [b \in Blocks |-> IF b \in dead THEN NoProc ELSE proc[b]]
       /\ datadir' = [k \in Places |-> IF st = "fail" /\ k \in DOMAIN servers THEN "dirty" ELSE datadir[k]]
  /\ Goto(IF conf.mode = "native" THEN "after" ELSE "record", 1)
  /\ UNCHANGED <<conf, tested, locked, badStart>>

ResetServers ==
  /\ At("after") /\ UNCHANGED <<conf, tested, locked, judged>>
  /\ \/ i <= Len(servers) /\ ResetServer(servers[i], "after")
     \/ i > Len(servers) /\ Goto("record", 1) /\ UNCHANGED objects

RecordTestResult ==
  /\ At("record")
  /\ Goto(IF status = "fail" /\ ~conf.force THEN "cleanup" ELSE "next", 1)
  /\ UNCHANGED <<conf, tested, objects, locked, judged>>

\* ctrl-C, or a sys.exit from a command that must pass
Interrupt ==
  /\ pc \in InterruptAt \ {"cleanup", "free", "ended"}
  /\ IF conf.startandexit THEN Goto("ended", 1) ELSE Goto("cleanup", 1)
  /\ UNCHANGED <<conf, tested, objects, locked, judged>>

\* serverManager.cleanup: stop all servers, then free their ports.
StopAllServers ==
  /\ At("cleanup") /\ UNCHANGED <<conf, tested, datadir, locked, judged>>
  /\ \/ conf.startandexit /\ Goto("ended", 1) /\ UNCHANGED <<servers, proc>>
     \/ ~conf.startandexit /\ i <= Len(servers) /\ Stop("cleanup")
     \/ ~conf.startandexit /\ i > Len(servers) /\ Goto("free", 1) /\ UNCHANGED <<servers, proc>>

CleanupAllServers ==
  /\ At("free") /\ Goto("ended", 1)
  /\ locked' = locked \ {servers[k].block : k \in DOMAIN servers}
  /\ UNCHANGED <<conf, tested, objects, judged>>

\* The process: it comes up, or ends while it boots; it stops answering.
Boot(b) ==
  /\ proc[b].phase = "booting"
  /\ \/ proc' = [proc EXCEPT ![b].phase = "up"]
     \/ proc' = [proc EXCEPT ![b] = NoProc]
  /\ UNCHANGED <<conf, pc, i, tested, servers, datadir, locked, judged>>

Hang(b) ==
  /\ Hangs /\ proc[b].phase = "up" /\ proc' = [proc EXCEPT ![b].phase = "mute"]
  /\ UNCHANGED <<conf, pc, i, tested, servers, datadir, locked, judged>>

Runner ==
  \/ GetTestCase \/ RepeatTest \/ NoMoreTests \/ CheckServerStatus \/ AllocateServer
  \/ RetireServer \/ ServersCounted \/ EvaluateServer \/ LoadDatadirs \/ Launch
  \/ AlreadyRunning \/ Answered \/ StartTimeout \/ ServersStarted \/ StartAndExit
  \/ Ready \/ ResetServers \/ RecordTestResult
  \/ StopAllServers \/ CleanupAllServers
Next == Runner \/ RunTest \/ Interrupt \/ \E b \in Blocks : Boot(b) \/ Hang(b)

Spec     == Init /\ [][Next]_vars
\* No fairness of RunTest: the wait for the test's client has no bound.
FairSpec == Spec /\ WF_vars(Runner) /\ \A b \in Blocks : WF_vars(Boot(b))
-----------------------------------------------------------------------------
(* Properties.                                                               *)
Outcomes == {"none", "pass", "skipped", "fail"}
Server == [block : Blocks, status : {0, 1}, hasPid : BOOLEAN, failed : BOOLEAN,
           needReset : BOOLEAN, opts : SUBSET Options, sameList : BOOLEAN]
Process == [phase : {"none", "booting", "up", "mute"}, place : Places, opts : SUBSET Options,
            home : BOOLEAN, since : Nat, missed : BOOLEAN]

\* The types of the runner's state (kewpie.py, lib/server_mgmt, lib/test_mgmt).
TypeOK ==
  /\ conf \in [mode : Modes, force : BOOLEAN, startandexit : BOOLEAN]
  /\ pc \in Points /\ i \in Nat \ {0}
  /\ test \in TestKinds \cup {NoTest} /\ want \in Seq(SUBSET Options)
  /\ Len(want) = Len(test.reqs)
  /\ ran \in 0 .. MaxTests /\ rep \in 1 .. Repeat
  /\ servers \in Seq(Server) /\ Len(servers) \in Places
  /\ proc \in [Blocks -> Process] /\ locked \subseteq Blocks
  /\ datadir \in [Places -> {"clean", "loaded", "dirty"}]
  /\ badStart \in BOOLEAN /\ status \in Outcomes

\* Every server process is one that a server of the list answers for: its
\* ports, its data directory, and either status 1 with a pid to wait for, or
\* the start() that is waiting for it.  So a data directory has one process.
EveryProcessKnown ==
  \A b \in Blocks : Live(b) =>
    \E k \in DOMAIN servers :
      /\ servers[k].block = b /\ proc[b].place = k
      /\ \/ servers[k].status = 1 /\ servers[k].hasPid
         \/ pc = "wait" /\ i = k

\* No process runs on a data directory that restore_snapshot, load_datadir or
\* the dirset of a new server of the same name has removed.
NoOrphan == \A b \in Blocks : Live(b) => proc[b].home

Consistent == TypeOK /\ EveryProcessKnown /\ NoOrphan

\* Port files outlive the process on the ports, so that no other server of
\* this user is given them (except after --start-and-exit, on purpose).
PortsHeld == \A b \in Blocks : Live(b) /\ ~conf.startandexit => b \in locked

\* "runaway servers are our biggest concern" (kewpie.py:115): a server process
\* that is left when kewpie.py has cleaned up did not answer when it was last
\* pinged, by a start() that gave up or by a stop(), unless an exception ended the
\* clean-up, which then has freed no ports either.  No other is forgotten.
OnlyMissedAreLeft ==
  At("ended") /\ ~conf.startandexit =>
    \/ \A b \in Blocks : Live(b) => proc[b].missed
    \/ \A k \in DOMAIN servers : servers[k].block \in locked

\* A test's servers run with the options of its requirements, less those for
\* the runner, on clean or the requested data; --restart is honoured.
RunsAsAsked ==
  At("run") => \A k \in DOMAIN test.reqs :
    LET p == proc[servers[k].block] IN
    p.phase # "none" =>
      /\ p.opts = test.reqs[k] \ RunnerOptions
      /\ datadir[k] = IF k \in test.loads THEN "loaded" ELSE "clean"
      /\ Restart \in test.reqs[k] => p.since = ran

\* cleanup() leaves no port file of the run.
PortsFreed == At("ended") /\ ~conf.startandexit => locked = {}

\* Every run of kewpie.py ends, or waits for the client of a test for ever: no
\* server that comes up late, stops answering or outlives its shutdown holds it up.
Terminates == <>At("ended") \/ <>[]At("run")
=============================================================================
