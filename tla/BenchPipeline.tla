--------------------------- MODULE BenchPipeline ---------------------------
(* drizzle-automation sysbench: pipelines on the hosts of a lab benchmark    *)
(* revisions of the server and log the results in one database.             *)
(* runner.py loops over the revisions; sysbench/run.py stops every server,   *)
(* clears the data directory, starts the sandbox's server, prepares it, and  *)
(* runs every iteration of every concurrency level.                          *)
EXTENDS Integers, Sequences, FiniteSets, FiniteSetsExt

CONSTANTS
  Pipelines, Hosts,
  Jobs,        \* what a pipeline may be told:
               \* [revisions, levels, iterations, profiler, status, store]
  Databases    \* [use, before]: use_db, "drizzle" or "mysql" with its command
               \* line client, and the number of runs logged before

ASSUME BenchAssumption ==
  \A j \in Jobs : /\ j.revisions \in Nat \ {0} /\ j.iterations \in Nat \ {0}
                  /\ j.levels \in Seq(Nat) /\ j.levels # <<>>
                  /\ j.profiler \in BOOLEAN /\ j.status \in BOOLEAN /\ j.store \in BOOLEAN
ASSUME DatabaseAssumption == \A d \in Databases : d.before \in Nat

VARIABLES
  host, job,   \* of each pipeline
  pc,          \* of each pipeline
  then,        \* where a pipeline goes on when server.start() returns
  rev, level, iteration,
  runId,       \* run_id
  configId,    \* config_id
  server,      \* the process of each pipeline's sandbox: "down" | "starting" | "up",
               \* or under the profiler "v_starting" | "v_up"
  data,        \* its data directory: [prepared, used], used by which levels
  db           \* [use, inserted, configs, runs, rows]: the results database,
               \* with the bench_config rows inserted, by whom, and committed

at    == <<pc, then, rev, level, iteration, runId, configId>>
given == <<host, job>>
vars  == <<given, at, server, data, db>>

Empty == [prepared |-> FALSE, used |-> {}]

Init ==
  /\ host \in [Pipelines -> Hosts] /\ job \in [Pipelines -> Jobs]
  /\ pc = [p \in Pipelines |-> "stopall"] /\ then = [p \in Pipelines |-> "prepare"]
  /\ rev = [p \in Pipelines |-> 1] /\ level = [p \in Pipelines |-> 1]
  /\ iteration = [p \in Pipelines |-> 0]
  /\ runId = [p \in Pipelines |-> 0] /\ configId = [p \in Pipelines |-> 0]
  /\ server = [p \in Pipelines |-> "down"] /\ data = [p \in Pipelines |-> Empty]
  /\ \E d \in Databases :
       db = [use |-> d.use, inserted |-> {}, configs |-> {}, rows |-> {},
             runs |-> {[id |-> n, of |-> <<>>, config |-> 0] : n \in 1 .. d.before}]
-----------------------------------------------------------------------------
Concurrency(p) == job[p].levels[level[p]]
OnHost(p) == {q \in Pipelines : host[q] = host[p]}

\* ping asks port 9306 of the host, whoever's server listens there.
Up == {"up", "v_up"}
Listening(p) == {q \in OnHost(p) : server[q] \in Up}

Goto(p, l) == pc' = [pc EXCEPT ![p] = l]
Keep(p, l) == Goto(p, l) /\ UNCHANGED <<then, rev, level, iteration, runId, configId>>
Exit(p)    == Keep(p, "exit")     \* sys.exit(1): the other revisions too

\* A benchmark loses its connections with the server it is talking to.
Dies(gone) ==
  /\ server' = [q \in Pipelines |-> IF q \in gone THEN "down" ELSE server[q]]
  /\ data' = data
Lost(gone) == {p \in Pipelines : pc[p] = "running" /\ Listening(p) \cap gone # {}}
LoseRuns(gone) == [p \in Pipelines |-> IF p \in Lost(gone) THEN "lost" ELSE pc[p]]

\* server.stop(), called by p; what answers on the port is told to shut down.
Stopped(p, l) ==
  /\ Dies(Listening(p))
  /\ pc' = [LoseRuns(Listening(p)) EXCEPT ![p] = l]

\* server.stopAll(): the count of ps | grep is never zero, and killall ends the
\* host's processes of the name lt-drizzled; one under the profiler is called
\* valgrind and lives on.
Named(p) == {q \in OnHost(p) : server[q] \in {"starting", "up"}}
StopAll(p) ==
  /\ pc[p] = "stopall"
  /\ Dies(Named(p)) /\ pc' = [LoseRuns(Named(p)) EXCEPT ![p] = "ping_first"]
  /\ UNCHANGED <<then, rev, level, iteration, runId, configId, given, db>>

\* if server.ping(): server.stop()
StopPrior(p) ==
  /\ pc[p] = "ping_first"
  /\ Stopped(p, "clear") /\ then' = [then EXCEPT ![p] = "prepare"]
  /\ UNCHANGED <<rev, level, iteration, runId, configId, given, db>>

KeepData(p) ==   \* a mutant of Clear: nothing is removed
  pc[p] = "clear" /\ Keep(p, "start") /\ UNCHANGED <<server, data, given, db>>
Clear(p) ==
  /\ pc[p] = "clear" /\ Keep(p, "start")
  /\ data' = [data EXCEPT ![p] = Empty]
  /\ UNCHANGED <<server, given, db>>

\* A second drizzled on the same data directory ends by itself.  From
\* get_profile_options on the server is started under the profiler.
Start(p) ==
  /\ pc[p] = "start" /\ Keep(p, "wait")
  /\ server' = [server EXCEPT ![p] =
       IF @ # "down" THEN @
       ELSE IF job[p].profiler /\ then[p] # "prepare" THEN "v_starting" ELSE "starting"]
  /\ UNCHANGED <<data, given, db>>

\* start() returns when the port answers, or after 60 seconds; no caller here
\* looks at what it returns.
Wait(p) ==
  /\ pc[p] = "wait" /\ Keep(p, then[p])
  /\ UNCHANGED <<server, data, given, db>>

\* prepare(): drop and create the database, then sysbench prepare
Prepare(p) ==
  /\ pc[p] \in {"prepare", "again"} /\ UNCHANGED <<given, db, rev, iteration, runId, configId>>
  /\ \/ \* it succeeds
        /\ Listening(p) # {} /\ UNCHANGED <<server, then>>
        /\ data' = [q \in Pipelines |->
                      IF q \in Listening(p) THEN [prepared |-> TRUE, used |-> {}] ELSE data[q]]
        /\ Goto(p, IF pc[p] = "again" THEN "next" ELSE IF job[p].profiler THEN "profile" ELSE "ids")
        /\ UNCHANGED level
     \/ \* at first: stop the server, which may fail too, and exit
        /\ pc[p] = "prepare" /\ Stopped(p, "exit") /\ UNCHANGED <<then, level>>
     \/ \* between the levels nobody looks; the old tables are gone, or not
        /\ pc[p] = "again" /\ Goto(p, "next")
        /\ \/ data' = [q \in Pipelines |-> IF q \in Listening(p) THEN Empty ELSE data[q]]
           \/ data' = data
        /\ UNCHANGED <<server, then, level>>

\* get_profile_options: stop, and start under the profiler
Profile(p) ==
  /\ pc[p] = "profile" /\ UNCHANGED <<rev, level, iteration, runId, configId, given, db>>
  /\ then' = [then EXCEPT ![p] = "ids"]
  /\ Stopped(p, IF Listening(p) = {} THEN "exit" ELSE "start")
-----------------------------------------------------------------------------
\* getNextRunId: MAX(run_id) + 1, read long before the run is logged.  The mysql
\* client prints NULL for the maximum of nothing, which int() refuses.
NextId == 1 + Max({0} \cup {r.id : r \in db.runs})
GetNextRunId(p) ==
  /\ pc[p] = "ids" /\ UNCHANGED <<then, rev, level, iteration, configId, server, data, given, db>>
  /\ \/ ~job[p].store /\ Goto(p, "ping") /\ UNCHANGED runId
     \/ /\ job[p].store /\ db.use = "mysql" /\ db.runs = {}
        /\ Goto(p, "exit") /\ UNCHANGED runId
     \/ /\ job[p].store /\ ~(db.use = "mysql" /\ db.runs = {})
        /\ Goto(p, "config") /\ runId' = [runId EXCEPT ![p] = NextId]

\* getConfigId: select, in no order; if there is none insert, and select again.
\* The INSERT takes the next AUTO_INCREMENT value, others see the row when it is
\* committed.
GetConfigId(p) ==
  /\ pc[p] = "config" /\ UNCHANGED <<then, rev, level, iteration, runId, server, data, given, db>>
  /\ \/ db.configs = {} /\ Goto(p, "add_config") /\ UNCHANGED configId
     \/ Goto(p, "ping") /\ \E c \in db.configs : configId' = [configId EXCEPT ![p] = c]
AddConfig(p) ==
  /\ pc[p] = "add_config" /\ Keep(p, "commit") /\ UNCHANGED <<server, data, given>>
  /\ db' = [db EXCEPT !.inserted = @ \cup {<<p, 1 + Cardinality(@)>>}]
NoCommit(p) ==   \* a mutant of CommitConfig: the row is rolled back
  pc[p] = "commit" /\ Keep(p, "config") /\ UNCHANGED <<server, data, given, db>>
CommitConfig(p) ==
  /\ pc[p] = "commit" /\ Keep(p, "config") /\ UNCHANGED <<server, data, given>>
  /\ db' = [db EXCEPT !.configs = @ \cup {x[2] : x \in {y \in db.inserted : y[1] = p}}]
-----------------------------------------------------------------------------
\* Before each iteration: a server that is down is started again, without
\* clear or prepare; then the benchmark is run at once.
Ping(p) ==
  /\ pc[p] = "ping" /\ UNCHANGED <<rev, level, iteration, runId, configId, server, data, given, db>>
  /\ then' = [then EXCEPT ![p] = "run"]
  /\ Goto(p, IF Listening(p) = {} THEN "start" ELSE "run")

Run(p) ==
  /\ pc[p] = "run" /\ UNCHANGED <<server, given, db>>
  /\ \/ \E q \in Listening(p) :
          /\ data[q].prepared /\ Keep(p, "running")
          /\ data' = [data EXCEPT ![q].used = @ \cup {<<p, level[p]>>}]
     \/ Exit(p) /\ UNCHANGED data        \* it reports an error at once, or later
\* The next iteration, or what ends the level.
Iterate(p) ==
  /\ UNCHANGED <<then, rev, level, runId, configId>>
  /\ \/ /\ iteration[p] + 1 < job[p].iterations /\ Goto(p, "ping")
        /\ iteration' = [iteration EXCEPT ![p] = @ + 1]
     \/ iteration[p] + 1 = job[p].iterations /\ UNCHANGED iteration
        /\ Goto(p, IF job[p].status /\ job[p].store THEN "status" ELSE "stop")
RunEnds(p) ==
  /\ pc[p] = "running" /\ UNCHANGED <<server, data, given, db>>
  /\ IF job[p].store THEN Keep(p, "log_run") ELSE Iterate(p)

SkipLost(p) ==   \* a mutant of RunLost: on to the next iteration
  pc[p] \in {"running", "lost"} /\ Iterate(p) /\ UNCHANGED <<server, data, given, db>>
RunLost(p) ==
  pc[p] \in {"running", "lost"} /\ Exit(p) /\ UNCHANGED <<server, data, given, db>>

\* log_sysbench_run, on the first iteration at the first level; run_id is the
\* primary key of bench_runs, and an SQL error is sys.exit(1).
IsFirst(p) == Concurrency(p) = job[p].levels[1] /\ iteration[p] = 0
NewRun(p)  == [id |-> runId[p], of |-> <<p, rev[p]>>, config |-> configId[p]]
KnownId(p) == \E r \in db.runs : r.id = runId[p]
LogRunAnyway(p) ==   \* a mutant of LogRun: the error is ignored
  /\ pc[p] = "log_run" /\ Keep(p, "log_iteration") /\ UNCHANGED <<server, data, given>>
  /\ db' = IF IsFirst(p) /\ ~KnownId(p) THEN [db EXCEPT !.runs = @ \cup {NewRun(p)}] ELSE db
LogRun(p) ==
  /\ pc[p] = "log_run" /\ UNCHANGED <<server, data, given>>
  /\ \/ ~IsFirst(p) /\ Keep(p, "log_iteration") /\ UNCHANGED db
     \/ IsFirst(p) /\ KnownId(p) /\ Exit(p) /\ UNCHANGED db
     \/ /\ IsFirst(p) /\ ~KnownId(p) /\ Keep(p, "log_iteration")
        /\ db' = [db EXCEPT !.runs = @ \cup {NewRun(p)}]

\* log_sysbench_iteration: the key is run, level and iteration.
Row(p) == [id |-> runId[p], concurrency |-> Concurrency(p), iteration |-> iteration[p],
           of |-> <<p, rev[p]>>]
SameKey(r, s) == r.id = s.id /\ r.concurrency = s.concurrency /\ r.iteration = s.iteration
LogIteration(p) ==
  /\ pc[p] = "log_iteration" /\ UNCHANGED <<server, data, given>>
  /\ \/ (\E r \in db.rows : SameKey(r, Row(p))) /\ Exit(p) /\ UNCHANGED db
     \/ /\ ~\E r \in db.rows : SameKey(r, Row(p))
        /\ Iterate(p) /\ db' = [db EXCEPT !.rows = @ \cup {Row(p)}]

\* log_show_status: bench_show_status_history has one row for a run and level,
\* so the second counter is an error; no counters come from a server that is down.
LogShowStatus(p) ==
  /\ pc[p] = "status" /\ Keep(p, IF Listening(p) = {} THEN "stop" ELSE "exit")
  /\ UNCHANGED <<server, data, given, db>>

\* server.stop() exits if there is nothing to stop.  Then, unless the level is
\* the greatest: clear, start, prepare.
IsMax(p) == \A n \in DOMAIN job[p].levels : job[p].levels[n] <= Concurrency(p)
EndLevel(p) ==
  /\ pc[p] = "stop" /\ UNCHANGED <<rev, level, iteration, runId, configId, given, db>>
  /\ Stopped(p, IF Listening(p) = {} THEN "exit" ELSE IF IsMax(p) THEN "next" ELSE "clear")
  /\ then' = [then EXCEPT ![p] = "again"]

NextLevel(p) ==
  /\ pc[p] = "next" /\ UNCHANGED <<then, rev, runId, configId, server, data, given, db>>
  /\ iteration' = [iteration EXCEPT ![p] = 0]
  /\ \/ level[p] < Len(job[p].levels) /\ Goto(p, "ping") /\ level' = [level EXCEPT ![p] = @ + 1]
     \/ level[p] = Len(job[p].levels) /\ Goto(p, "done") /\ UNCHANGED level

\* runner.run: the next revision, in a sandbox of its own
NextRevision(p) ==
  /\ pc[p] = "done" /\ rev[p] < job[p].revisions
  /\ rev' = [rev EXCEPT ![p] = @ + 1] /\ level' = [level EXCEPT ![p] = 1]
  /\ Goto(p, "stopall") /\ UNCHANGED <<then, iteration, runId, configId, server, data, given, db>>
-----------------------------------------------------------------------------
\* The server comes up if the port is free, also after start() gave up; a server
\* dies at any time.
ServerUp(p) ==
  /\ server[p] \in {"starting", "v_starting"}
  /\ server' = [server EXCEPT ![p] = IF Listening(p) # {} THEN "down"
                                    ELSE IF @ = "starting" THEN "up" ELSE "v_up"]
  /\ UNCHANGED <<at, data, given, db>>
ServerDies(p) ==
  /\ server[p] # "down" /\ Dies({p}) /\ pc' = LoseRuns({p})
  /\ UNCHANGED <<then, rev, level, iteration, runId, configId, given, db>>

Next == \E p \in Pipelines :
  \/ StopAll(p) \/ StopPrior(p) \/ Clear(p) \/ Start(p) \/ Wait(p) \/ Prepare(p) \/ Profile(p)
  \/ GetNextRunId(p) \/ GetConfigId(p) \/ AddConfig(p) \/ CommitConfig(p)
  \/ Ping(p) \/ Run(p) \/ RunLost(p) \/ RunEnds(p) \/ LogRun(p) \/ LogIteration(p)
  \/ LogShowStatus(p) \/ EndLevel(p) \/ NextLevel(p) \/ NextRevision(p)
  \/ ServerUp(p) \/ ServerDies(p)

Spec == Init /\ [][Next]_vars
-----------------------------------------------------------------------------
Labels == {"stopall", "ping_first", "clear", "start", "wait", "prepare", "again", "profile", "ids",
  "config", "add_config", "commit", "ping", "run", "running", "lost", "log_run", "log_iteration",
  "status", "stop", "next", "done", "exit"}

\* The types of the state, and one listener on a host's port (server.ping).
TypeOK ==
  /\ host \in [Pipelines -> Hosts] /\ job \in [Pipelines -> Jobs]
  /\ pc \in [Pipelines -> Labels] /\ then \in [Pipelines -> {"prepare", "again", "ids", "run"}]
  /\ \A p \in Pipelines : rev[p] \in 1 .. job[p].revisions /\ level[p] \in DOMAIN job[p].levels
                          /\ iteration[p] \in 0 .. job[p].iterations - 1
                          /\ Cardinality(Listening(p)) <= 1
  /\ runId \in [Pipelines -> Nat] /\ configId \in [Pipelines -> Nat]
  /\ server \in [Pipelines -> {"down", "starting", "up", "v_starting", "v_up"}]
  /\ \A p \in Pipelines : DOMAIN data[p] = {"prepared", "used"} /\ data[p].prepared \in BOOLEAN
                          /\ data[p].used \subseteq Pipelines \X Nat
  /\ db.inserted \subseteq Pipelines \X Nat /\ db.configs \subseteq {x[2] : x \in db.inserted}

\* Although a run id is read long before it is written, the results under an id
\* are all of the pipeline and revision that bench_runs names (log_sysbench_run
\* before log_sysbench_iteration).
ResultsAttributed == \A row \in db.rows : \E r \in db.runs : r.id = row.id /\ r.of = row.of

\* Pipelines that all find no configuration each insert it, and the name has as
\* many rows as did.  Still a pipeline inserts once, for it sees the row it has
\* committed, no two rows have one id, and every run that is logged carries the
\* id of a committed row, so that the reports' join by the name finds it
\* (getConfigId, execute_sql).
ConfigsServe ==
  /\ \A x, y \in db.inserted : x[1] = y[1] \/ x[2] = y[2] => x = y
  /\ \A r \in db.runs : r.of # <<>> => r.config \in db.configs
Consistent == TypeOK /\ ConfigsServe

\* A revision that counts as done has logged each iteration of each level
\* (execute returns True; failures exit).
Complete == \A p \in Pipelines : pc[p] = "done" /\ job[p].store =>
  \A n \in DOMAIN job[p].levels, i \in 0 .. job[p].iterations - 1 :
    \E r \in db.rows : r.of = <<p, rev[p]>> /\ r.id = runId[p]
                       /\ r.concurrency = job[p].levels[n] /\ r.iteration = i

Alone(p) == OnHost(p) = {p}
Rising(p) == \A m, n \in DOMAIN job[p].levels : m < n => job[p].levels[m] < job[p].levels[n]

\* No level is run on data another level has changed ("Clear data files and
\* restart the server after each concurrency run", sysbench/run.py:360), for a
\* pipeline alone on its host and levels that rise.
FreshIfRising == \A p \in Pipelines : pc[p] = "running" /\ Alone(p) /\ Rising(p) =>
  data[p].used = {<<p, level[p]>>}

=============================================================================
