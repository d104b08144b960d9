------------------------ MODULE BenchPipelineProofs -------------------------
(***************************************************************************)
(* Proofs about BenchPipeline, for any pipelines, hosts and jobs.  A       *)
(* pipeline's place in its program is reduced to the stage of a revision,  *)
(* and its actions to the nine kinds of step between stages: what the      *)
(* database says is then proved of the kinds.                              *)
(***************************************************************************)
EXTENDS BenchPipeline, FiniteSetTheorems, TLAPS

\* The stage of a revision, from pc and, in the procedure that starts a server,
\* from where the procedure returns to.
StageAt(l) ==
  IF l \in {"ping", "run", "running", "lost", "log_run"} THEN "working"
  ELSE IF l = "log_iteration" THEN "logging"
  ELSE IF l \in {"status", "stop", "again", "next"} THEN "level_done"
  ELSE IF l \in {"done", "exit"} THEN l ELSE "setting"
StageOf(l, t) == StageAt(IF l \in {"clear", "start", "wait"} THEN t ELSE l)
Stage(p) == StageOf(pc[p], then[p])

Iterations(p) == 0 .. job[p].iterations - 1
LevelsOf(p)   == 1 .. Len(job[p].levels)

Servers == {"down", "starting", "up", "v_starting", "v_up"}

Typed ==
  /\ host \in [Pipelines -> Hosts] /\ job \in [Pipelines -> Jobs]
  /\ pc \in [Pipelines -> Labels] /\ then \in [Pipelines -> {"prepare", "again", "ids", "run"}]
  /\ rev \in [Pipelines -> Nat] /\ level \in [Pipelines -> Nat] /\ iteration \in [Pipelines -> Nat]
  /\ runId \in [Pipelines -> Nat] /\ configId \in [Pipelines -> Nat]
  /\ server \in [Pipelines -> Servers]
  /\ data \in [Pipelines -> [prepared : BOOLEAN, used : SUBSET (Pipelines \X Nat)]]
  /\ db = [use |-> db.use, inserted |-> db.inserted, configs |-> db.configs,
           runs |-> db.runs, rows |-> db.rows]
  /\ db.inserted \in SUBSET (Pipelines \X Nat) /\ IsFiniteSet(db.inserted)

\* Where a revision stands.
Ranges(p) ==
  rev[p] \in 1 .. job[p].revisions /\ level[p] \in LevelsOf(p) /\ iteration[p] \in Iterations(p)
Placed(p) ==
  /\ Ranges(p)
  /\ Stage(p) = "setting" => level[p] = 1 /\ iteration[p] = 0
  /\ Stage(p) = "done" => level[p] = Len(job[p].levels) /\ iteration[p] = 0
  /\ pc[p] \in {"log_run", "log_iteration"} => job[p].store

\* What bench_runs must know of a revision that has logged an iteration.
Logged(p) == \E r \in db.runs : r.id = runId[p] /\ r.of = <<p, rev[p]>>
Started(p) ==
  /\ job[p].store
  /\ \/ Stage(p) \in {"logging", "level_done"}
     \/ Stage(p) = "working" /\ (level[p] # 1 \/ iteration[p] # 0)
  => Logged(p)

\* bench_iterations: everything before the place of the revision is there.
Has(p, n, i) == \E r \in db.rows : r.of = <<p, rev[p]>> /\ r.id = runId[p]
                                   /\ r.concurrency = job[p].levels[n] /\ r.iteration = i
Behind(p, n, i) ==
  \/ n < level[p]
  \/ n = level[p] /\ (i < iteration[p] \/ Stage(p) \in {"level_done", "done"})
Progress(p) ==
  job[p].store /\ Stage(p) \in {"working", "logging", "level_done", "done"} =>
    \A n \in LevelsOf(p), i \in Iterations(p) : Behind(p, n, i) => Has(p, n, i)

\* The rows of bench_config.  A pipeline's row is committed before the pipeline
\* looks again, so it never inserts another; the ids inserted are all used up to
\* the next AUTO_INCREMENT value.
Configured(p) ==
  job[p].store /\ Stage(p) \in {"working", "logging", "level_done"} => configId[p] \in db.configs
Configs ==
  /\ db.configs \subseteq {x[2] : x \in db.inserted}
  /\ \A x \in db.inserted : x[2] <= Cardinality(db.inserted)
  /\ ConfigsServe
Inserting ==
  /\ \A x \in db.inserted : x[2] \in db.configs \/ pc[x[1]] = "commit"
  /\ \A p \in Pipelines : pc[p] = "add_config" => \A x \in db.inserted : x[1] # p

\* The last run id, and one run for each.
RunIds ==
  /\ \A r \in db.runs : r.id \in Nat
  /\ \E m \in {0} \cup {r.id : r \in db.runs} : \A r \in db.runs : r.id <= m
  /\ \A r, s \in db.runs : r.id = s.id => r = s

\* One server of a host listens.
OneListener == \A p, q \in Pipelines :
  host[p] = host[q] /\ server[p] \in Up /\ server[q] \in Up => p = q

\* What the data directory has been used for, of a pipeline that has its host
\* for itself and levels that rise.
Unused(p) ==
  \/ pc[p] \in {"start", "wait"} /\ then[p] # "run"
  \/ pc[p] \in {"prepare", "again", "profile", "ids", "config", "add_config", "commit"}
  \/ pc[p] = "next" /\ level[p] < Len(job[p].levels)
InUse(p) ==
  \/ pc[p] \in {"start", "wait"} /\ then[p] = "run"
  \/ pc[p] \in {"ping", "run", "running", "lost", "log_run", "log_iteration", "status", "stop"}
Fresh(p) == Alone(p) /\ Rising(p) =>
  /\ Unused(p) => data[p].used = {}
  /\ InUse(p)  => data[p].used \subseteq {<<p, level[p]>>}
  /\ pc[p] = "running" => <<p, level[p]>> \in data[p].used

IInv ==
  /\ Typed /\ Configs /\ Inserting /\ RunIds /\ OneListener /\ ResultsAttributed
  /\ \A p \in Pipelines : Placed(p) /\ Started(p) /\ Progress(p) /\ Configured(p) /\ Fresh(p)
-----------------------------------------------------------------------------
(* The kinds of step.                                                       *)
DbKept  == db' = db
Stays(p) == rev'[p] = rev[p] /\ level'[p] = level[p] /\ iteration'[p] = iteration[p]
Same(p) == Stage(p)' = Stage(p) /\ Stays(p) /\ runId'[p] = runId[p] /\ configId'[p] = configId[p]
Turns(p, from, to) == Stage(p) = from /\ Stage(p)' = to

Rests(p)  == Same(p) /\ DbKept
Quits(p)  == Stage(p)' = "exit" /\ Stays(p) /\ DbKept
SetsUp(p) ==
  /\ Turns(p, "setting", "setting") /\ Stays(p)
  /\ db'.runs = db.runs /\ db'.rows = db.rows
Begins(p) ==
  /\ Turns(p, "setting", "working") /\ Stays(p) /\ DbKept /\ runId'[p] = runId[p]
  /\ job[p].store => configId'[p] \in db.configs
LogsRun(p) ==
  /\ Turns(p, "working", "logging") /\ Stays(p) /\ runId'[p] = runId[p] /\ configId'[p] = configId[p]
  /\ job[p].store /\ db'.rows = db.rows
  /\ \/ ~IsFirst(p) /\ db'.runs = db.runs
     \/ IsFirst(p) /\ ~KnownId(p) /\ db'.runs = db.runs \cup {NewRun(p)}
Onward(p) ==
  /\ rev'[p] = rev[p] /\ level'[p] = level[p] /\ runId'[p] = runId[p] /\ configId'[p] = configId[p]
  /\ \/ /\ iteration[p] + 1 < job[p].iterations /\ iteration'[p] = iteration[p] + 1
        /\ Stage(p)' = "working"
     \/ /\ iteration[p] + 1 = job[p].iterations /\ iteration'[p] = iteration[p]
        /\ Stage(p)' = "level_done"
LogsRow(p) ==
  /\ Stage(p) = "logging" /\ Onward(p)
  /\ db'.runs = db.runs /\ db'.rows = db.rows \cup {Row(p)}
Skips(p) == Stage(p) = "working" /\ ~job[p].store /\ Onward(p) /\ DbKept
Climbs(p) ==
  /\ Stage(p) = "level_done" /\ iteration'[p] = 0 /\ DbKept
  /\ rev'[p] = rev[p] /\ runId'[p] = runId[p] /\ configId'[p] = configId[p]
  /\ \/ level[p] < Len(job[p].levels) /\ level'[p] = level[p] + 1 /\ Stage(p)' = "working"
     \/ level[p] = Len(job[p].levels) /\ level'[p] = level[p] /\ Stage(p)' = "done"
Revises(p) ==
  /\ Turns(p, "done", "setting") /\ iteration'[p] = iteration[p] /\ DbKept
  /\ rev[p] < job[p].revisions /\ rev'[p] = rev[p] + 1 /\ level'[p] = 1
Kind(p) ==
  \/ Rests(p) \/ Quits(p) \/ SetsUp(p) \/ Begins(p) \/ LogsRun(p) \/ LogsRow(p)
  \/ Skips(p) \/ Climbs(p) \/ Revises(p)
OthersSame(p) == \A q \in Pipelines \ {p} : Same(q)
StepOf(p) ==
  \/ StopAll(p) \/ StopPrior(p) \/ Clear(p) \/ Start(p) \/ Wait(p) \/ Prepare(p) \/ Profile(p)
  \/ GetNextRunId(p) \/ GetConfigId(p) \/ AddConfig(p) \/ CommitConfig(p)
  \/ Ping(p) \/ Run(p) \/ RunLost(p) \/ RunEnds(p) \/ LogRun(p) \/ LogIteration(p)
  \/ LogShowStatus(p) \/ EndLevel(p) \/ NextLevel(p) \/ NextRevision(p)
  \/ ServerUp(p) \/ ServerDies(p)

LEMMA StepTaken == Next <=> \E p \in Pipelines : StepOf(p)
  BY DEF Next, StepOf

\* Another pipeline loses a benchmark, at most.
OnlyAt(p) == \A q \in Pipelines \ {p} :
  /\ pc'[q] = pc[q] \/ (pc[q] = "running" /\ pc'[q] = "lost")
  /\ then'[q] = then[q] /\ Stays(q) /\ runId'[q] = runId[q] /\ configId'[q] = configId[q]

LEMMA OthersKept ==
  ASSUME NEW p \in Pipelines, OnlyAt(p)
  PROVE  OthersSame(p)
  BY DEF OnlyAt, OthersSame, Same, Stage, StageOf, StageAt

LEMMA Others ==
  ASSUME Typed, NEW p \in Pipelines, StepOf(p)
  PROVE  OnlyAt(p)
  <1>1. CASE StopAll(p)
    BY <1>1 DEF StopAll, LoseRuns, Lost, Dies, OnlyAt, Typed, Stays, Goto, Keep, Exit, given, at
  <1>2. CASE StopPrior(p)
    BY <1>2 DEF StopPrior, Stopped, LoseRuns, Lost, Dies, OnlyAt, Typed, Stays, Goto, Keep,
      Exit, given, at
  <1>3. CASE Clear(p)
    BY <1>3 DEF Clear, OnlyAt, Typed, Stays, Goto, Keep, Exit, given, at
  <1>4. CASE Start(p)
    BY <1>4 DEF Start, OnlyAt, Typed, Stays, Goto, Keep, Exit, given, at
  <1>5. CASE Wait(p)
    BY <1>5 DEF Wait, OnlyAt, Typed, Stays, Goto, Keep, Exit, given, at
  <1>6. CASE Prepare(p)
    BY <1>6 DEF Prepare, Stopped, LoseRuns, Lost, Dies, OnlyAt, Typed, Stays, Goto, Keep, Exit,
      given, at
  <1>7. CASE Profile(p)
    BY <1>7 DEF Profile, Stopped, LoseRuns, Lost, Dies, OnlyAt, Typed, Stays, Goto, Keep, Exit,
      given, at
  <1>8. CASE GetNextRunId(p)
    BY <1>8 DEF GetNextRunId, OnlyAt, Typed, Stays, Goto, Keep, Exit, given, at
  <1>9. CASE GetConfigId(p)
    BY <1>9 DEF GetConfigId, OnlyAt, Typed, Stays, Goto, Keep, Exit, given, at
  <1>10. CASE AddConfig(p)
    BY <1>10 DEF AddConfig, OnlyAt, Typed, Stays, Goto, Keep, Exit, given, at
  <1>11. CASE Ping(p)
    BY <1>11 DEF Ping, OnlyAt, Typed, Stays, Goto, Keep, Exit, given, at
  <1>12. CASE Run(p)
    BY <1>12 DEF Run, OnlyAt, Typed, Stays, Goto, Keep, Exit, given, at
  <1>13. CASE RunLost(p)
    BY <1>13 DEF RunLost, OnlyAt, Typed, Stays, Goto, Keep, Exit, given, at
  <1>14. CASE RunEnds(p)
    BY <1>14 DEF RunEnds, Iterate, OnlyAt, Typed, Stays, Goto, Keep, Exit, given, at
  <1>15. CASE LogRun(p)
    BY <1>15 DEF LogRun, OnlyAt, Typed, Stays, Goto, Keep, Exit, given, at
  <1>16. CASE LogIteration(p)
    BY <1>16 DEF LogIteration, Iterate, OnlyAt, Typed, Stays, Goto, Keep, Exit, given, at
  <1>17. CASE LogShowStatus(p)
    BY <1>17 DEF LogShowStatus, OnlyAt, Typed, Stays, Goto, Keep, Exit, given, at
  <1>18. CASE EndLevel(p)
    BY <1>18 DEF EndLevel, Stopped, LoseRuns, Lost, Dies, OnlyAt, Typed, Stays, Goto, Keep,
      Exit, given, at
  <1>19. CASE NextLevel(p)
    BY <1>19 DEF NextLevel, OnlyAt, Typed, Stays, Goto, Keep, Exit, given, at
  <1>20. CASE NextRevision(p)
    BY <1>20 DEF NextRevision, OnlyAt, Typed, Stays, Goto, Keep, Exit, given, at
  <1>21. CASE ServerUp(p)
    BY <1>21 DEF ServerUp, OnlyAt, Typed, Stays, Goto, Keep, Exit, given, at
  <1>22. CASE ServerDies(p)
    BY <1>22 DEF ServerDies, LoseRuns, Lost, Dies, OnlyAt, Typed, Stays, Goto, Keep, Exit, given, at
  <1>23. CASE CommitConfig(p)
    BY <1>23 DEF CommitConfig, OnlyAt, Typed, Stays, Goto, Keep, Exit, given, at
  <1> QED
    BY <1>1, <1>2, <1>3, <1>4, <1>5, <1>6, <1>7, <1>8, <1>9, <1>10, <1>11, <1>12, <1>13, <1>14,
      <1>15, <1>16, <1>17, <1>18, <1>19, <1>20, <1>21, <1>22, <1>23 DEF StepOf

LEMMA Kinds ==
  ASSUME Typed, NEW p \in Pipelines, StepOf(p),
         pc[p] \in {"log_run", "log_iteration"} => job[p].store
  PROVE  Kind(p)
  <1> USE DEF Typed, Stage, StageOf, StageAt, Stays, Goto, Keep, Exit
  <1>1. CASE StopAll(p)
    <2>1. Rests(p)
      BY <1>1 DEF StopAll, Rests, DbKept, Same, LoseRuns, Lost, Dies, given
    <2> QED
      BY <2>1 DEF Kind
  <1>2. CASE StopPrior(p)
    <2>1. Rests(p)
      BY <1>2 DEF StopPrior, Rests, DbKept, Same, Stopped, LoseRuns, Lost, Dies, given
    <2> QED
      BY <2>1 DEF Kind
  <1>3. CASE Clear(p)
    <2>1. Rests(p)
      BY <1>3 DEF Clear, Rests, DbKept, Same, given
    <2> QED
      BY <2>1 DEF Kind
  <1>4. CASE Start(p)
    <2>1. Rests(p)
      BY <1>4 DEF Start, Rests, DbKept, Same, given
    <2> QED
      BY <2>1 DEF Kind
  <1>5. CASE Wait(p)
    <2>1. Rests(p)
      BY <1>5 DEF Wait, Rests, DbKept, Same, given
    <2> QED
      BY <2>1 DEF Kind
  <1>6. CASE Prepare(p)
    <2>1. Rests(p) \/ Begins(p) \/ Quits(p)
      BY <1>6 DEF Prepare, Rests, Begins, Quits, DbKept, Same, Stopped, LoseRuns, Lost, Dies, given
    <2> QED
      BY <2>1 DEF Kind
  <1>7. CASE Profile(p)
    <2>1. Rests(p) \/ Quits(p)
      BY <1>7 DEF Profile, Rests, Quits, DbKept, Same, Stopped, LoseRuns, Lost, Dies, given
    <2> QED
      BY <2>1 DEF Kind
  <1>8. CASE GetNextRunId(p)
    <2>1. Begins(p) \/ SetsUp(p) \/ Quits(p)
      BY <1>8 DEF GetNextRunId, Begins, SetsUp, Quits, Turns, DbKept, given
    <2> QED
      BY <2>1 DEF Kind
  <1>9. CASE GetConfigId(p)
    <2>1. Begins(p) \/ SetsUp(p)
      BY <1>9 DEF GetConfigId, Begins, SetsUp, Turns, DbKept, given
    <2> QED
      BY <2>1 DEF Kind
  <1>10. CASE AddConfig(p)
    <2>1. SetsUp(p)
      BY <1>10 DEF AddConfig, SetsUp, Turns, DbKept, given
    <2> QED
      BY <2>1 DEF Kind
  <1>11. CASE Ping(p)
    <2>1. Rests(p)
      BY <1>11 DEF Ping, Rests, DbKept, Same, given
    <2> QED
      BY <2>1 DEF Kind
  <1>12. CASE Run(p)
    <2>1. Rests(p) \/ Quits(p)
      BY <1>12 DEF Run, Rests, Quits, DbKept, Same, given
    <2> QED
      BY <2>1 DEF Kind
  <1>13. CASE RunLost(p)
    <2>1. Quits(p)
      BY <1>13 DEF RunLost, Quits, DbKept, given
    <2> QED
      BY <2>1 DEF Kind
  <1>14. CASE RunEnds(p)
    <2>1. Rests(p) \/ Skips(p)
      BY <1>14 DEF RunEnds, Rests, Skips, Onward, DbKept, Same, Iterate, given
    <2> QED
      BY <2>1 DEF Kind
  <1>15. CASE LogRun(p)
    <2>1. CASE ~IsFirst(p) /\ Keep(p, "log_iteration") /\ UNCHANGED db
      <3>1. LogsRun(p)
        BY <1>15, <2>1 DEF LogRun, LogsRun, Turns
      <3> QED
        BY <3>1 DEF Kind
    <2>2. CASE IsFirst(p) /\ KnownId(p) /\ Exit(p) /\ UNCHANGED db
      <3>1. Quits(p)
        BY <1>15, <2>2 DEF LogRun, Quits, DbKept
      <3> QED
        BY <3>1 DEF Kind
    <2>3. CASE /\ IsFirst(p) /\ ~KnownId(p) /\ Keep(p, "log_iteration")
               /\ db' = [db EXCEPT !.runs = @ \cup {NewRun(p)}]
      <3>1. LogsRun(p)
        BY <1>15, <2>3 DEF LogRun, LogsRun, Turns
      <3> QED
        BY <3>1 DEF Kind
    <2> QED
      BY <1>15, <2>1, <2>2, <2>3 DEF LogRun
  <1>16. CASE LogIteration(p)
    <2>1. LogsRow(p) \/ Quits(p)
      BY <1>16 DEF LogIteration, LogsRow, Onward, Quits, DbKept, Iterate, given
    <2> QED
      BY <2>1 DEF Kind
  <1>17. CASE LogShowStatus(p)
    <2>1. Rests(p) \/ Quits(p)
      BY <1>17 DEF LogShowStatus, Rests, Quits, DbKept, Same, given
    <2> QED
      BY <2>1 DEF Kind
  <1>18. CASE EndLevel(p)
    <2>1. Rests(p) \/ Quits(p)
      BY <1>18 DEF EndLevel, Rests, Quits, DbKept, Same, Stopped, LoseRuns, Lost, Dies, given
    <2> QED
      BY <2>1 DEF Kind
  <1>19. CASE NextLevel(p)
    <2>1. Climbs(p)
      BY <1>19 DEF NextLevel, Climbs, DbKept, given
    <2> QED
      BY <2>1 DEF Kind
  <1>20. CASE NextRevision(p)
    <2>1. Revises(p)
      BY <1>20 DEF NextRevision, Revises, Turns, DbKept, given
    <2> QED
      BY <2>1 DEF Kind
  <1>21. CASE ServerUp(p)
    <2>1. Rests(p)
      BY <1>21 DEF ServerUp, Rests, DbKept, Same, at, given
    <2> QED
      BY <2>1 DEF Kind
  <1>22. CASE ServerDies(p)
    <2>1. Rests(p)
      BY <1>22 DEF ServerDies, Rests, DbKept, Same, LoseRuns, Lost, Dies, at, given
    <2> QED
      BY <2>1 DEF Kind
  <1>23. CASE CommitConfig(p)
    <2>1. SetsUp(p)
      BY <1>23 DEF CommitConfig, SetsUp, Turns, DbKept, given
    <2> QED
      BY <2>1 DEF Kind
  <1> QED
    BY <1>1, <1>2, <1>3, <1>4, <1>5, <1>6, <1>7, <1>8, <1>9, <1>10, <1>11, <1>12, <1>13, <1>14,
      <1>15, <1>16, <1>17, <1>18, <1>19, <1>20, <1>21, <1>22, <1>23 DEF StepOf

LEMMA Storing ==
  ASSUME Typed, NEW p \in Pipelines, StepOf(p),
         pc[p] \in {"log_run", "log_iteration"} => job[p].store
  PROVE  pc'[p] \in {"log_run", "log_iteration"} => job[p].store
  <1> USE DEF Typed, Goto, Keep, Exit
  <1>1. CASE StopAll(p)
    BY <1>1 DEF StopAll, LoseRuns, Lost, Dies
  <1>2. CASE StopPrior(p)
    BY <1>2 DEF StopPrior, Stopped, LoseRuns, Lost, Dies
  <1>3. CASE Clear(p)
    BY <1>3 DEF Clear
  <1>4. CASE Start(p)
    BY <1>4 DEF Start
  <1>5. CASE Wait(p)
    BY <1>5 DEF Wait
  <1>6. CASE Prepare(p)
    BY <1>6 DEF Prepare, Stopped, LoseRuns, Lost, Dies
  <1>7. CASE Profile(p)
    BY <1>7 DEF Profile, Stopped, LoseRuns, Lost, Dies
  <1>8. CASE GetNextRunId(p)
    BY <1>8 DEF GetNextRunId
  <1>9. CASE GetConfigId(p)
    BY <1>9 DEF GetConfigId
  <1>10. CASE AddConfig(p)
    BY <1>10 DEF AddConfig
  <1>11. CASE Ping(p)
    BY <1>11 DEF Ping
  <1>12. CASE Run(p)
    BY <1>12 DEF Run
  <1>13. CASE RunLost(p)
    BY <1>13 DEF RunLost
  <1>14. CASE RunEnds(p)
    BY <1>14 DEF RunEnds, Iterate
  <1>15. CASE LogRun(p)
    BY <1>15 DEF LogRun
  <1>16. CASE LogIteration(p)
    BY <1>16 DEF LogIteration, Iterate
  <1>17. CASE LogShowStatus(p)
    BY <1>17 DEF LogShowStatus
  <1>18. CASE EndLevel(p)
    BY <1>18 DEF EndLevel, Stopped, LoseRuns, Lost, Dies
  <1>19. CASE NextLevel(p)
    BY <1>19 DEF NextLevel
  <1>20. CASE NextRevision(p)
    BY <1>20 DEF NextRevision
  <1>21. CASE ServerUp(p)
    BY <1>21 DEF ServerUp, at
  <1>22. CASE ServerDies(p)
    BY <1>22 DEF ServerDies, LoseRuns, Lost, Dies, at
  <1>23. CASE CommitConfig(p)
    BY <1>23 DEF CommitConfig
  <1> QED
    BY <1>1, <1>2, <1>3, <1>4, <1>5, <1>6, <1>7, <1>8, <1>9, <1>10, <1>11, <1>12, <1>13, <1>14,
      <1>15, <1>16, <1>17, <1>18, <1>19, <1>20, <1>21, <1>22, <1>23 DEF StepOf
-----------------------------------------------------------------------------
LEMMA Given ==
  ASSUME NEW p \in Pipelines, StepOf(p)
  PROVE  UNCHANGED given
  BY DEF StepOf, StopAll, StopPrior, Clear, Start, Wait, Prepare, Profile, GetNextRunId, GetConfigId,
    AddConfig, CommitConfig, Ping, Run, RunLost, RunEnds, LogRun, LogIteration, LogShowStatus, EndLevel, NextLevel,
    NextRevision, ServerUp, ServerDies, given

LEMMA JobTypes ==
  ASSUME Typed, NEW p \in Pipelines
  PROVE  /\ Len(job[p].levels) \in Nat \ {0} /\ job[p].iterations \in Nat \ {0}
         /\ job[p].revisions \in Nat \ {0} /\ job[p].store \in BOOLEAN
         /\ \A n \in LevelsOf(p) : job[p].levels[n] \in Nat
  <1>1. job[p] \in Jobs
    BY DEF Typed
  <1>2. job[p].levels \in Seq(Nat) /\ job[p].levels # <<>>
    BY <1>1, BenchAssumption
  <1>3. Len(job[p].levels) \in Nat \ {0} /\ \A n \in LevelsOf(p) : job[p].levels[n] \in Nat
    BY <1>2 DEF LevelsOf
  <1> QED
    BY <1>1, <1>3, BenchAssumption

\* How bench_config changes, and the places of the program that change it.
ConfigStep(p) ==
  \/ AddConfig(p) \/ CommitConfig(p)
  \/ /\ db'.inserted = db.inserted /\ db'.configs = db.configs
     /\ pc[p] = "commit" => pc'[p] = "commit"
     /\ pc'[p] = "add_config" => pc[p] = "add_config" \/ (pc[p] = "config" /\ db.configs = {})

LEMMA ConfigSteps ==
  ASSUME Typed, NEW p \in Pipelines, StepOf(p)
  PROVE  ConfigStep(p)
  <1> USE DEF Typed, Goto, Keep, Exit, ConfigStep
  <1>1. CASE StopAll(p)
    BY <1>1 DEF StopAll, LoseRuns, Lost, Dies
  <1>2. CASE StopPrior(p)
    BY <1>2 DEF StopPrior, Stopped, LoseRuns, Lost, Dies
  <1>3. CASE Clear(p)
    BY <1>3 DEF Clear
  <1>4. CASE Start(p)
    BY <1>4 DEF Start
  <1>5. CASE Wait(p)
    BY <1>5 DEF Wait
  <1>6. CASE Prepare(p)
    BY <1>6 DEF Prepare, Stopped, LoseRuns, Lost, Dies
  <1>7. CASE Profile(p)
    BY <1>7 DEF Profile, Stopped, LoseRuns, Lost, Dies
  <1>8. CASE GetNextRunId(p)
    BY <1>8 DEF GetNextRunId
  <1>9. CASE GetConfigId(p)
    BY <1>9 DEF GetConfigId
  <1>10. CASE AddConfig(p)
    BY <1>10
  <1>11. CASE Ping(p)
    BY <1>11 DEF Ping
  <1>12. CASE Run(p)
    BY <1>12 DEF Run
  <1>13. CASE RunLost(p)
    BY <1>13 DEF RunLost
  <1>14. CASE RunEnds(p)
    BY <1>14 DEF RunEnds, Iterate
  <1>15. CASE LogRun(p)
    BY <1>15 DEF LogRun
  <1>16. CASE LogIteration(p)
    BY <1>16 DEF LogIteration, Iterate
  <1>17. CASE LogShowStatus(p)
    BY <1>17 DEF LogShowStatus
  <1>18. CASE EndLevel(p)
    BY <1>18 DEF EndLevel, Stopped, LoseRuns, Lost, Dies
  <1>19. CASE NextLevel(p)
    BY <1>19 DEF NextLevel
  <1>20. CASE NextRevision(p)
    BY <1>20 DEF NextRevision
  <1>21. CASE ServerUp(p)
    BY <1>21 DEF ServerUp, at
  <1>22. CASE ServerDies(p)
    BY <1>22 DEF ServerDies, LoseRuns, Lost, Dies, at
  <1>23. CASE CommitConfig(p)
    BY <1>23
  <1> QED
    BY <1>1, <1>2, <1>3, <1>4, <1>5, <1>6, <1>7, <1>8, <1>9, <1>10, <1>11, <1>12, <1>13, <1>14,
      <1>15, <1>16, <1>17, <1>18, <1>19, <1>20, <1>21, <1>22, <1>23 DEF StepOf

LEMMA ConfigsGrow ==
  ASSUME NEW p \in Pipelines, ConfigStep(p), Typed
  PROVE  db.configs \subseteq db'.configs
  BY DEF ConfigStep, AddConfig, CommitConfig, Typed

\* What a step of p assumes and says.
Steps(p) == IInv /\ Kind(p) /\ ConfigStep(p) /\ OthersSame(p) /\ UNCHANGED given

LEMMA PlacedKept ==
  ASSUME NEW p \in Pipelines, Steps(p), pc'[p] \in {"log_run", "log_iteration"} => job[p].store
  PROVE  Placed(p)'
  <1>1. Placed(p) /\ job'[p] = job[p]
    BY DEF Steps, IInv, given
  <1>2. Ranges(p)'
    <2>1. /\ rev[p] \in 1 .. job[p].revisions /\ level[p] \in 1 .. Len(job[p].levels)
          /\ iteration[p] \in 0 .. job[p].iterations - 1
      BY <1>1 DEF Placed, Ranges, LevelsOf, Iterations
    <2>2. /\ Len(job[p].levels) \in Nat \ {0} /\ job[p].iterations \in Nat \ {0}
          /\ job[p].revisions \in Nat \ {0} /\ rev[p] \in Nat /\ level[p] \in Nat /\ iteration[p] \in Nat
      BY JobTypes DEF Steps, IInv, Typed
    <2> USE DEF Steps, Kind, Rests, Same, Stays, Quits, SetsUp, Begins, LogsRun, LogsRow, Skips, Onward,
      Climbs, Revises
    <2>3. rev'[p] = rev[p] \/ (rev'[p] = rev[p] + 1 /\ rev[p] < job[p].revisions)
      OBVIOUS
    <2>4. level'[p] = level[p] \/ level'[p] = 1 \/ (level'[p] = level[p] + 1 /\ level[p] < Len(job[p].levels))
      OBVIOUS
    <2>5. \/ iteration'[p] = iteration[p] \/ iteration'[p] = 0
          \/ iteration'[p] = iteration[p] + 1 /\ iteration[p] + 1 < job[p].iterations
      OBVIOUS
    <2> HIDE DEF Steps, Kind, Rests, Same, Stays, Quits, SetsUp, Begins, LogsRun, LogsRow, Skips, Onward,
      Climbs, Revises
    <2>6. rev'[p] \in 1 .. job[p].revisions
      BY <2>1, <2>2, <2>3
    <2>7. level'[p] \in 1 .. Len(job[p].levels)
      BY <2>1, <2>2, <2>4
    <2>8. iteration'[p] \in 0 .. job[p].iterations - 1
      BY <2>1, <2>2, <2>5
    <2> QED
      BY <1>1, <2>6, <2>7, <2>8 DEF Ranges, LevelsOf, Iterations
  <1>3. Stage(p)' = "setting" => level'[p] = 1 /\ iteration'[p] = 0
    BY <1>1 DEF Steps, Kind, Placed, Rests, Same, Stays, Quits, SetsUp, Begins, Turns, LogsRun,
      LogsRow, Skips, Onward, Climbs, Revises
  <1>4. Stage(p)' = "done" => level'[p] = Len(job'[p].levels) /\ iteration'[p] = 0
    BY <1>1 DEF Steps, Kind, Placed, Rests, Same, Stays, Quits, SetsUp, Begins, Turns, LogsRun,
      LogsRow, Skips, Onward, Climbs, Revises
  <1> QED
    BY <1>1, <1>2, <1>3, <1>4 DEF Placed

\* Only two kinds of step write results, each of them one row.
LEMMA DbSteps ==
  ASSUME NEW p \in Pipelines, Steps(p)
  PROVE  \/ db'.runs = db.runs /\ db'.rows = db.rows
         \/ /\ LogsRun(p) /\ IsFirst(p) /\ ~KnownId(p)
            /\ db'.runs = db.runs \cup {NewRun(p)} /\ db'.rows = db.rows
         \/ LogsRow(p) /\ db'.runs = db.runs /\ db'.rows = db.rows \cup {Row(p)}
  BY DEF Steps, Kind, Rests, Quits, SetsUp, Begins, LogsRun, LogsRow, Skips, Climbs, Revises, DbKept

LEMMA DbGrows ==
  ASSUME NEW p \in Pipelines, Steps(p)
  PROVE  db.runs \subseteq db'.runs /\ db.rows \subseteq db'.rows
  BY DbSteps

\* Whoever has logged an iteration has logged its run.
LEMMA StartedKept ==
  ASSUME NEW p \in Pipelines, Steps(p)
  PROVE  Started(p)'
  <1>1. /\ Placed(p) /\ Started(p)
        /\ rev[p] \in Nat /\ level[p] \in Nat /\ iteration[p] \in Nat /\ job[p] = job'[p]
        /\ db.runs \subseteq db'.runs
        /\ Len(job[p].levels) \in Nat \ {0} /\ job[p].iterations \in Nat \ {0}
    BY JobTypes, DbGrows DEF Steps, IInv, Typed, given
  <1>11. CASE Rests(p)
    BY <1>11, <1>1 DEF Rests, Same, Placed, LevelsOf, Iterations, Stays, Started, Logged
  <1>12. CASE Quits(p)
    BY <1>12, <1>1 DEF Quits, Placed, LevelsOf, Iterations, Stays, Started, Logged
  <1>13. CASE SetsUp(p)
    BY <1>13, <1>1 DEF SetsUp, Turns, Placed, LevelsOf, Iterations, Stays, Started, Logged
  <1>14. CASE Begins(p)
    BY <1>14, <1>1 DEF Begins, Turns, Placed, LevelsOf, Iterations, Stays, Started, Logged
  <1>15. CASE LogsRun(p)
    <2>1. CASE IsFirst(p)
      <3>1. NewRun(p) \in db'.runs /\ rev'[p] = rev[p] /\ runId'[p] = runId[p]
        BY <1>15, <2>1 DEF LogsRun, Stays
      <3>2. NewRun(p).id = runId[p] /\ NewRun(p).of = <<p, rev[p]>>
        BY DEF NewRun
      <3>3. Logged(p)'
        BY <3>1, <3>2 DEF Logged
      <3> QED
        BY <3>3 DEF Started
    <2>2. CASE ~IsFirst(p)
      <3>1. level[p] # 1 \/ iteration[p] # 0
        BY <2>2 DEF IsFirst, Concurrency
      <3> QED
        BY <1>15, <1>1, <2>2, <3>1 DEF LogsRun, Turns, Stays, Started, Logged
    <2> QED
      BY <2>1, <2>2
  <1>16. CASE LogsRow(p)
    BY <1>16, <1>1 DEF LogsRow, Onward, Placed, LevelsOf, Iterations, Stays, Started, Logged
  <1>17. CASE Skips(p)
    BY <1>17, <1>1 DEF Skips, Onward, Placed, LevelsOf, Iterations, Stays, Started, Logged
  <1>18. CASE Climbs(p)
    BY <1>18, <1>1 DEF Climbs, Placed, LevelsOf, Iterations, Stays, Started, Logged
  <1>19. CASE Revises(p)
    BY <1>19, <1>1 DEF Revises, Turns, Placed, LevelsOf, Iterations, Stays, Started, Logged
  <1> QED
    BY <1>11, <1>12, <1>13, <1>14, <1>15, <1>16, <1>17, <1>18, <1>19 DEF Kind, Steps

\* bench_iterations grows by the place a revision leaves behind.
LEMMA ProgressKept ==
  ASSUME NEW p \in Pipelines, Steps(p)
  PROVE  Progress(p)'
  <1>1. Placed(p) /\ Progress(p) /\ job'[p] = job[p] /\ db.rows \subseteq db'.rows
    BY DbGrows DEF Steps, IInv, given
  <1>2. SUFFICES ASSUME job[p].store, Stage(p)' \in {"working", "logging", "level_done", "done"},
                        NEW n \in LevelsOf(p), NEW i \in Iterations(p), Behind(p, n, i)'
                 PROVE  Has(p, n, i)'
    BY <1>1 DEF Progress, LevelsOf, Iterations
  <1>3. /\ level[p] \in Nat /\ iteration[p] \in Nat /\ n \in Nat \ {0} /\ i \in Nat
        /\ i < job[p].iterations /\ job[p].iterations \in Nat
    <2>1. /\ level[p] \in Nat /\ iteration[p] \in Nat
          /\ Len(job[p].levels) \in Nat /\ job[p].iterations \in Nat
      BY JobTypes DEF Steps, IInv, Typed
    <2> QED
      BY <2>1 DEF LevelsOf, Iterations
  <1>4. rev'[p] = rev[p] /\ runId'[p] = runId[p] /\ Has(p, n, i) => Has(p, n, i)'
    BY <1>1 DEF Has
  <1>5. Stage(p) \in {"working", "logging", "level_done", "done"} /\ Behind(p, n, i) => Has(p, n, i)
    BY <1>1, <1>2 DEF Progress
  <1>11. CASE Rests(p)
    BY <1>11, <1>2, <1>4, <1>5 DEF Rests, Same, Stays, Behind
  <1>12. CASE Quits(p) \/ SetsUp(p) \/ Skips(p) \/ Revises(p)
    BY <1>12, <1>2 DEF Quits, SetsUp, Skips, Revises, Turns
  <1>13. CASE Begins(p)
    BY <1>13, <1>1, <1>2, <1>3 DEF Begins, Turns, Stays, Placed, Behind
  <1>14. CASE LogsRun(p)
    BY <1>14, <1>2, <1>4, <1>5 DEF LogsRun, Turns, Stays, Behind
  <1>15. CASE LogsRow(p)
    <2>1. CASE n = level[p] /\ i = iteration[p]
      <3>1. /\ Row(p).of = <<p, rev[p]>> /\ Row(p).id = runId[p]
            /\ Row(p).concurrency = job[p].levels[n] /\ Row(p).iteration = i
        BY <2>1 DEF Row, Concurrency
      <3>2. Row(p) \in db'.rows /\ rev'[p] = rev[p] /\ runId'[p] = runId[p]
        BY <1>15 DEF LogsRow, Onward
      <3> QED
        BY <1>1, <3>1, <3>2 DEF Has
    <2>2. CASE n < level[p] \/ (n = level[p] /\ i < iteration[p])
      BY <1>15, <1>4, <1>5, <2>2 DEF LogsRow, Onward, Behind
    <2>3. level'[p] = level[p] /\ (n < level'[p] \/ n = level'[p])
      BY <1>15, <1>2 DEF LogsRow, Onward, Behind
    <2>4. n = level[p] => i < iteration[p] \/ i = iteration[p]
      <3>1. CASE iteration[p] + 1 = job[p].iterations
        BY <1>3, <3>1
      <3>2. CASE iteration'[p] = iteration[p] + 1 /\ Stage(p)' = "working"
        <4>1. n = level[p] => i < iteration[p] + 1
          BY <1>2, <1>3, <2>3, <3>2 DEF Behind
        <4> QED
          BY <1>3, <4>1
      <3> QED
        BY <1>15, <3>1, <3>2 DEF LogsRow, Onward
    <2> QED
      BY <2>1, <2>2, <2>3, <2>4
  <1>16. CASE Climbs(p)
    <2>1. n < level'[p] \/ (n = level'[p] /\ (i < iteration'[p] \/ Stage(p)' # "working"))
      BY <1>2 DEF Behind
    <2>2. Stage(p) = "level_done" /\ iteration'[p] = 0
      BY <1>16 DEF Climbs
    <2>3. n < level[p] \/ n = level[p]
      <3>1. CASE level'[p] = level[p]
        BY <2>1, <3>1
      <3>2. CASE level'[p] = level[p] + 1 /\ Stage(p)' = "working"
        <4>1. ~(i < iteration'[p])
          BY <1>3, <2>2
        <4>2. n < level[p] + 1
          BY <2>1, <3>2, <4>1
        <4> QED
          BY <1>3, <4>2
      <3> QED
        BY <1>16, <3>1, <3>2 DEF Climbs
    <2>4. Behind(p, n, i)
      BY <2>2, <2>3 DEF Behind
    <2> QED
      BY <1>16, <1>4, <1>5, <2>4 DEF Climbs
  <1> QED
    BY <1>11, <1>12, <1>13, <1>14, <1>15, <1>16 DEF Kind, Steps

LEMMA ConfiguredKept ==
  ASSUME NEW p \in Pipelines, Steps(p)
  PROVE  Configured(p)'
  <1>1. Configured(p) /\ UNCHANGED given /\ db.configs \subseteq db'.configs
    BY ConfigsGrow DEF Steps, IInv
  <1>11. CASE Rests(p)
    BY <1>11, <1>1 DEF Rests, Same, given, Configured
  <1>12. CASE Quits(p)
    BY <1>12, <1>1 DEF Quits, given, Configured
  <1>13. CASE SetsUp(p)
    BY <1>13, <1>1 DEF SetsUp, Turns, given, Configured
  <1>14. CASE Begins(p)
    BY <1>14, <1>1 DEF Begins, Turns, given, Configured
  <1>15. CASE LogsRun(p)
    BY <1>15, <1>1 DEF LogsRun, Turns, given, Configured
  <1>16. CASE LogsRow(p)
    BY <1>16, <1>1 DEF LogsRow, Onward, given, Configured
  <1>17. CASE Skips(p)
    BY <1>17, <1>1 DEF Skips, Onward, given, Configured
  <1>18. CASE Climbs(p)
    BY <1>18, <1>1 DEF Climbs, given, Configured
  <1>19. CASE Revises(p)
    BY <1>19, <1>1 DEF Revises, Turns, given, Configured
  <1> QED
    BY <1>11, <1>12, <1>13, <1>14, <1>15, <1>16, <1>17, <1>18, <1>19 DEF Kind, Steps

\* What holds of a revision goes on holding while others move.
LEMMA OthersHold ==
  ASSUME NEW p \in Pipelines, Steps(p), NEW q \in Pipelines \ {p}, OnlyAt(p)
  PROVE  Placed(q)' /\ Started(q)' /\ Progress(q)' /\ Configured(q)'
  <1>1. /\ Same(q) /\ UNCHANGED given /\ db.runs \subseteq db'.runs /\ db.rows \subseteq db'.rows
        /\ Placed(q) /\ Started(q) /\ Progress(q) /\ Configured(q) /\ db.configs \subseteq db'.configs
    BY DbGrows, ConfigsGrow DEF Steps, IInv, OthersSame
  <1>2. Placed(q)'
    <2>1. Ranges(q)'
      BY <1>1 DEF Same, Stays, Placed, Ranges, given, LevelsOf, Iterations
    <2> QED
      BY <1>1, <2>1 DEF Same, Stays, Placed, OnlyAt, given
  <1>3. Started(q)'
    BY <1>1 DEF Same, Stays, Started, Logged, given
  <1>4. Progress(q)'
    <2>1. SUFFICES ASSUME job[q].store, Stage(q) \in {"working", "logging", "level_done", "done"},
                          NEW n \in LevelsOf(q), NEW i \in Iterations(q), Behind(q, n, i)
                   PROVE  Has(q, n, i)'
      BY <1>1 DEF Same, Stays, Progress, Behind, given, LevelsOf, Iterations
    <2>2. Has(q, n, i)
      BY <1>1, <2>1 DEF Progress
    <2> QED
      BY <1>1, <2>2 DEF Has, Same, Stays, given
  <1>5. Configured(q)'
    BY <1>1 DEF Same, Configured, given
  <1> QED
    BY <1>2, <1>3, <1>4, <1>5

LEMMA AttributedKept ==
  ASSUME NEW p \in Pipelines, Steps(p)
  PROVE  ResultsAttributed'
  <1>1. ResultsAttributed /\ Placed(p) /\ Started(p) /\ db.runs \subseteq db'.runs
    BY DbGrows DEF Steps, IInv
  <1>2. CASE db'.rows = db.rows
    BY <1>1, <1>2 DEF ResultsAttributed
  <1>3. CASE LogsRow(p) /\ db'.rows = db.rows \cup {Row(p)}
    <2>1. pc[p] = "log_iteration"
      BY <1>3 DEF LogsRow, Stage, StageOf, StageAt, Steps, IInv, Typed
    <2>2. Logged(p)
      BY <1>1, <1>3, <2>1 DEF LogsRow, Started, Placed
    <2> QED
      BY <1>1, <1>3, <2>2 DEF ResultsAttributed, Row, Logged
  <1> QED
    BY <1>2, <1>3, DbSteps

LEMMA RunIdsKept ==
  ASSUME NEW p \in Pipelines, Steps(p)
  PROVE  RunIds'
  <1>1. RunIds /\ runId[p] \in Nat
    BY DEF Steps, IInv, Typed
  <1>2. CASE db'.runs = db.runs
    BY <1>1, <1>2 DEF RunIds
  <1>3. CASE ~KnownId(p) /\ db'.runs = db.runs \cup {NewRun(p)}
    <2>1. NewRun(p).id = runId[p]
      BY DEF NewRun
    <2>2. \A r \in db'.runs : r.id \in Nat
      BY <1>1, <1>3, <2>1 DEF RunIds
    <2>3. \A r, s \in db'.runs : r.id = s.id => r = s
      BY <1>1, <1>3, <2>1 DEF RunIds, KnownId
    <2>4. PICK m \in {0} \cup {r.id : r \in db.runs} : \A r \in db.runs : r.id <= m
      BY <1>1 DEF RunIds
    <2>5. m \in Nat
      BY <1>1, <2>4 DEF RunIds
    <2>6. CASE runId[p] <= m
      BY <1>3, <2>1, <2>2, <2>3, <2>4, <2>6 DEF RunIds
    <2>7. CASE m <= runId[p]
      <3>1. \A r \in db'.runs : r.id <= runId[p]
        BY <1>1, <1>3, <2>1, <2>4, <2>5, <2>7 DEF RunIds
      <3>2. runId[p] \in {0} \cup {r.id : r \in db'.runs}
        BY <1>3, <2>1
      <3> QED
        BY <2>2, <2>3, <3>1, <3>2 DEF RunIds
    <2> QED
      BY <1>1, <2>5, <2>6, <2>7
  <1> QED
    BY <1>2, <1>3, DbSteps

LEMMA ConfigsKept ==
  ASSUME NEW p \in Pipelines, Steps(p), OnlyAt(p)
  PROVE  /\ Configs' /\ Inserting'
         /\ db'.inserted \in SUBSET (Pipelines \X Nat) /\ IsFiniteSet(db'.inserted)
  <1>1. /\ Configs /\ Inserting /\ Configured(p) /\ job[p].store \in BOOLEAN
        /\ db.inserted \in SUBSET (Pipelines \X Nat) /\ IsFiniteSet(db.inserted)
        /\ db.configs \subseteq db'.configs /\ pc \in [Pipelines -> Labels]
    BY JobTypes, ConfigsGrow DEF Steps, IInv, Typed
  <1>2. \A r \in db'.runs : r.of # <<>> => r.config \in db'.configs
    <2>1. CASE db'.runs = db.runs
      BY <1>1, <2>1 DEF Configs, ConfigsServe
    <2>2. CASE LogsRun(p) /\ db'.runs = db.runs \cup {NewRun(p)}
      BY <1>1, <2>2 DEF Configs, ConfigsServe, LogsRun, Turns, Configured, NewRun
    <2> QED
      BY <2>1, <2>2, DbSteps
  <1>3. CASE AddConfig(p)
    <2> DEFINE n == Cardinality(db.inserted)
               new == <<p, 1 + n>>
    <2>1. n \in Nat
      BY <1>1, FS_CardinalityType
    <2>2. db'.inserted = db.inserted \cup {new} /\ db'.configs = db.configs
      BY <1>3 DEF AddConfig, Steps, IInv, Typed
    <2>3. pc[p] = "add_config" /\ pc' = [pc EXCEPT ![p] = "commit"]
      BY <1>3 DEF AddConfig, Keep, Goto
    <2>4. \A x \in db.inserted : x[1] # p /\ x[2] <= n /\ x[2] \in Nat /\ x[1] \in Pipelines
      BY <1>1, <2>3 DEF Inserting, Configs
    <2>5. new[1] = p /\ new[2] = 1 + n /\ new \in Pipelines \X Nat
      BY <2>1
    <2>6. new \notin db.inserted
      BY <2>4, <2>5
    <2>7. IsFiniteSet(db'.inserted) /\ Cardinality(db'.inserted) = n + 1
      <3> HIDE DEF new
      <3>1. /\ IsFiniteSet(db.inserted \cup {new})
            /\ Cardinality(db.inserted \cup {new}) = Cardinality(db.inserted) + 1
        BY <1>1, <2>6, FS_AddElement
      <3> QED
        BY <2>2, <3>1
    <2> HIDE DEF new, n
    <2>8. \A x \in db.inserted : x[2] # new[2]
      BY <2>1, <2>4, <2>5
    <2>9. \A x, y \in db'.inserted : x[1] = y[1] \/ x[2] = y[2] => x = y
      <3>1. \A x, y \in db.inserted : x[1] = y[1] \/ x[2] = y[2] => x = y
        BY <1>1 DEF Configs, ConfigsServe
      <3> QED
        BY <2>2, <2>4, <2>5, <2>8, <3>1
    <2>10. \A x \in db'.inserted : x[2] <= n + 1
      BY <2>1, <2>2, <2>4, <2>5
    <2>11. db'.configs \subseteq {x[2] : x \in db'.inserted}
      BY <1>1, <2>2 DEF Configs
    <2>12. Inserting'
      BY <1>1, <2>2, <2>3, <2>4, <2>5 DEF Inserting
    <2> QED
      BY <1>1, <1>2, <2>2, <2>5, <2>7, <2>9, <2>10, <2>11, <2>12 DEF Configs, ConfigsServe
  <1>4. CASE CommitConfig(p)
    <2> DEFINE mine == {y \in db.inserted : y[1] = p}
    <2>1. db'.inserted = db.inserted /\ db'.configs = db.configs \cup {x[2] : x \in mine}
      BY <1>4 DEF CommitConfig, Steps, IInv, Typed
    <2>2. pc[p] = "commit" /\ pc' = [pc EXCEPT ![p] = "config"]
      BY <1>4 DEF CommitConfig, Keep, Goto
    <2>3. \A x \in db.inserted : x[1] \in Pipelines
      BY <1>1
    <2>4. Inserting'
      BY <1>1, <2>1, <2>2, <2>3 DEF Inserting
    <2>5. db'.configs \subseteq {x[2] : x \in db'.inserted}
      BY <1>1, <2>1 DEF Configs
    <2> QED
      BY <1>1, <1>2, <2>1, <2>4, <2>5 DEF Configs, ConfigsServe
  <1>5. CASE /\ db'.inserted = db.inserted /\ db'.configs = db.configs
             /\ pc[p] = "commit" => pc'[p] = "commit"
             /\ pc'[p] = "add_config" => pc[p] = "add_config" \/ (pc[p] = "config" /\ db.configs = {})
    <2>1. \A q \in Pipelines : pc[q] = "commit" => pc'[q] = "commit"
      BY <1>5 DEF OnlyAt
    <2>2. ASSUME NEW q \in Pipelines, pc'[q] = "add_config"
          PROVE  pc[q] = "add_config" \/ (pc[q] = "config" /\ db.configs = {})
      BY <1>5, <2>2 DEF OnlyAt
    <2>3. Inserting'
      BY <1>1, <1>5, <2>1, <2>2 DEF Inserting
    <2> QED
      BY <1>1, <1>2, <1>5, <2>3 DEF Configs, ConfigsServe
  <1> QED
    BY <1>3, <1>4, <1>5 DEF Steps, ConfigStep
-----------------------------------------------------------------------------
LEMMA NextIdType ==
  ASSUME RunIds
  PROVE  NextId \in Nat
  <1> DEFINE S == {0} \cup {r.id : r \in db.runs}
  <1>1. S \subseteq Nat
    BY DEF RunIds
  <1>2. PICK m \in S : \A r \in db.runs : r.id <= m
    BY DEF RunIds
  <1>3. \A y \in S : m >= y
    BY <1>1, <1>2
  <1>4. (CHOOSE x \in S : \A y \in S : x >= y) \in S
    BY <1>2, <1>3
  <1>5. Max(S) \in Nat
    BY <1>1, <1>4 DEF Max
  <1> QED
    BY <1>5 DEF NextId

\* The program's own variables.
Flow ==
  /\ pc \in [Pipelines -> Labels] /\ then \in [Pipelines -> {"prepare", "again", "ids", "run"}]
  /\ rev \in [Pipelines -> Nat] /\ level \in [Pipelines -> Nat] /\ iteration \in [Pipelines -> Nat]
  /\ runId \in [Pipelines -> Nat] /\ configId \in [Pipelines -> Nat]

LEMMA FlowKept ==
  ASSUME Flow, NEW p \in Pipelines, StepOf(p), NextId \in Nat, db.configs \subseteq Nat
  PROVE  Flow'
  <1> USE DEF Flow, Labels, Goto, Keep, Exit
  <1>11. CASE StopAll(p)
    BY <1>11 DEF StopAll, LoseRuns, Lost, Dies
  <1>12. CASE StopPrior(p)
    BY <1>12 DEF StopPrior, Stopped, LoseRuns, Lost, Dies
  <1>13. CASE Clear(p)
    BY <1>13 DEF Clear
  <1>14. CASE Start(p)
    BY <1>14 DEF Start
  <1>15. CASE Wait(p)
    BY <1>15 DEF Wait
  <1>16. CASE Prepare(p)
    BY <1>16 DEF Prepare, Stopped, LoseRuns, Lost, Dies
  <1>17. CASE Profile(p)
    BY <1>17 DEF Profile, Stopped, LoseRuns, Lost, Dies
  <1>18. CASE GetNextRunId(p)
    BY <1>18 DEF GetNextRunId
  <1>19. CASE GetConfigId(p)
    BY <1>19 DEF GetConfigId
  <1>20. CASE AddConfig(p)
    BY <1>20 DEF AddConfig
  <1>21. CASE Ping(p)
    BY <1>21 DEF Ping
  <1>22. CASE Run(p)
    BY <1>22 DEF Run
  <1>23. CASE RunLost(p)
    BY <1>23 DEF RunLost
  <1>24. CASE RunEnds(p)
    BY <1>24 DEF RunEnds, Iterate
  <1>25. CASE LogRun(p)
    BY <1>25 DEF LogRun
  <1>26. CASE LogIteration(p)
    BY <1>26 DEF LogIteration, Iterate
  <1>27. CASE LogShowStatus(p)
    BY <1>27 DEF LogShowStatus
  <1>28. CASE EndLevel(p)
    BY <1>28 DEF EndLevel, Stopped, LoseRuns, Lost, Dies
  <1>29. CASE NextLevel(p)
    <2>1. level' = level \/ level' = [level EXCEPT ![p] = @ + 1]
      BY <1>29 DEF NextLevel
    <2>2. level' \in [Pipelines -> Nat]
      BY <2>1
    <2>3. pc' \in [Pipelines -> Labels] /\ iteration' \in [Pipelines -> Nat]
      BY <1>29 DEF NextLevel
    <2> QED
      BY <1>29, <2>2, <2>3 DEF NextLevel
  <1>30. CASE NextRevision(p)
    BY <1>30 DEF NextRevision
  <1>31. CASE ServerUp(p)
    BY <1>31 DEF ServerUp, at
  <1>32. CASE ServerDies(p)
    BY <1>32 DEF ServerDies, LoseRuns, Lost, Dies, at
  <1>33. CASE CommitConfig(p)
    BY <1>33 DEF CommitConfig
  <1> QED
    BY <1>11, <1>12, <1>13, <1>14, <1>15, <1>16, <1>17, <1>18, <1>19, <1>20, <1>21, <1>22,
      <1>23, <1>24, <1>25, <1>26, <1>27, <1>28, <1>29, <1>30, <1>31, <1>32, <1>33 DEF StepOf

\* The environment: servers, directories, the database.
Stores ==
  /\ server \in [Pipelines -> Servers]
  /\ data \in [Pipelines -> [prepared : BOOLEAN, used : SUBSET (Pipelines \X Nat)]]
  /\ db = [use |-> db.use, inserted |-> db.inserted, configs |-> db.configs,
           runs |-> db.runs, rows |-> db.rows]

LEMMA StoresKept ==
  ASSUME Stores, NEW p \in Pipelines, StepOf(p), level \in [Pipelines -> Nat]
  PROVE  Stores'
  <1> USE DEF Stores, Empty, Servers
  <1>11. CASE StopAll(p)
    BY <1>11 DEF StopAll, LoseRuns, Lost, Dies
  <1>12. CASE StopPrior(p)
    BY <1>12 DEF StopPrior, Stopped, LoseRuns, Lost, Dies
  <1>13. CASE Clear(p)
    BY <1>13 DEF Clear
  <1>14. CASE Start(p)
    BY <1>14 DEF Start
  <1>15. CASE Wait(p)
    BY <1>15 DEF Wait
  <1>16. CASE Prepare(p)
    <2> DEFINE Put(d) == [q \in Pipelines |-> IF q \in Listening(p) THEN d ELSE data[q]]
    <2>1. data' = data \/ data' = Put([prepared |-> TRUE, used |-> {}]) \/ data' = Put(Empty)
      BY <1>16 DEF Prepare, Stopped, Dies
    <2>2. server' = server \/ server' = [q \in Pipelines |-> IF q \in Listening(p) THEN "down" ELSE server[q]]
      BY <1>16 DEF Prepare, Stopped, Dies
    <2> DEFINE D == [prepared : BOOLEAN, used : SUBSET (Pipelines \X Nat)]
    <2>5. [prepared |-> TRUE, used |-> {}] \in D /\ Empty \in D
      OBVIOUS
    <2>6. data \in [Pipelines -> D]
      OBVIOUS
    <2> HIDE DEF D, Empty
    <2>3. data' \in [Pipelines -> D]
      BY <2>1, <2>5, <2>6
    <2> USE DEF D
    <2>4. server' \in [Pipelines -> Servers]
      BY <2>2
    <2> QED
      BY <1>16, <2>3, <2>4 DEF Prepare
  <1>17. CASE Profile(p)
    BY <1>17 DEF Profile, Stopped, LoseRuns, Lost, Dies
  <1>18. CASE GetNextRunId(p)
    BY <1>18 DEF GetNextRunId
  <1>19. CASE GetConfigId(p)
    BY <1>19 DEF GetConfigId
  <1>20. CASE AddConfig(p)
    BY <1>20 DEF AddConfig
  <1>21. CASE Ping(p)
    BY <1>21 DEF Ping
  <1>22. CASE Run(p)
    BY <1>22 DEF Run
  <1>23. CASE RunLost(p)
    BY <1>23 DEF RunLost
  <1>24. CASE RunEnds(p)
    BY <1>24 DEF RunEnds, Iterate
  <1>25. CASE LogRun(p)
    BY <1>25 DEF LogRun
  <1>26. CASE LogIteration(p)
    BY <1>26 DEF LogIteration, Iterate
  <1>27. CASE LogShowStatus(p)
    BY <1>27 DEF LogShowStatus
  <1>28. CASE EndLevel(p)
    BY <1>28 DEF EndLevel, Stopped, LoseRuns, Lost, Dies
  <1>29. CASE NextLevel(p)
    BY <1>29 DEF NextLevel
  <1>30. CASE NextRevision(p)
    BY <1>30 DEF NextRevision
  <1>31. CASE ServerUp(p)
    BY <1>31 DEF ServerUp, at
  <1>32. CASE ServerDies(p)
    BY <1>32 DEF ServerDies, LoseRuns, Lost, Dies, at
  <1>33. CASE CommitConfig(p)
    BY <1>33 DEF CommitConfig
  <1> QED
    BY <1>11, <1>12, <1>13, <1>14, <1>15, <1>16, <1>17, <1>18, <1>19, <1>20, <1>21, <1>22,
      <1>23, <1>24, <1>25, <1>26, <1>27, <1>28, <1>29, <1>30, <1>31, <1>32, <1>33 DEF StepOf

LEMMA OneListenerKept ==
  ASSUME OneListener, Stores, NEW p \in Pipelines, StepOf(p)
  PROVE  OneListener'
  <1>1. UNCHANGED host
    BY Given DEF given
  <1> USE <1>1 DEF OneListener, Stores, Servers, Up
  <1>11. CASE StopAll(p)
    BY <1>11 DEF StopAll, Named, LoseRuns, Lost, Dies
  <1>12. CASE StopPrior(p)
    BY <1>12 DEF StopPrior, Stopped, LoseRuns, Lost, Dies
  <1>13. CASE Clear(p)
    BY <1>13 DEF Clear
  <1>14. CASE Start(p)
    BY <1>14 DEF Start
  <1>15. CASE Wait(p)
    BY <1>15 DEF Wait
  <1>16. CASE Prepare(p)
    BY <1>16 DEF Prepare, Stopped, LoseRuns, Lost, Dies
  <1>17. CASE Profile(p)
    BY <1>17 DEF Profile, Stopped, LoseRuns, Lost, Dies
  <1>18. CASE GetNextRunId(p)
    BY <1>18 DEF GetNextRunId
  <1>19. CASE GetConfigId(p)
    BY <1>19 DEF GetConfigId
  <1>20. CASE AddConfig(p)
    BY <1>20 DEF AddConfig
  <1>21. CASE Ping(p)
    BY <1>21 DEF Ping
  <1>22. CASE Run(p)
    BY <1>22 DEF Run
  <1>23. CASE RunLost(p)
    BY <1>23 DEF RunLost
  <1>24. CASE RunEnds(p)
    BY <1>24 DEF RunEnds, Iterate
  <1>25. CASE LogRun(p)
    BY <1>25 DEF LogRun
  <1>26. CASE LogIteration(p)
    BY <1>26 DEF LogIteration, Iterate
  <1>27. CASE LogShowStatus(p)
    BY <1>27 DEF LogShowStatus
  <1>28. CASE EndLevel(p)
    BY <1>28 DEF EndLevel, Stopped, LoseRuns, Lost, Dies
  <1>29. CASE NextLevel(p)
    BY <1>29 DEF NextLevel
  <1>30. CASE NextRevision(p)
    BY <1>30 DEF NextRevision
  <1>31. CASE ServerUp(p)
    BY <1>31 DEF ServerUp, Listening, OnHost, at
  <1>32. CASE ServerDies(p)
    BY <1>32 DEF ServerDies, LoseRuns, Lost, Dies, at
  <1>33. CASE CommitConfig(p)
    BY <1>33 DEF CommitConfig
  <1> QED
    BY <1>11, <1>12, <1>13, <1>14, <1>15, <1>16, <1>17, <1>18, <1>19, <1>20, <1>21, <1>22,
      <1>23, <1>24, <1>25, <1>26, <1>27, <1>28, <1>29, <1>30, <1>31, <1>32, <1>33 DEF StepOf

\* No other pipeline of the host touches the data.
LEMMA OthersFresh ==
  ASSUME Typed, NEW p \in Pipelines, StepOf(p), OnlyAt(p), UNCHANGED given,
         NEW q \in Pipelines \ {p}, Fresh(q)
  PROVE  Fresh(q)'
  <1>1. Alone(q)' = Alone(q) /\ Rising(q)' = Rising(q)
    BY DEF given, Alone, OnHost, Rising
  <1>2. SUFFICES ASSUME Alone(q), Rising(q)
                 PROVE  Fresh(q)'
    BY <1>1 DEF Fresh
  <1>3. q \notin OnHost(p) /\ q \notin Listening(p)
    BY <1>2 DEF Alone, OnHost, Listening, Typed
  <1>4. data'[q] = data[q]
    <2> USE <1>3 DEF Typed
    <2>1. CASE StopAll(p)
      BY <2>1 DEF StopAll, LoseRuns, Lost, Dies
    <2>2. CASE StopPrior(p)
      BY <2>2 DEF StopPrior, Stopped, LoseRuns, Lost, Dies
    <2>3. CASE Clear(p)
      BY <2>3 DEF Clear
    <2>4. CASE Start(p)
      BY <2>4 DEF Start
    <2>5. CASE Wait(p)
      BY <2>5 DEF Wait
    <2>6. CASE Prepare(p)
      BY <2>6 DEF Prepare, Stopped, LoseRuns, Lost, Dies
    <2>7. CASE Profile(p)
      BY <2>7 DEF Profile, Stopped, LoseRuns, Lost, Dies
    <2>8. CASE GetNextRunId(p)
      BY <2>8 DEF GetNextRunId
    <2>9. CASE GetConfigId(p)
      BY <2>9 DEF GetConfigId
    <2>10. CASE AddConfig(p)
      BY <2>10 DEF AddConfig
    <2>11. CASE Ping(p)
      BY <2>11 DEF Ping
    <2>12. CASE Run(p)
      BY <2>12 DEF Run
    <2>13. CASE RunLost(p)
      BY <2>13 DEF RunLost
    <2>14. CASE RunEnds(p)
      BY <2>14 DEF RunEnds, Iterate
    <2>15. CASE LogRun(p)
      BY <2>15 DEF LogRun
    <2>16. CASE LogIteration(p)
      BY <2>16 DEF LogIteration, Iterate
    <2>17. CASE LogShowStatus(p)
      BY <2>17 DEF LogShowStatus
    <2>18. CASE EndLevel(p)
      BY <2>18 DEF EndLevel, Stopped, LoseRuns, Lost, Dies
    <2>19. CASE NextLevel(p)
      BY <2>19 DEF NextLevel
    <2>20. CASE NextRevision(p)
      BY <2>20 DEF NextRevision
    <2>21. CASE ServerUp(p)
      BY <2>21 DEF ServerUp, at
    <2>22. CASE ServerDies(p)
      BY <2>22 DEF ServerDies, LoseRuns, Lost, Dies, at
    <2>23. CASE CommitConfig(p)
      BY <2>23 DEF CommitConfig
    <2> QED
      BY <2>1, <2>2, <2>3, <2>4, <2>5, <2>6, <2>7, <2>8, <2>9, <2>10, <2>11, <2>12, <2>13,
        <2>14, <2>15, <2>16, <2>17, <2>18, <2>19, <2>20, <2>21, <2>22, <2>23 DEF StepOf
  <1> QED
    BY <1>1, <1>2, <1>4 DEF Fresh, Unused, InUse, OnlyAt, Stays, given

LEMMA FreshKept ==
  ASSUME Typed, NEW p \in Pipelines, StepOf(p), UNCHANGED given, Placed(p), Fresh(p)
  PROVE  Fresh(p)'
  <1>1. Alone(p)' = Alone(p) /\ Rising(p)' = Rising(p)
    BY DEF given, Alone, OnHost, Rising
  <1>2. SUFFICES ASSUME Alone(p), Rising(p)
                 PROVE  Fresh(p)'
    BY <1>1 DEF Fresh
  <1>3. /\ Listening(p) \subseteq {p} /\ job'[p] = job[p]
        /\ Len(job[p].levels) \in Nat \ {0} /\ level[p] \in 1 .. Len(job[p].levels)
    BY <1>2, JobTypes DEF Alone, OnHost, Listening, Typed, given, Placed, Ranges, LevelsOf
  <1>4. level[p] < Len(job[p].levels) => ~IsMax(p)
    BY <1>2, <1>3, JobTypes DEF Rising, IsMax, Concurrency, LevelsOf
  <1> USE <1>1, <1>2, <1>3, <1>4 DEF Fresh, Unused, InUse, Goto, Keep, Exit, Typed, Empty
  <1>11. CASE StopAll(p)
    BY <1>11 DEF StopAll, LoseRuns, Lost, Dies
  <1>12. CASE StopPrior(p)
    BY <1>12 DEF StopPrior, Stopped, LoseRuns, Lost, Dies
  <1>13. CASE Clear(p)
    BY <1>13 DEF Clear
  <1>14. CASE Start(p)
    BY <1>14 DEF Start
  <1>15. CASE Wait(p)
    BY <1>15 DEF Wait
  <1>16. CASE Prepare(p)
    BY <1>16 DEF Prepare, Stopped, LoseRuns, Lost, Dies
  <1>17. CASE Profile(p)
    BY <1>17 DEF Profile, Stopped, LoseRuns, Lost, Dies
  <1>18. CASE GetNextRunId(p)
    BY <1>18 DEF GetNextRunId
  <1>19. CASE GetConfigId(p)
    BY <1>19 DEF GetConfigId
  <1>20. CASE AddConfig(p)
    BY <1>20 DEF AddConfig
  <1>21. CASE Ping(p)
    BY <1>21 DEF Ping
  <1>22. CASE Run(p)
    BY <1>22 DEF Run
  <1>23. CASE RunLost(p)
    BY <1>23 DEF RunLost
  <1>24. CASE RunEnds(p)
    BY <1>24 DEF RunEnds, Iterate
  <1>25. CASE LogRun(p)
    BY <1>25 DEF LogRun
  <1>26. CASE LogIteration(p)
    BY <1>26 DEF LogIteration, Iterate
  <1>27. CASE LogShowStatus(p)
    BY <1>27 DEF LogShowStatus
  <1>28. CASE EndLevel(p)
    BY <1>28 DEF EndLevel, Stopped, LoseRuns, Lost, Dies
  <1>29. CASE NextLevel(p)
    BY <1>29 DEF NextLevel
  <1>30. CASE NextRevision(p)
    BY <1>30 DEF NextRevision
  <1>31. CASE ServerUp(p)
    BY <1>31 DEF ServerUp, at
  <1>32. CASE ServerDies(p)
    BY <1>32 DEF ServerDies, LoseRuns, Lost, Dies, at
  <1>33. CASE CommitConfig(p)
    BY <1>33 DEF CommitConfig
  <1> QED
    BY <1>11, <1>12, <1>13, <1>14, <1>15, <1>16, <1>17, <1>18, <1>19, <1>20, <1>21, <1>22,
      <1>23, <1>24, <1>25, <1>26, <1>27, <1>28, <1>29, <1>30, <1>31, <1>32, <1>33 DEF StepOf

-----------------------------------------------------------------------------
LEMMA Begin ==
  ASSUME Init
  PROVE  IInv
  <1> USE DEF Init
  <1>1. \A p \in Pipelines : job[p] \in Jobs /\ Stage(p) = "setting" /\ pc[p] = "stopall"
    BY DEF Stage, StageOf, StageAt
  <1>2. PICK d \in Databases :
          db = [use |-> d.use, inserted |-> {}, configs |-> {}, rows |-> {},
                runs |-> {[id |-> n, of |-> <<>>, config |-> 0] : n \in 1 .. d.before}]
    OBVIOUS
  <1>3. d.before \in Nat
    BY DatabaseAssumption
  <1>4. Typed
    BY <1>2, FS_EmptySet DEF Typed, Labels, Empty, Servers
  <1>5. Configs /\ Inserting /\ ResultsAttributed
    BY <1>2 DEF Configs, ConfigsServe, Inserting, ResultsAttributed
  <1>6. RunIds
    <2>1. \A r \in db.runs : r.id \in 1 .. d.before /\ r = [id |-> r.id, of |-> <<>>, config |-> 0]
      BY <1>2
    <2>2. d.before \in {0} \cup {r.id : r \in db.runs}
      <3>1. CASE d.before = 0
        BY <3>1
      <3>2. CASE d.before # 0
        <4>1. d.before \in 1 .. d.before
          BY <1>3, <3>2
        <4>2. [id |-> d.before, of |-> <<>>, config |-> 0] \in db.runs
          BY <1>2, <4>1
        <4> DEFINE r == [id |-> d.before, of |-> <<>>, config |-> 0]
        <4>3. r.id = d.before
          OBVIOUS
        <4> HIDE DEF r
        <4>4. r \in db.runs
          BY <4>2 DEF r
        <4> QED
          BY <4>3, <4>4
      <3> QED
        BY <3>1, <3>2
    <2>3. \A r \in db.runs : r.id <= d.before
      BY <1>3, <2>1
    <2>4. \A r, t \in db.runs : r.id = t.id => r = t
      BY <2>1
    <2>5. \A r \in db.runs : r.id \in Nat
      BY <1>3, <2>1
    <2>6. \E m \in {0} \cup {r.id : r \in db.runs} : \A r \in db.runs : r.id <= m
      BY <2>2, <2>3
    <2> QED
      BY <2>4, <2>5, <2>6 DEF RunIds
  <1>7. OneListener
    BY DEF OneListener, Up
  <1>8. \A p \in Pipelines : Placed(p)
    BY <1>1, <1>4, JobTypes DEF Placed, Ranges, LevelsOf, Iterations
  <1>9. \A p \in Pipelines : Started(p) /\ Progress(p) /\ Configured(p)
    BY <1>1 DEF Started, Progress, Configured
  <1>10. \A p \in Pipelines : Fresh(p)
    BY <1>1 DEF Fresh, Unused, InUse
  <1> QED
    BY <1>4, <1>5, <1>6, <1>7, <1>8, <1>9, <1>10 DEF IInv

LEMMA StepKept ==
  ASSUME IInv, NEW p \in Pipelines, StepOf(p)
  PROVE  IInv'
  <1>1. /\ Typed /\ Placed(p) /\ Fresh(p) /\ Flow /\ Stores /\ Configs /\ Inserting /\ RunIds /\ OneListener
        /\ pc[p] \in {"log_run", "log_iteration"} => job[p].store
    BY DEF IInv, Typed, Placed, Flow, Stores
  <1>2. UNCHANGED given
    BY Given
  <1>3. OnlyAt(p) /\ OthersSame(p)
    BY <1>1, Others, OthersKept
  <1>4. Steps(p)
    BY <1>1, <1>2, <1>3, Kinds, ConfigSteps DEF Steps
  <1>5. Placed(p)'
    BY <1>1, <1>4, Storing, PlacedKept
  <1>6. /\ Configs' /\ Inserting'
        /\ db'.inserted \in SUBSET (Pipelines \X Nat) /\ IsFiniteSet(db'.inserted)
    BY <1>3, <1>4, ConfigsKept
  <1>7. Typed'
    <2>1. Flow'
      <3>1. db.configs \subseteq Nat
        BY <1>1 DEF Configs, Typed
      <3> QED
        BY <1>1, <3>1, FlowKept, NextIdType
    <2>2. Stores'
      BY <1>1, StoresKept DEF Flow
    <2> QED
      BY <1>1, <1>2, <1>6, <2>1, <2>2 DEF Typed, Flow, Stores, given
  <1>8. RunIds' /\ OneListener' /\ ResultsAttributed'
    BY <1>1, <1>4, RunIdsKept, OneListenerKept, AttributedKept
  <1>9. Started(p)' /\ Progress(p)' /\ Configured(p)' /\ Fresh(p)'
    BY <1>1, <1>2, <1>4, StartedKept, ProgressKept, ConfiguredKept, FreshKept
  <1>10. ASSUME NEW q \in Pipelines \ {p}
         PROVE  Placed(q)' /\ Started(q)' /\ Progress(q)' /\ Configured(q)' /\ Fresh(q)'
    BY <1>1, <1>2, <1>3, <1>4, OthersHold, OthersFresh DEF IInv
  <1> QED
    BY <1>5, <1>6, <1>7, <1>8, <1>9, <1>10 DEF IInv

\* The inductive invariant.
THEOREM Invariance == Spec => []IInv
  <1>1. ASSUME IInv, [Next]_vars
        PROVE  IInv'
    <2>1. CASE Next
      BY <1>1, <2>1, StepTaken, StepKept
    <2>2. CASE UNCHANGED vars
      <3> USE <1>1, <2>2 DEF vars, at, given, IInv
      <3>1. Typed' /\ Configs' /\ Inserting' /\ RunIds' /\ OneListener' /\ ResultsAttributed'
        BY DEF Typed, Configs, ConfigsServe, Inserting, RunIds, OneListener, ResultsAttributed
      <3>2. ASSUME NEW p \in Pipelines
            PROVE  Placed(p)' /\ Started(p)' /\ Progress(p)' /\ Configured(p)'
        <4>1. Stage(p)' = Stage(p)
          BY DEF Stage
        <4>2. Placed(p)' /\ Started(p)' /\ Configured(p)'
          BY <4>1 DEF Placed, Ranges, LevelsOf, Iterations, Started, Logged, Configured
        <4>3. Progress(p)'
          <5>1. ASSUME NEW n, NEW i
                PROVE  Behind(p, n, i)' = Behind(p, n, i) /\ Has(p, n, i)' = Has(p, n, i)
            BY <4>1 DEF Behind, Has
          <5>2. LevelsOf(p)' = LevelsOf(p) /\ Iterations(p)' = Iterations(p) /\ job' = job
            BY DEF LevelsOf, Iterations
          <5> QED
            BY <4>1, <5>1, <5>2 DEF Progress
        <4> QED
          BY <4>2, <4>3
      <3>3. ASSUME NEW p \in Pipelines
            PROVE  Fresh(p)'
        BY DEF Fresh, Unused, InUse, Alone, OnHost, Rising
      <3> QED
        BY <3>1, <3>2, <3>3
    <2> QED
      BY <1>1, <2>1, <2>2
  <1> QED
    BY Begin, <1>1, PTL DEF Spec

\* The results under a run id are all of the pipeline and revision that
\* bench_runs names, although the id was read long before (log_sysbench_run).
THEOREM ResultsHaveTheirRun == Spec => []ResultsAttributed
  <1>1. IInv => ResultsAttributed
    BY DEF IInv
  <1> QED
    BY <1>1, Invariance, PTL

OneRunPerId == \A r, s \in db.runs : r.id = s.id => r = s

\* No two runs of bench_runs share an id: whoever comes second exits.
THEOREM RunsHaveOwnIds == Spec => []OneRunPerId
  <1>1. IInv => OneRunPerId
    BY DEF IInv, RunIds, OneRunPerId
  <1> QED
    BY <1>1, Invariance, PTL

\* The types, one listener for a host, and what bench_config must be for the
\* runs that name it, however many pipelines insert the configuration at once
\* (getConfigId).
THEOREM TypesAndConfigs == Spec => []Consistent
  <1>1. IInv => Consistent
    <2> SUFFICES ASSUME IInv PROVE Consistent
      OBVIOUS
    <2>1. ASSUME NEW p \in Pipelines
          PROVE  Cardinality(Listening(p)) <= 1
      <3>1. CASE Listening(p) = {}
        BY <3>1, FS_EmptySet
      <3>2. CASE Listening(p) # {}
        <4>1. PICK q \in Pipelines : Listening(p) = {q}
          BY <3>2 DEF IInv, OneListener, Listening, OnHost
        <4> QED
          BY <4>1, FS_Singleton
      <3> QED
        BY <3>1, <3>2
    <2>2. ASSUME NEW p \in Pipelines
          PROVE  rev[p] \in 1 .. job[p].revisions /\ level[p] \in DOMAIN job[p].levels
                 /\ iteration[p] \in 0 .. job[p].iterations - 1
      <3>1. job[p].levels \in Seq(Nat)
        BY BenchAssumption DEF IInv, Typed
      <3> QED
        BY <3>1 DEF IInv, Placed, Ranges, LevelsOf, Iterations
    <2>3. TypeOK
      BY <2>1, <2>2 DEF TypeOK, IInv, Typed, Configs, Servers
    <2>4. ConfigsServe
      BY DEF IInv, Configs
    <2> QED
      BY <2>3, <2>4 DEF Consistent
  <1> QED
    BY <1>1, Invariance, PTL

\* A revision that counts as done has logged each iteration of each level
\* (execute).
THEOREM DoneIsComplete == Spec => []Complete
  <1>1. IInv => Complete
    <2> SUFFICES ASSUME IInv, NEW p \in Pipelines, pc[p] = "done", job[p].store,
                        NEW n \in DOMAIN job[p].levels, NEW i \in Iterations(p)
                 PROVE  Has(p, n, i)
      BY DEF Complete, Has, Iterations
    <2>1. Stage(p) = "done" /\ Placed(p) /\ Progress(p)
      BY DEF Stage, StageOf, StageAt, IInv
    <2>2. job[p].levels \in Seq(Nat)
      BY BenchAssumption DEF IInv, Typed
    <2>3. n \in LevelsOf(p) /\ (n < level[p] \/ n = level[p])
      BY <2>1, <2>2 DEF Placed, LevelsOf
    <2>4. Behind(p, n, i)
      BY <2>1, <2>3 DEF Behind
    <2> QED
      BY <2>1, <2>3, <2>4 DEF Progress
  <1> QED
    BY <1>1, Invariance, PTL

\* With rising levels and a host of its own, a pipeline runs no level on data
\* that another level has changed (sysbench/run.py:360).
THEOREM LevelsAreFresh == Spec => []FreshIfRising
  <1>1. IInv => FreshIfRising
    BY DEF IInv, FreshIfRising, Fresh, InUse
  <1> QED
    BY <1>1, Invariance, PTL
=============================================================================
