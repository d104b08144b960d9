----------------------------- MODULE StressTest -----------------------------
(* tests/stress-test.pl: an initialization stage run by the main thread,     *)
(* then threads that take tests from a list until a limit is reached.  The   *)
(* counters and the flag exiting are shared; a limit is checked, a test      *)
(* counted, a loop counted and the counters saved under four separate locks  *)
(* of test_counters_lock.                                                    *)
EXTENDS Naturals

CONSTANTS
  Threads,    \* opt_threads
  Lengths,    \* the lengths a list of tests can have
  MaxLimit,   \* bound on the limits tried
  Edits       \* --check-tests-file: the user may "add" tests, or make "any" change

ASSUME StressAssumption ==
  /\ Threads \in Nat \ {0} /\ MaxLimit \in Nat \ {0}
  /\ Lengths \subseteq Nat \ {0} /\ Lengths # {} /\ Edits \subseteq {"none", "add", "any"}

\* One of the lists is the longest.
ASSUME LongestAssumption == \E n \in Lengths : \A m \in Lengths : m <= n

Ids  == 0 .. Threads   \* thread 0 is the main thread in the initialization stage
Main == 0

VARIABLES
  conf,      \* stress-mode, edits and limits; 0 is no limit
  stage, created,
  exiting, loops, tests,    \* the shared variables
  th,        \* the client_env of each thread
  listLen,   \* length of the tests file
  removed,   \* a test has been removed from it (for checking only)
  executed,  \* tests executed in the stage
  cancelled  \* INT, TERM, or an S1 error with --abort-on-error

counters == <<loops, tests>>
list == <<listLen, removed>>
vars == <<conf, stage, created, exiting, counters, th, list, executed, cancelled>>

\* Runs that no limit ends are left to the user's INT and to --test-duration.
\* A thread past the end of a list that was shortened may close no more loops.
Bounded(c) == c.tests > 0 \/ (c.loops > 0 /\ c.mode = "seq" /\ c.edits # "any")

Client(len) == [pc |-> "check", idx |-> 0, mine |-> 0, len |-> len]
NoClient    == [pc |-> "none", idx |-> 0, mine |-> 0, len |-> 0]

Init ==
  /\ conf \in {c \in [mode : {"seq", "random"}, edits : Edits,
                      tests : 0 .. MaxLimit, loops : 0 .. MaxLimit] : Bounded(c)}
  /\ stage \in {"init", "run"}   \* with and without --stress-init-file
  /\ listLen \in Lengths /\ removed = FALSE
  /\ th = [t \in Ids |-> IF t = Main /\ stage = "init" THEN Client(listLen) ELSE NoClient]
  /\ created = 0 /\ exiting = FALSE /\ loops = 0 /\ tests = 0
  /\ executed = 0 /\ cancelled = FALSE

Limit == IF stage = "init" THEN [tests |-> 0, loops |-> 1, mode |-> "seq"] ELSE conf

Step(t, r) == th' = [th EXCEPT ![t] = r]
At(t, p)   == th[t].pc = p
-----------------------------------------------------------------------------
\* The head of the loop: exiting, the list read again, the limits.
ReachedLate  == (Limit.loops > 0 /\ Limit.loops < loops)  \* a mutant of Reached
             \/ (Limit.tests > 0 /\ Limit.tests < tests)
Reached      == (Limit.loops > 0 /\ Limit.loops <= loops)
             \/ (Limit.tests > 0 /\ Limit.tests <= tests)

CheckLimits(t) ==
  /\ At(t, "check")
  /\ \/ exiting /\ Step(t, [th[t] EXCEPT !.pc = "done"]) /\ UNCHANGED exiting
     \/ /\ ~exiting /\ exiting' = Reached
        /\ Step(t, [th[t] EXCEPT !.pc = IF Reached THEN "done" ELSE "count",
                                 !.len = IF conf.edits # "none" THEN listLen ELSE @])
  /\ UNCHANGED <<conf, stage, created, counters, list, executed, cancelled>>

\* get_test
CountUnlocked(t) ==   \* a mutant of CountTest
  /\ At(t, "count") /\ tests' \in {tests, tests + 1} /\ Step(t, [th[t] EXCEPT !.pc = "get"])
  /\ UNCHANGED <<conf, stage, created, exiting, loops, list, executed, cancelled>>
CountTest(t) ==
  /\ At(t, "count") /\ tests' = tests + 1 /\ Step(t, [th[t] EXCEPT !.pc = "get"])
  /\ UNCHANGED <<conf, stage, created, exiting, loops, list, executed, cancelled>>

\* get_next_test returns nothing when idx is past the end of the list, and
\* then idx never equals the length again; a random test is always there.
NoReset(t) == th[t].idx + 1   \* a mutant of NextIdx
NextIdx(t) == IF th[t].idx + 1 = th[t].len THEN 0 ELSE th[t].idx + 1

NextLoops(t) == IF th[t].idx + 1 = th[t].len THEN loops + 1 ELSE loops

GetNextTest(t) ==
  /\ At(t, "get") /\ Limit.mode = "seq" /\ loops' = NextLoops(t)
  /\ Step(t, [th[t] EXCEPT !.idx = NextIdx(t),
                           !.pc = IF th[t].idx < th[t].len THEN "save" ELSE "check"])
  /\ UNCHANGED <<conf, stage, created, exiting, tests, list, executed, cancelled>>

GetRandomTest(t) ==
  /\ At(t, "get") /\ Limit.mode = "random" /\ Step(t, [th[t] EXCEPT !.pc = "save"])
  /\ UNCHANGED <<conf, stage, created, exiting, counters, list, executed, cancelled>>

SaveCounters(t) ==
  /\ At(t, "save") /\ Step(t, [th[t] EXCEPT !.pc = "execute", !.mine = tests])
  /\ UNCHANGED <<conf, stage, created, exiting, counters, list, executed, cancelled>>

\* test_execute: the test is run and logged under its saved TestID; S1 errors
\* with --abort-on-error and a mysqltest that was interrupted stop everything.
ExecuteUnlessExiting(t) ==   \* a mutant of TestExecute
  /\ At(t, "execute") /\ Step(t, [th[t] EXCEPT !.pc = "check"])
  /\ executed' = IF exiting THEN executed ELSE executed + 1
  /\ UNCHANGED <<conf, stage, created, exiting, counters, list, cancelled>>
TestExecute(t) ==
  /\ At(t, "execute") /\ Step(t, [th[t] EXCEPT !.pc = "check"])
  /\ executed' = executed + 1
  /\ \/ UNCHANGED <<exiting, cancelled>>
     \/ ~exiting /\ exiting' = TRUE /\ cancelled' = TRUE
  /\ UNCHANGED <<conf, stage, created, counters, list>>

ClientStep(t) == \/ CheckLimits(t) \/ CountTest(t) \/ GetNextTest(t) \/ GetRandomTest(t)
              \/ SaveCounters(t) \/ TestExecute(t)
-----------------------------------------------------------------------------
\* The main thread.
RunningStage ==
  /\ stage = "init" /\ At(Main, "done") /\ stage' = "run"
  /\ exiting' = FALSE /\ loops' = 0 /\ tests' = 0 /\ executed' = 0
  /\ UNCHANGED <<conf, created, th, list, cancelled>>

CreateThread ==
  /\ stage = "run" /\ created < Threads /\ ~exiting
  /\ created' = created + 1 /\ Step(created + 1, Client(listLen))
  /\ UNCHANGED <<conf, stage, exiting, counters, list, executed, cancelled>>

StopCreating ==
  /\ stage = "run" /\ (created = Threads \/ exiting) /\ stage' = "join"
  /\ UNCHANGED <<conf, created, exiting, counters, th, list, executed, cancelled>>

JoinAll ==   \* a mutant of JoinThreads: threads never created are joined too
  /\ stage = "join" /\ stage' = "end"
  /\ \A t \in 1 .. Threads : At(t, "done")
  /\ UNCHANGED <<conf, created, exiting, counters, th, list, executed, cancelled>>
JoinThreads ==
  /\ stage = "join" /\ stage' = "end"
  /\ \A t \in 1 .. created : At(t, "done")
  /\ UNCHANGED <<conf, created, exiting, counters, th, list, executed, cancelled>>

\* sig_INT_handler: the user, or the main thread after --test-duration
Interrupt ==
  /\ stage # "end" /\ ~exiting /\ exiting' = TRUE /\ cancelled' = TRUE
  /\ UNCHANGED <<conf, stage, created, counters, th, list, executed>>

\* The file of the initialization stage is not shortened while it runs.
EditTestsFile ==
  /\ conf.edits # "none" /\ listLen' \in Lengths
  /\ listLen' > listLen \/ (conf.edits = "any" /\ stage # "init")
  /\ removed' = (removed \/ listLen' < listLen)
  /\ UNCHANGED <<conf, stage, created, exiting, counters, th, executed, cancelled>>

MainThread == RunningStage \/ CreateThread \/ StopCreating \/ JoinThreads
Next == MainThread \/ Interrupt \/ EditTestsFile \/ \E t \in Ids : ClientStep(t)

Spec     == Init /\ [][Next]_vars
FairSpec == Spec /\ WF_vars(MainThread) /\ \A t \in Ids : WF_vars(ClientStep(t))
-----------------------------------------------------------------------------
MaxLen == CHOOSE n \in Lengths : \A m \in Lengths : m <= n
Count  == 0 .. MaxLimit * MaxLen * Threads + Threads

\* The types of the shared variables and of the client_env of the threads, with
\* bounds of the counters that hold whatever is done to the list; a thread's
\* index stays inside its list until a test is removed.
TypeOK ==
  /\ Bounded(conf) /\ stage \in {"init", "run", "join", "end"} /\ created \in 0 .. Threads
  /\ exiting \in BOOLEAN /\ cancelled \in BOOLEAN /\ listLen \in Lengths
  /\ (removed => conf.edits = "any") /\ loops \in Count /\ tests \in Count /\ executed \in Count
  /\ th \in [Ids -> [pc : {"none", "check", "count", "get", "save", "execute", "done"},
                     idx : Nat, mine : Count, len : {0} \cup Lengths]]
  /\ \A t \in Ids : removed \/ th[t].len = 0 \/ th[t].idx < th[t].len

\* A limit is overshot by less than the number of threads: each thread can be
\* between its check and its count only once.
Overshoot ==
  stage # "init" =>
    /\ conf.tests > 0 => tests <= conf.tests + Threads - 1
    /\ conf.loops > 0 => loops <= conf.loops + Threads - 1

\* At the end every counted test was executed and logged, whoever set exiting;
\* tests are counted and not run only after some were removed from the list.
CountedAreRun == stage = "end" => executed <= tests /\ (removed \/ executed = tests)

\* A thread logs its tests under increasing TestIDs, though the id is read
\* under another lock than the one the test was counted under.
OwnIdsIncrease ==
  [][\A t \in Ids : At(t, "save") /\ th'[t].pc = "execute" => th'[t].mine > th[t].mine]_vars

\* A run with a limit ends: all threads are joined, those too that are past the
\* end of their list and only count.
Ends == <>(stage = "end")
=============================================================================
