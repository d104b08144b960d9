-------------------------- MODULE DtrRunnerProofs --------------------------
(* The runner of tests/test-run.pl keeps track of its servers: whatever dies *)
(* and whenever ^C arrives, a test gets the servers it asks for, no server   *)
(* loses its data directory, and a run that reports success ran every test;  *)
(* and unless ^C arrives while servers are being stopped, every server that  *)
(* runs is one the runner can stop.                                          *)
EXTENDS DtrRunner, FiniteSetTheorems, TLAPS

\* There are more pids than the runner can have in mind, and ^C does not arrive
\* while servers are being stopped.
Roomy        == Cardinality(Pids) > NumSlaves + 4
Uninterrupted == "stop" \notin InterruptAt

Alive(p)  == proc[p].phase # "free"
AServer(p, s) == Alive(p) /\ IsServer(p) /\ proc[p].of = s
Dying     == killing \cup hard

Codes == {"none", "passed", "failed"}

\* The types TypeOK leaves out.
MoreTypes ==
  /\ test.slaves \in 0 .. NumSlaves /\ test.opts \in Opts
  /\ results \in Seq(Codes) /\ code \in Codes
  /\ found \in BOOLEAN /\ failed \in BOOLEAN /\ killed \in BOOLEAN
  /\ exit \in {"none", "ok", "error", "suite"}

\* Servers are waited for at one place only, and go on from there as planned.
Stopping ==
  /\ pc = "stop" => next \in {"reap", "restore", "exit", "report"}
  /\ pc # "stop" => killing = {} /\ hard = {}
  /\ pc \notin {"run", "exited"} /\ (pc = "stop" => next # "exit") => tester = 0
  /\ pc = "run" => tester # 0
  /\ pc = "next" => timer["testcase"] = 0
  /\ exit # "none" => pc = "exited"

\* What the runner knows of its children is true of them,
Records ==
  /\ \A s \in Servers : pid[s] # 0 => AServer(pid[s], s) /\ proc[pid[s]].opts = startOpts[s]
  /\ \A p \in Dying : Alive(p) => IsServer(p) /\ pid[proc[p].of] = 0
  /\ \A n \in Timers : timer[n] # 0 /\ Alive(timer[n]) => proc[timer[n]].role = n
  /\ tester # 0 => Alive(tester) /\ proc[tester].role = "test"

\* and there is no child it does not know.
Family ==
  /\ \A p \in Pids : Alive(p) => \/ IsServer(p) /\ (p \in Dying \/ pid[proc[p].of] = p)
                                 \/ proc[p].role = "test" /\ tester = p
                                 \/ proc[p].role \in Timers /\ timer[proc[p].role] = p
  /\ \A p, q \in Pids : Alive(p) /\ Alive(q) /\ IsServer(p) /\ IsServer(q)
                        /\ proc[p].of = proc[q].of => p = q

\* Which servers have been told to stop, by the time their directories are touched.
Cleared ==
  \/ pc = "stop" /\ next # "reap"
  \/ pc \in {"restore", "report"}
  \/ pc = "exited" /\ exit # "suite"
Preparing == pc = "reap" \/ (pc = "stop" /\ next = "reap")
Gone ==
  /\ Cleared => \A s \in Servers : pid[s] = 0
  /\ Preparing /\ test.slaves > 0 => \A s \in 1 .. NumSlaves : pid[s] = 0
  /\ pc = "start" /\ test.slaves > 0 => \A s \in 1 .. NumSlaves : s >= i => pid[s] = 0

\* The servers a test has so far are as it asks for them.
Asks(s) == /\ pid[s] # 0 /\ startOpts[s] = test.opts
           /\ s > 0 => proc[pid[s]].since = ran
AsAsked ==
  /\ Preparing /\ ~restart => pid[0] # 0 /\ test.slaves = 0
  /\ (Preparing \/ pc = "start") /\ pid[0] # 0 => startOpts[0] = test.opts
  /\ pc = "start" => \A s \in 0 .. test.slaves : s < i => Asks(s)
  /\ pc \in {"await", "spawn"} => \A s \in 0 .. test.slaves : Asks(s)

\* One result for each test that is over; a failure and a kill are not forgotten.
InTest == Preparing \/ pc \in {"start", "await", "spawn", "run"}
Counted ==
  /\ InTest => Len(results) = ran - 1
  /\ ~InTest /\ (pc = "stop" => next # "exit") /\ pc # "exited" => Len(results) = ran
  /\ pc = "report" \/ (pc = "stop" /\ next = "report") => ran = MaxTests
  /\ ~failed => \A k \in DOMAIN results : results[k] # "failed"
  /\ killed => found

IInv == /\ TypeOK /\ MoreTypes /\ Stopping /\ Records /\ Family /\ Gone /\ AsAsked /\ Counted
        /\ DataUnderServers /\ HonestExit

\* After ^C in a wait for servers to stop: the runner only stops and ends.
Abandoned == /\ next = "exit" /\ pc \in {"stop", "exited"} /\ exit \in {"none", "error"}
             /\ proc \in [Pids -> Process] /\ DataUnderServers
-----------------------------------------------------------------------------
(* What the operators of the model do to a child.                            *)
Still(p) ==
  /\ proc'[p].role = proc[p].role /\ proc'[p].of = proc[p].of
  /\ proc'[p].opts = proc[p].opts /\ proc'[p].since = proc[p].since
  /\ (proc'[p].phase # "free" <=> proc[p].phase # "free")

\* A new or a collected child is a process.
LEMMA NewChildren ==
  /\ Free \in Process /\ Free.phase = "free"
  /\ \A n \in Timers \cup {"test"} :
       Child(n) \in Process /\ Child(n).role = n /\ Child(n).phase = "running"
<1>1. 0 \in Servers /\ 0 \in 0 .. MaxTests /\ "none" \in Opts
  BY ConstantsAssumption DEF Servers, Opts
<1>2. Free \in Process /\ Free.phase = "free"
  BY <1>1 DEF Free, Process
<1>3. ASSUME NEW n \in Timers \cup {"test"}
      PROVE  Child(n) \in Process /\ Child(n).role = n /\ Child(n).phase = "running"
  <2>1. Child(n) \in Process
    BY <1>2 DEF Child, Process
  <2>2. Child(n).role = n /\ Child(n).phase = "running"
    BY DEF Child, Free
  <2> QED
    BY <2>1, <2>2
<1> QED
  BY <1>2, <1>3

\* Asking servers to stop changes the phase of some of them, from "up" to "stopping".
LEMMA AskedChildren ==
  ASSUME NEW P \in [Pids -> Process], NEW S \in SUBSET Servers
  PROVE  /\ Asked(P, S) \in [Pids -> Process]
         /\ \A p \in Pids :
              \/ Asked(P, S)[p] = P[p]
              \/ /\ P[p].phase = "up" /\ Asked(P, S)[p] = [P[p] EXCEPT !.phase = "stopping"]
<1>1. \A p \in Pids : P[p] \in Process /\ [P[p] EXCEPT !.phase = "stopping"] \in Process
  BY DEF Process
<1> QED
  BY <1>1 DEF Asked

\* A new data directory takes the old one from the servers that run on it.
LEMMA EvictedChildren ==
  ASSUME NEW P \in [Pids -> Process], NEW S \in SUBSET Servers
  PROVE  /\ Evicted(P, S) \in [Pids -> Process]
         /\ \A p \in Pids : IF ServerRuns(p) /\ P[p].of \in S
                            THEN Evicted(P, S)[p] = [P[p] EXCEPT !.home = FALSE]
                            ELSE Evicted(P, S)[p] = P[p]
<1>1. \A p \in Pids : P[p] \in Process /\ [P[p] EXCEPT !.home = FALSE] \in Process
  BY DEF Process
<1> QED
  BY <1>1 DEF Evicted

\* Stopping a timer frees its pid or nothing.
LEMMA StoppedTimers ==
  ASSUME NEW P \in [Pids -> Process], NEW n \in Timers
  PROVE  /\ TimerStopped(P, n) \in [Pids -> Process]
         /\ \A p \in Pids : IF p = timer[n] /\ P[p].role = n
                            THEN TimerStopped(P, n)[p] = Free
                            ELSE TimerStopped(P, n)[p] = P[p]
BY NewChildren DEF TimerStopped

\* While no server is being stopped there is a pid for a new child: every child is
\* remembered, and the runner remembers at most NumSlaves + 4.
LEMMA APidIsLeft ==
  ASSUME Roomy, TypeOK, Family, killing = {}, hard = {}
  PROVE  /\ NewPid \in Pids /\ NewPid \notin Remembered /\ ~Alive(NewPid)
         /\ NewPid # 0 /\ NewPid \notin killing \cup hard /\ NewPid # tester
         /\ \A s \in Servers : pid[s] # NewPid
         /\ \A n \in Timers : timer[n] # NewPid
<1> DEFINE Names == 1 .. NumSlaves + 4
           Held  == [k \in Names |-> IF k <= NumSlaves + 1 THEN pid[k - 1]
                                     ELSE IF k = NumSlaves + 2 THEN timer["suite"]
                                     ELSE IF k = NumSlaves + 3 THEN timer["testcase"]
                                     ELSE tester]
           Image == {Held[k] : k \in Names}
<1>1. NumSlaves \in Nat /\ Pids \subseteq Nat \ {0} /\ IsFiniteSet(Pids)
  BY ConstantsAssumption
<1>2. Remembered = Image
  <2>1. \A s \in Servers : s + 1 \in Names /\ Held[s + 1] = pid[s]
    BY <1>1 DEF Servers
  <2>2. /\ NumSlaves + 2 \in Names /\ NumSlaves + 3 \in Names /\ NumSlaves + 4 \in Names
        /\ Held[NumSlaves + 2] = timer["suite"] /\ Held[NumSlaves + 3] = timer["testcase"]
        /\ Held[NumSlaves + 4] = tester
    BY <1>1
  <2>3. \A k \in Names : \/ k - 1 \in Servers /\ Held[k] = pid[k - 1]
                         \/ Held[k] \in {timer["suite"], timer["testcase"], tester}
    BY <1>1 DEF Servers
  <2>4. Remembered = {pid[s] : s \in Servers} \cup {timer["suite"], timer["testcase"], tester}
    BY DEF Remembered, Timers
  <2> HIDE DEF Held, Names
  <2> QED
    BY <2>1, <2>2, <2>3, <2>4
<1>3. IsFiniteSet(Image) /\ Cardinality(Image) <= NumSlaves + 4
  <2>1. IsFiniteSet(Names) /\ Cardinality(Names) = NumSlaves + 4
    BY FS_Interval, <1>1
  <2>2. Held \in Surjection(Names, Image)
    BY DEF Surjection
  <2> QED
    BY <2>1, <2>2, FS_Surjection
<1>4. Pids \ Remembered # {}
  <2> SUFFICES ASSUME Pids \subseteq Image PROVE FALSE
    BY <1>2
  <2>1. Cardinality(Pids) <= Cardinality(Image)
    BY <1>3, FS_Subset
  <2>2. Cardinality(Pids) \in Nat /\ Cardinality(Image) \in Nat
    BY <1>1, <1>3, FS_CardinalityType
  <2> QED
    BY <2>1, <2>2, <1>1, <1>3 DEF Roomy
<1>5. \A p \in Pids \ Remembered : proc[p].phase = "free"
  BY DEF Family, Alive, Remembered, Dying, TypeOK, Process, Servers
<1>6. NewPid \in Pids \ Remembered /\ proc[NewPid].phase = "free"
  BY <1>4, <1>5 DEF NewPid
<1> QED
  BY <1>1, <1>6 DEF Remembered, Alive, TypeOK
-----------------------------------------------------------------------------
(* The first state.                                                          *)
LEMMA InitIInv == ASSUME Roomy, Init PROVE IInv
<1> USE ConstantsAssumption
<1> DEFINE First == CHOOSE q \in Pids : TRUE
<1>1. First \in Pids /\ First # 0 /\ Pids # {}
  <2>1. Pids # {}
    <3> SUFFICES ASSUME Pids = {} PROVE FALSE
      OBVIOUS
    <3> QED
      BY FS_EmptySet DEF Roomy
  <2> QED
    BY <2>1
<1>2. /\ proc = [q \in Pids |-> IF q = First THEN Child("suite") ELSE Free]
      /\ timer = [n \in Timers |-> IF n = "suite" THEN First ELSE 0]
  BY DEF Init
<1> HIDE DEF First
<1>3. "suite" \in Timers /\ "testcase" \in Timers
  BY DEF Timers
<1>4. proc \in [Pids -> Process] /\ timer \in [Timers -> Pids \cup {0}]
  BY <1>1, <1>2, <1>3, NewChildren
<1>5. TypeOK
  <2>1. /\ force \in BOOLEAN /\ pc = "next" /\ i = 0 /\ next = "next" /\ ran = 0
        /\ restart = FALSE /\ saved = FALSE /\ tester = 0 /\ killing = {} /\ hard = {}
        /\ pid = [s \in Servers |-> 0] /\ startOpts = [s \in Servers |-> "none"]
        /\ pidfile = [s \in Servers |-> FALSE] /\ expect = [s \in Servers |-> FALSE]
    BY Zenon DEF Init
  <2>2. /\ i \in 0 .. NumSlaves + 1 /\ ran \in 0 .. MaxTests
    BY <2>1
  <2>3. "none" \in Opts
    BY DEF Opts
  <2>4. /\ pid \in [Servers -> Pids \cup {0}] /\ startOpts \in [Servers -> Opts]
        /\ pidfile \in [Servers -> BOOLEAN] /\ expect \in [Servers -> BOOLEAN]
    BY <2>1, <2>3
  <2> QED
    BY <1>4, <2>1, <2>2, <2>4 DEF TypeOK, Points
<1>6. MoreTypes
  <2>1. test.slaves = 0 /\ test.opts = "none"
    BY DEF Init
  <2>2. /\ results = <<>> /\ code = "none" /\ exit = "none"
        /\ found = FALSE /\ failed = FALSE /\ killed = FALSE
    BY DEF Init
  <2>3. 0 \in 0 .. NumSlaves /\ "none" \in Opts /\ "none" \in Codes
    BY DEF Opts, Codes
  <2>4. <<>> \in Seq(Codes)
    OBVIOUS
  <2> QED
    BY <2>1, <2>2, <2>3, <2>4 DEF MoreTypes
<1>7. /\ proc[First].role = "suite" /\ \A q \in Pids : q # First => proc[q].phase = "free"
      /\ timer["suite"] = First /\ timer["testcase"] = 0
  BY <1>1, <1>2, <1>3, NewChildren
<1>8. Stopping
  BY <1>7 DEF Init, Stopping
<1>9. Records
  <2>1. \A n \in Timers : timer[n] # 0 => n = "suite" /\ timer[n] = First
    BY <1>7 DEF Timers
  <2> QED
    BY <1>7, <2>1 DEF Init, Records, Dying
<1>10. Family
  <2>1. \A p \in Pids : Alive(p) => p = First
    BY <1>7 DEF Alive
  <2> QED
    BY <1>7, <1>3, <2>1 DEF Family
<1>11. Gone /\ AsAsked /\ Counted
  BY DEF Init, Gone, AsAsked, Counted, Cleared, Preparing, InTest, Codes
<1>12. DataUnderServers
  BY <1>7 DEF DataUnderServers, ServerRuns, IsServer
<1>13. HonestExit
  BY DEF Init, HonestExit
<1> QED
  BY <1>5, <1>6, <1>8, <1>9, <1>10, <1>11, <1>12, <1>13 DEF IInv
-----------------------------------------------------------------------------
(* Types.                                                                    *)

\* drizzled_start forks a process and records it.
LEMMA StartedTypes ==
  ASSUME Roomy, IInv, killing = {}, hard = {}, NEW P \in [Pids -> Process], NEW s \in Servers,
         NEW o \in Opts, DrizzledStart(P, s, o)
  PROVE  /\ proc' \in [Pids -> Process] /\ pid' \in [Servers -> Pids \cup {0}]
         /\ startOpts' \in [Servers -> Opts] /\ pidfile' \in [Servers -> BOOLEAN]
         /\ NewPid \in Pids /\ pid'[s] = NewPid /\ startOpts'[s] = o
         /\ proc'[NewPid].role = "server" /\ proc'[NewPid].phase = "booting"
         /\ proc'[NewPid].of = s /\ proc'[NewPid].opts = o /\ proc'[NewPid].since = ran
         /\ proc'[NewPid].home
         /\ \A p \in Pids : p # NewPid => proc'[p] = P[p]
         /\ \A u \in Servers : u # s => pid'[u] = pid[u] /\ startOpts'[u] = startOpts[u]
<1> DEFINE born == [role |-> "server", phase |-> "booting", of |-> s, opts |-> o,
                    since |-> ran, home |-> TRUE]
<1>1. born \in Process
  BY DEF Process, IInv, TypeOK
<1>2. NewPid \in Pids
  BY APidIsLeft DEF IInv
<1>3. /\ proc' = [P EXCEPT ![NewPid] = born] /\ pid' = [pid EXCEPT ![s] = NewPid]
      /\ startOpts' = [startOpts EXCEPT ![s] = o] /\ pidfile' = [pidfile EXCEPT ![s] = FALSE]
  BY DEF DrizzledStart
<1>4. /\ born.role = "server" /\ born.phase = "booting" /\ born.of = s /\ born.opts = o
      /\ born.since = ran /\ born.home
  OBVIOUS
<1> HIDE DEF born
<1> QED
  BY <1>1, <1>2, <1>3, <1>4 DEF IInv, TypeOK

\* A child changes phase, and nothing else.
LEMMA PhaseTypes ==
  ASSUME NEW c \in Process, NEW f \in {"up", "zombie"}
  PROVE  LET d == [c EXCEPT !.phase = f] IN
         /\ d \in Process /\ d.phase = f /\ d.role = c.role /\ d.of = c.of
         /\ d.opts = c.opts /\ d.since = c.since /\ d.home = c.home
BY DEF Process

\* Stopping servers moves their pids to the list of those to be killed.
LEMMA StopTypes ==
  ASSUME IInv, NEW P \in [Pids -> Process], NEW S \in SUBSET Servers, StopServers(P, S)
  PROVE  /\ proc' \in [Pids -> Process] /\ pid' \in [Servers -> Pids \cup {0}]
         /\ killing' \subseteq Pids /\ hard' = {}
         /\ killing' = {pid[s] : s \in S} \ {0}
         /\ \A s \in Servers : IF s \in S THEN pid'[s] = 0 ELSE pid'[s] = pid[s]
         /\ \A p \in Pids :
              \/ proc'[p] = P[p]
              \/ P[p].phase = "up" /\ proc'[p] = [P[p] EXCEPT !.phase = "stopping"]
<1>1. proc' = Asked(P, S) /\ killing' = PidsToKill(S) /\ hard' = {}
      /\ pid' = [s \in Servers |-> IF s \in S THEN 0 ELSE pid[s]]
  BY DEF StopServers
<1>2. pid \in [Servers -> Pids \cup {0}]
  BY DEF IInv, TypeOK
<1>3. killing' = {pid[s] : s \in S} \ {0} /\ killing' \subseteq Pids
  BY <1>1, <1>2 DEF PidsToKill
<1>4. pid' \in [Servers -> Pids \cup {0}]
      /\ \A s \in Servers : IF s \in S THEN pid'[s] = 0 ELSE pid'[s] = pid[s]
  BY <1>1, <1>2
<1> QED
  BY <1>1, <1>3, <1>4, AskedChildren

\* Ending the run stops both timers.
LEMMA ExitTypes ==
  ASSUME IInv, NEW P \in [Pids -> Process], NEW how \in {"ok", "error", "suite"}, Exit(P, how)
  PROVE  /\ pc' = "exited" /\ i' = 0 /\ exit' = how /\ timer' = [n \in Timers |-> 0]
         /\ proc' \in [Pids -> Process]
         /\ \A p \in Pids : \/ proc'[p] = P[p]
                            \/ \E n \in Timers : p = timer[n] /\ P[p].role = n /\ proc'[p] = Free
         /\ \A n \in Timers, p \in Pids : p = timer[n] /\ P[p].role = n => proc'[p] = Free
<1> DEFINE Q == TimerStopped(P, "suite")
<1>1. "suite" \in Timers /\ "testcase" \in Timers /\ Timers = {"suite", "testcase"}
  BY DEF Timers
<1>2. /\ Q \in [Pids -> Process]
      /\ \A p \in Pids : IF p = timer["suite"] /\ P[p].role = "suite"
                         THEN Q[p] = Free ELSE Q[p] = P[p]
  BY <1>1, StoppedTimers
<1>3. proc' = TimerStopped(Q, "testcase")
  BY DEF Exit
<1> HIDE DEF Q
<1>4. /\ proc' \in [Pids -> Process]
      /\ \A p \in Pids : IF p = timer["testcase"] /\ Q[p].role = "testcase"
                         THEN proc'[p] = Free ELSE proc'[p] = Q[p]
  BY <1>1, <1>2, <1>3, StoppedTimers
<1>5. Free.role = "none"
  BY DEF Free
<1> QED
  BY <1>1, <1>2, <1>4, <1>5 DEF Exit, Goto

\* The variables of the types, without what a step leaves alone.
LEMMA CollectTypes ==
  ASSUME IInv, NEW p \in Pids, CollectExit(p) PROVE TypeOK' /\ MoreTypes'
<1>1. proc' \in [Pids -> Process]
  BY NewChildren DEF IInv, TypeOK, CollectExit
<1>2. pidfile' \in [Servers -> BOOLEAN]
  BY DEF IInv, TypeOK, CollectExit
<1>3. killing' \subseteq Pids /\ hard' \subseteq Pids
  BY DEF IInv, TypeOK, CollectExit
<1> QED
  BY <1>1, <1>2, <1>3
  DEF IInv, TypeOK, MoreTypes, CollectExit, loop, tested, known, marks

LEMMA KillTypes == ASSUME IInv, KillHard PROVE TypeOK' /\ MoreTypes'
<1>1. proc' \in [Pids -> Process]
  BY NewChildren DEF IInv, TypeOK, KillHard
<1>2. pidfile' \in [Servers -> BOOLEAN]
  BY DEF IInv, TypeOK, KillHard
<1>3. found' \in BOOLEAN /\ killed' \in BOOLEAN /\ hard' = {}
  BY DEF IInv, MoreTypes, KillHard, Flagged
<1> QED
  BY <1>1, <1>2, <1>3 DEF IInv, TypeOK, MoreTypes, KillHard, loop, tested, known

LEMMA StoppedTypes == ASSUME IInv, Stopped PROVE TypeOK' /\ MoreTypes'
<1>1. \/ next = "exit" /\ Exit(proc, "error")
      \/ next # "exit" /\ Goto(next) /\ UNCHANGED <<exit, proc, timer>>
  BY DEF Stopped
<1>2. proc \in [Pids -> Process] /\ 0 \in 0 .. NumSlaves + 1
  BY ConstantsAssumption DEF IInv, TypeOK
<1>3. CASE next = "exit" /\ Exit(proc, "error")
  <2>1. /\ pc' = "exited" /\ i' = 0 /\ exit' = "error" /\ timer' = [n \in Timers |-> 0]
        /\ proc' \in [Pids -> Process]
    BY <1>2, <1>3, ExitTypes
  <2> QED
    BY <1>2, <2>1 DEF IInv, TypeOK, MoreTypes, Stopped, tested, lists, Points
<1>4. CASE next # "exit" /\ Goto(next) /\ UNCHANGED <<exit, proc, timer>>
  BY <1>2, <1>4 DEF IInv, TypeOK, MoreTypes, Stopped, tested, lists, Goto
<1> QED
  BY <1>1, <1>3, <1>4

LEMMA BeginTypes == ASSUME Roomy, IInv, BeginTest PROVE TypeOK' /\ MoreTypes'
<1>1. PICK t \in TestKinds :
        /\ test' = t /\ restart' = (NeedMasterRestart(t) \/ NeedSlaveRestart(t))
        /\ StopServers([proc EXCEPT ![NewPid] = Child("testcase")], ToStop(t))
  BY DEF BeginTest
<1>2. NewPid \in Pids
  BY APidIsLeft DEF IInv, Stopping, BeginTest, At
<1>3. Child("testcase") \in Process
  BY NewChildren DEF Timers
<1>4. [proc EXCEPT ![NewPid] = Child("testcase")] \in [Pids -> Process]
  BY <1>2, <1>3 DEF IInv, TypeOK
<1>5. ToStop(t) \in SUBSET Servers
  BY ConstantsAssumption DEF ToStop, Servers
<1>6. /\ proc' \in [Pids -> Process] /\ pid' \in [Servers -> Pids \cup {0}]
      /\ killing' \subseteq Pids /\ hard' = {}
  BY <1>1, <1>4, <1>5, StopTypes
<1>7. timer' \in [Timers -> Pids \cup {0}]
  BY <1>2 DEF IInv, TypeOK, BeginTest
<1>8. ran' \in 0 .. MaxTests /\ 0 \in 0 .. NumSlaves + 1
  BY ConstantsAssumption DEF IInv, TypeOK, BeginTest
<1>9. test'.slaves \in 0 .. NumSlaves /\ test'.opts \in Opts
  BY <1>1, ConstantsAssumption DEF Opts
<1>10. restart' \in BOOLEAN
  BY <1>1
<1> QED
  BY <1>6, <1>7, <1>8, <1>9, <1>10
  DEF IInv, TypeOK, MoreTypes, BeginTest, Goto, marks, Points

LEMMA RecordTypes == ASSUME IInv, RecordDeadChildren PROVE TypeOK' /\ MoreTypes'
<1>1. proc' \in [Pids -> Process]
  BY NewChildren DEF IInv, TypeOK, RecordDeadChildren
<1>2. pid' \in [Servers -> Pids \cup {0}]
  BY DEF IInv, TypeOK, RecordDeadChildren, PidsOfTheLiving
<1>3. pc' \in Points /\ i' \in 0 .. NumSlaves + 1
  BY ConstantsAssumption DEF RecordDeadChildren, Goto, Points
<1> QED
  BY <1>1, <1>2, <1>3
  DEF IInv, TypeOK, MoreTypes, RecordDeadChildren, tested, lists, marks

LEMMA StartTypes == ASSUME Roomy, IInv, StartServer PROVE TypeOK' /\ MoreTypes'
<1> DEFINE P == IF i = 1 /\ force THEN Evicted(proc, 1 .. test.slaves) ELSE proc
<1>1. 1 .. test.slaves \in SUBSET Servers /\ proc \in [Pids -> Process]
  BY ConstantsAssumption DEF IInv, MoreTypes, Servers, TypeOK
<1>2. P \in [Pids -> Process]
  BY <1>1, EvictedChildren
<1>3. \/ pid[i] = 0 /\ DrizzledStart(P, i, test.opts)
      \/ pid[i] # 0 /\ proc' = P /\ UNCHANGED <<pid, startOpts, pidfile>>
  BY DEF StartServer
<1> HIDE DEF P
<1>4. i \in Servers /\ i' \in 0 .. NumSlaves + 1 /\ test.opts \in Opts
  BY ConstantsAssumption DEF StartServer, IInv, TypeOK, MoreTypes, Servers
<1>5. killing = {} /\ hard = {}
  BY DEF StartServer, At, IInv, Stopping
<1>6. /\ proc' \in [Pids -> Process] /\ pid' \in [Servers -> Pids \cup {0}]
      /\ startOpts' \in [Servers -> Opts] /\ pidfile' \in [Servers -> BOOLEAN]
  <2>1. CASE pid[i] = 0 /\ DrizzledStart(P, i, test.opts)
    BY <1>2, <1>4, <1>5, <2>1, StartedTypes
  <2>2. CASE pid[i] # 0 /\ proc' = P /\ UNCHANGED <<pid, startOpts, pidfile>>
    BY <1>2, <2>2 DEF IInv, TypeOK
  <2> QED
    BY <1>3, <2>1, <2>2
<1> QED
  BY <1>4, <1>6 DEF IInv, TypeOK, MoreTypes, StartServer, tested, lists, marks

LEMMA AwaitTypes == ASSUME IInv, AllStarted \/ Awaited PROVE TypeOK' /\ MoreTypes'
<1>1. pc' \in Points /\ i' \in 0 .. NumSlaves + 1
  BY ConstantsAssumption DEF IInv, TypeOK, AllStarted, Awaited, Goto, Points, At
<1> QED
  BY <1>1
  DEF IInv, TypeOK, MoreTypes, AllStarted, Awaited, tested, known, lists, marks, world

\* A failure stops all servers and adds a result.
LEMMA FailTypes ==
  ASSUME IInv, NEW P \in [Pids -> Process], Fail(P)
  PROVE  /\ results' = Append(results, "failed") /\ results' \in Seq(Codes) /\ failed' = TRUE
         /\ pc' = "stop" /\ i' = 0 /\ next' = IF force THEN "restore" ELSE "exit"
         /\ StopServers(P, Servers)
<1>1. results' = Append(results, "failed") /\ failed' = TRUE
      /\ StopAllServers(P, IF force THEN "restore" ELSE "exit")
  BY DEF Fail
<1>2. results \in Seq(Codes) /\ "failed" \in Codes
  BY DEF IInv, MoreTypes, Codes
<1>3. Append(results, "failed") \in Seq(Codes)
  BY <1>2
<1> QED
  BY <1>1, <1>3 DEF StopAllServers, Goto

LEMMA StartFailsTypes == ASSUME IInv, StartFails PROVE TypeOK' /\ MoreTypes'
<1> DEFINE P == [p \in Pids |-> IF p = pid[i] /\ p \in Zombies THEN Free ELSE proc[p]]
<1>1. P \in [Pids -> Process]
  BY NewChildren DEF IInv, TypeOK
<1>2. Fail(P)
  BY DEF StartFails
<1> HIDE DEF P
<1>3. /\ results' \in Seq(Codes) /\ failed' = TRUE /\ pc' = "stop" /\ i' = 0
      /\ next' = (IF force THEN "restore" ELSE "exit") /\ StopServers(P, Servers)
  BY <1>1, <1>2, FailTypes
<1>4. /\ proc' \in [Pids -> Process] /\ pid' \in [Servers -> Pids \cup {0}]
      /\ killing' \subseteq Pids /\ hard' = {}
  BY <1>1, <1>3, StopTypes
<1>5. 0 \in 0 .. NumSlaves + 1
  BY ConstantsAssumption
<1> QED
  BY <1>3, <1>4, <1>5 DEF IInv, TypeOK, MoreTypes, StartFails, Points

LEMMA SpawnTypes == ASSUME Roomy, IInv, RunDrizzletest PROVE TypeOK' /\ MoreTypes'
<1>1. NewPid \in Pids
  BY APidIsLeft DEF IInv, Stopping, RunDrizzletest, At
<1>2. Child("test") \in Process
  BY NewChildren
<1>3. proc' \in [Pids -> Process] /\ tester' \in Pids \cup {0}
  BY <1>1, <1>2 DEF IInv, TypeOK, RunDrizzletest
<1>4. 0 \in 0 .. NumSlaves + 1
  BY ConstantsAssumption
<1> QED
  BY <1>3, <1>4
  DEF IInv, TypeOK, MoreTypes, RunDrizzletest, Goto, Points, tested, lists, marks

\* Collecting a child frees its pid and no other.
LEMMA ReapedChildren ==
  ASSUME IInv, NEW z \in Pids
  PROVE  /\ Reaped(z) \in [Pids -> Process] /\ Reaped(z)[z] = Free
         /\ \A p \in Pids : p # z => Reaped(z)[p] = proc[p]
BY NewChildren DEF IInv, TypeOK, Reaped

LEMMA SuiteTypes ==
  ASSUME IInv, NEW z \in Zombies, SuiteTimeout(z) PROVE TypeOK' /\ MoreTypes'
<1>1. z \in Pids
  BY DEF Zombies
<1>2. Reaped(z) \in [Pids -> Process] /\ Exit(Reaped(z), "suite")
  BY <1>1, ReapedChildren DEF SuiteTimeout
<1>3. /\ pc' = "exited" /\ i' = 0 /\ exit' = "suite" /\ timer' = [n \in Timers |-> 0]
      /\ proc' \in [Pids -> Process]
  BY <1>2, ExitTypes
<1>4. 0 \in 0 .. NumSlaves + 1
  BY ConstantsAssumption
<1> QED
  BY <1>3, <1>4 DEF IInv, TypeOK, MoreTypes, SuiteTimeout, tested, lists, Points

\* drizzletest, whose time is over, is killed; the timer is collected.
LEMMA TimeoutChildren ==
  ASSUME IInv, pc = "run", NEW z \in Pids, z = timer["testcase"], Alive(z), TesterKilled
  PROVE  /\ proc' \in [Pids -> Process] /\ tester \in Pids /\ tester # z
         /\ proc'[z] = Free /\ Still(tester) /\ proc'[tester].home = proc[tester].home
         /\ \A p \in Pids : p # z /\ p # tester => proc'[p] = proc[p]
<1>1. tester \in Pids /\ proc[tester].role = "test" /\ proc[tester].phase # "free"
  BY DEF IInv, TypeOK, Stopping, Records, Alive
<1>2. z # 0 /\ "testcase" \in Timers /\ proc[z].role = "testcase"
  BY ConstantsAssumption DEF IInv, Records, Timers
<1>3. tester # z
  BY <1>1, <1>2
<1>4. proc' = [Reaped(z) EXCEPT ![tester].phase = "zombie"]
  BY DEF TesterKilled
<1> DEFINE Q == Reaped(z)
<1>5. /\ Q \in [Pids -> Process] /\ Q[z] = Free /\ \A p \in Pids : p # z => Q[p] = proc[p]
  BY ReapedChildren
<1>6. proc' = [Q EXCEPT ![tester].phase = "zombie"]
  BY <1>4
<1> HIDE DEF Q
<1>7. /\ proc' \in [Pids -> Process] /\ \A p \in Pids : p # tester => proc'[p] = Q[p]
      /\ proc'[tester].phase = "zombie"
      /\ proc'[tester].role = Q[tester].role /\ proc'[tester].of = Q[tester].of
      /\ proc'[tester].opts = Q[tester].opts /\ proc'[tester].since = Q[tester].since
      /\ proc'[tester].home = Q[tester].home
  <2>1. Q[tester] \in Process
    BY <1>1, <1>5
  <2> DEFINE d == [Q[tester] EXCEPT !.phase = "zombie"]
  <2>2. /\ d \in Process /\ d.phase = "zombie" /\ d.role = Q[tester].role
        /\ d.of = Q[tester].of /\ d.opts = Q[tester].opts /\ d.since = Q[tester].since
        /\ d.home = Q[tester].home
    BY <2>1, PhaseTypes
  <2>3. proc' = [Q EXCEPT ![tester] = d]
    BY <1>1, <1>5, <1>6
  <2> HIDE DEF d
  <2> QED
    BY <1>1, <1>5, <2>2, <2>3
<1> QED
  BY <1>1, <1>3, <1>5, <1>7 DEF Still

LEMMA TestcaseTypes ==
  ASSUME IInv, pc = "run", NEW z \in Zombies, TestcaseTimeout(z) PROVE TypeOK' /\ MoreTypes'
<1>1. z \in Pids /\ Alive(z) /\ z = timer["testcase"] /\ TesterKilled
  BY DEF Zombies, Alive, TestcaseTimeout
<1>2. proc' \in [Pids -> Process]
  BY <1>1, TimeoutChildren
<1>3. saved' \in BOOLEAN
  BY DEF TestcaseTimeout
<1> QED
  BY <1>2, <1>3
  DEF IInv, TypeOK, MoreTypes, TestcaseTimeout, loop, known, lists, marks

LEMMA EndedTypes ==
  ASSUME IInv, NEW z \in Zombies, TestEnded(z) PROVE TypeOK' /\ MoreTypes'
<1>1. z \in Pids /\ Reaped(z) \in [Pids -> Process]
  BY ReapedChildren DEF Zombies
<1>2. tester' \in Pids \cup {0} /\ saved' \in BOOLEAN /\ code' \in Codes
  BY DEF TestEnded, Codes
<1>3. 0 \in 0 .. NumSlaves + 1
  BY ConstantsAssumption
<1>4. CASE Fail(Reaped(z))
  <2>1. /\ results' \in Seq(Codes) /\ failed' = TRUE /\ pc' = "stop" /\ i' = 0
        /\ next' = (IF force THEN "restore" ELSE "exit") /\ StopServers(Reaped(z), Servers)
    BY <1>1, <1>4, FailTypes
  <2>2. /\ proc' \in [Pids -> Process] /\ pid' \in [Servers -> Pids \cup {0}]
        /\ killing' \subseteq Pids /\ hard' = {}
    BY <1>1, <2>1, StopTypes
  <2> QED
    BY <1>2, <1>3, <2>1, <2>2 DEF IInv, TypeOK, MoreTypes, TestEnded, Points
<1>5. CASE /\ results' = Append(results, code) /\ proc' = Reaped(z) /\ Goto("done")
           /\ UNCHANGED <<next, pid, lists, failed>>
  <2>1. results' \in Seq(Codes)
    BY <1>5 DEF IInv, MoreTypes
  <2> QED
    BY <1>1, <1>2, <1>3, <1>5, <2>1
    DEF IInv, TypeOK, MoreTypes, TestEnded, Points, Goto, lists
<1> QED
  BY <1>4, <1>5 DEF TestEnded

LEMMA DiedTypes ==
  ASSUME Roomy, IInv, pc = "run", NEW z \in Zombies, NEW s \in Servers, ServerDied(z, s)
  PROVE  TypeOK' /\ MoreTypes'
<1>1. z \in Pids /\ Reaped(z) \in [Pids -> Process]
  BY ReapedChildren DEF Zombies
<1>2. startOpts[s] \in Opts /\ killing = {} /\ hard = {}
  BY DEF IInv, TypeOK, Stopping
<1>3. /\ proc' \in [Pids -> Process] /\ pid' \in [Servers -> Pids \cup {0}]
      /\ startOpts' \in [Servers -> Opts] /\ pidfile' \in [Servers -> BOOLEAN]
      /\ expect' \in [Servers -> BOOLEAN]
  <2>1. CASE DrizzledStart(Reaped(z), s, startOpts[s]) /\ expect' = [expect EXCEPT ![s] = FALSE]
    BY <1>1, <1>2, <2>1, StartedTypes DEF IInv, TypeOK
  <2>2. CASE /\ proc' = Reaped(z) /\ pid' = [pid EXCEPT ![s] = 0]
             /\ UNCHANGED <<startOpts, pidfile, expect>>
    BY <1>1, <2>2 DEF IInv, TypeOK
  <2> QED
    BY <2>1, <2>2 DEF ServerDied
<1> QED
  BY <1>3 DEF IInv, TypeOK, MoreTypes, ServerDied, loop, tested, lists, marks

LEMMA RestoreTypes == ASSUME IInv, RestoreInstalledDb PROVE TypeOK' /\ MoreTypes'
<1>1. proc' \in [Pids -> Process]
  BY EvictedChildren DEF IInv, TypeOK, RestoreInstalledDb
<1>2. 0 \in 0 .. NumSlaves + 1
  BY ConstantsAssumption
<1> QED
  BY <1>1, <1>2
  DEF IInv, TypeOK, MoreTypes, RestoreInstalledDb, Goto, Points, tested, known, lists, marks

LEMMA EndTypes == ASSUME IInv, EndTest PROVE TypeOK' /\ MoreTypes'
<1>1. proc' \in [Pids -> Process]
  BY StoppedTimers DEF IInv, TypeOK, EndTest, Timers
<1>2. timer' \in [Timers -> Pids \cup {0}]
  BY DEF IInv, TypeOK, EndTest
<1>3. 0 \in 0 .. NumSlaves + 1
  BY ConstantsAssumption
<1> QED
  BY <1>1, <1>2, <1>3
  DEF IInv, TypeOK, MoreTypes, EndTest, Goto, Points, tested, lists, marks

LEMMA StopAllTypes ==
  ASSUME IInv, NoMoreTests \/ Interrupt PROVE TypeOK' /\ MoreTypes'
<1>1. PICK then \in {"report", "exit"} : StopAllServers(proc, then)
  BY DEF NoMoreTests, Interrupt
<1>2. StopServers(proc, Servers) /\ pc' = "stop" /\ i' = 0 /\ next' = then
  BY <1>1 DEF StopAllServers, Goto
<1>3. /\ proc' \in [Pids -> Process] /\ pid' \in [Servers -> Pids \cup {0}]
      /\ killing' \subseteq Pids /\ hard' = {}
  BY <1>2, StopTypes DEF IInv, TypeOK
<1>4. 0 \in 0 .. NumSlaves + 1
  BY ConstantsAssumption
<1> QED
  BY <1>2, <1>3, <1>4
  DEF IInv, TypeOK, MoreTypes, NoMoreTests, Interrupt, Points, tested, marks

LEMMA ReportTypes == ASSUME IInv, ReportStats PROVE TypeOK' /\ MoreTypes'
<1>1. PICK how \in {"ok", "error"} : Exit(proc, how)
  BY DEF ReportStats
<1>2. /\ pc' = "exited" /\ i' = 0 /\ exit' = how /\ timer' = [n \in Timers |-> 0]
      /\ proc' \in [Pids -> Process]
  BY <1>1, ExitTypes DEF IInv, TypeOK
<1>3. 0 \in 0 .. NumSlaves + 1
  BY ConstantsAssumption
<1> QED
  BY <1>2, <1>3 DEF IInv, TypeOK, MoreTypes, ReportStats, tested, lists, Points

\* What the children do themselves changes their phase.
LEMMA ChildrenMove ==
  ASSUME IInv, Children
  PROVE  /\ TypeOK' /\ MoreTypes'
         /\ \A p \in Pids : Still(p) /\ proc'[p].home = proc[p].home
         /\ \A p \in Pids : ServerRuns(p)' => ServerRuns(p)
         /\ UNCHANGED <<force, loop, test, ran, restart, results, saved, known, lists, marks,
                        killed>>
<1>1. proc \in [Pids -> Process]
  BY DEF IInv, TypeOK
<1> DEFINE Moves(p, f) == /\ p \in Pids /\ f \in {"up", "zombie"} /\ proc[p].phase # "free"
                          /\ f = "up" => proc[p].phase = "booting"
                          /\ proc' = [proc EXCEPT ![p].phase = f]
<1>2. \/ \E p \in Pids : Moves(p, "up") \/ Moves(p, "zombie")
      \/ proc' = proc
  <2>1. ASSUME NEW p \in Pids, Boot(p) PROVE Moves(p, "up")
    BY <2>1 DEF Boot, Turns
  <2>2. ASSUME NEW p \in Pids, ShutDown(p) \/ Crash(p) \/ TestEnds(p) PROVE Moves(p, "zombie")
    BY <2>2 DEF ShutDown, Turns, Crash, ServerRuns, TestEnds, Ends
  <2>3. ASSUME NEW n \in Timers, Expire(n) PROVE Moves(timer[n], "zombie")
    <3>1. timer[n] \in Pids /\ proc[timer[n]].phase = "running"
      BY <2>3, NewChildren DEF Expire, IInv, TypeOK
    <3> QED
      BY <2>3, <3>1 DEF Expire, Ends
  <2>4. ASSUME NEW s \in Servers, WriteExpect(s) PROVE proc' = proc
    BY <2>4 DEF WriteExpect
  <2>5. ASSUME NEW n \in Timers PROVE timer[n] \in Pids \/ timer[n] = 0
    BY DEF IInv, TypeOK
  <2> HIDE DEF Moves
  <2>6. ASSUME NEW n \in Timers, Expire(n)
        PROVE  \E p \in Pids : Moves(p, "up") \/ Moves(p, "zombie")
    BY <2>3, <2>5, <2>6 DEF Expire
  <2> QED
    BY <2>1, <2>2, <2>4, <2>6 DEF Children
<1>3. /\ proc' \in [Pids -> Process]
      /\ \A p \in Pids : Still(p) /\ proc'[p].home = proc[p].home
      /\ \A p \in Pids : ServerRuns(p)' => ServerRuns(p)
  <2>1. ASSUME NEW p \in Pids, NEW f \in {"up", "zombie"}, Moves(p, f)
        PROVE  /\ proc' \in [Pids -> Process]
               /\ \A q \in Pids : Still(q) /\ proc'[q].home = proc[q].home
               /\ \A q \in Pids : ServerRuns(q)' => ServerRuns(q)
    <3>1. /\ proc' \in [Pids -> Process] /\ \A q \in Pids : q # p => proc'[q] = proc[q]
          /\ proc'[p].phase = f /\ proc'[p].role = proc[p].role /\ proc'[p].of = proc[p].of
          /\ proc'[p].opts = proc[p].opts /\ proc'[p].since = proc[p].since
          /\ proc'[p].home = proc[p].home
      <4>1. proc[p] \in Process
        BY <1>1
      <4> DEFINE d == [proc[p] EXCEPT !.phase = f]
      <4>2. /\ d \in Process /\ d.phase = f /\ d.role = proc[p].role
            /\ d.of = proc[p].of /\ d.opts = proc[p].opts /\ d.since = proc[p].since
            /\ d.home = proc[p].home
        BY <4>1, PhaseTypes
      <4>3. proc' = [proc EXCEPT ![p] = d]
        BY <1>1, <2>1
      <4> HIDE DEF d
      <4> QED
        BY <1>1, <4>2, <4>3
    <3>2. proc[p].phase # "free" /\ f # "free" /\ (f = "up" => proc[p].phase = "booting")
      BY <2>1
    <3> HIDE DEF Moves
    <3>3. \A q \in Pids : Still(q) /\ proc'[q].home = proc[q].home
      BY <3>1, <3>2 DEF Still
    <3>4. ServerRuns(p)' => ServerRuns(p)
      <4>1. f = "up" \/ f = "zombie"
        OBVIOUS
      <4> QED
        BY <3>1, <3>2, <4>1 DEF ServerRuns, IsServer
    <3>5. \A q \in Pids : q # p => (ServerRuns(q)' => ServerRuns(q))
      BY <3>1 DEF ServerRuns, IsServer
    <3> QED
      BY <3>1, <3>3, <3>4, <3>5
  <2>2. CASE proc' = proc
    BY <1>1, <2>2 DEF Still, ServerRuns, IsServer
  <2> QED
    BY <1>2, <2>1, <2>2
<1> HIDE DEF Moves
<1>4. UNCHANGED <<force, loop, test, ran, restart, results, saved, known, lists, marks, killed>>
  BY DEF Children, Boot, ShutDown, Crash, TestEnds, WriteExpect, Expire, Rest, tested
<1>5. pidfile' \in [Servers -> BOOLEAN] /\ expect' \in [Servers -> BOOLEAN] /\ code' \in Codes
  BY DEF Children, Boot, ShutDown, Crash, TestEnds, WriteExpect, Expire, Rest, tested,
         IInv, TypeOK, MoreTypes, Codes
<1> QED
  BY <1>3, <1>4, <1>5 DEF IInv, TypeOK, MoreTypes, loop, known, lists, marks
-----------------------------------------------------------------------------
(* Steps after which every child is what it was.                             *)
LEMMA StillTracked ==
  ASSUME IInv, \A p \in Pids : Still(p), UNCHANGED <<known, lists>>
  PROVE  Records' /\ Family'
<1>1. /\ pid' = pid /\ startOpts' = startOpts /\ timer' = timer /\ tester' = tester
      /\ killing' = killing /\ hard' = hard
  BY DEF known, lists
<1>2. \A p \in Pids : /\ (Alive(p)' <=> Alive(p)) /\ (IsServer(p)' <=> IsServer(p))
                      /\ proc'[p].role = proc[p].role /\ proc'[p].of = proc[p].of
                      /\ proc'[p].opts = proc[p].opts
  BY DEF Still, Alive, IsServer
<1>3. Dying' = Dying /\ Dying \subseteq Pids
  BY <1>1 DEF Dying, IInv, TypeOK
<1>4. /\ \A s \in Servers : pid[s] # 0 => pid[s] \in Pids
      /\ \A n \in Timers : timer[n] # 0 => timer[n] \in Pids
      /\ tester # 0 => tester \in Pids
  BY DEF IInv, TypeOK
<1>5. Records'
  <2>1. \A s \in Servers : pid[s] # 0 => AServer(pid[s], s) /\ proc[pid[s]].opts = startOpts[s]
    BY DEF IInv, Records
  <2>2. (\A s \in Servers :
           pid[s] # 0 => AServer(pid[s], s) /\ proc[pid[s]].opts = startOpts[s])'
    BY <1>1, <1>2, <1>4, <2>1 DEF AServer, Alive, IsServer
  <2>3. (\A p \in Dying : Alive(p) => IsServer(p) /\ pid[proc[p].of] = 0)'
    BY <1>1, <1>2, <1>3 DEF IInv, Records
  <2>4. (\A n \in Timers : timer[n] # 0 /\ Alive(timer[n]) => proc[timer[n]].role = n)'
    BY <1>1, <1>2, <1>4 DEF IInv, Records, Alive
  <2>5. (tester # 0 => Alive(tester) /\ proc[tester].role = "test")'
    BY <1>1, <1>2, <1>4 DEF IInv, Records, Alive
  <2> QED
    BY <2>2, <2>3, <2>4, <2>5 DEF Records
<1>6. Family'
  BY <1>1, <1>2, <1>3 DEF IInv, Family
<1> QED
  BY <1>5, <1>6

LEMMA StillAsked ==
  ASSUME IInv, \A p \in Pids : Still(p), UNCHANGED <<loop, test, ran, restart, known, exit>>
  PROVE  Gone' /\ AsAsked'
<1>1. /\ pid' = pid /\ startOpts' = startOpts /\ test' = test /\ ran' = ran
      /\ restart' = restart /\ pc' = pc /\ i' = i /\ next' = next /\ exit' = exit
  BY DEF known, loop
<1>2. Gone'
  BY <1>1 DEF IInv, Gone, Cleared, Preparing
<1>3. \A s \in Servers : Asks(s) => Asks(s)'
  BY <1>1 DEF Asks, Still, IInv, TypeOK
<1>4. 0 .. test.slaves \subseteq Servers /\ (Preparing' <=> Preparing)
  BY <1>1, ConstantsAssumption DEF IInv, MoreTypes, Servers, Preparing
<1>5. AsAsked'
  BY <1>1, <1>3, <1>4 DEF IInv, AsAsked
<1> QED
  BY <1>2, <1>5

LEMMA ChildrenStep == ASSUME IInv, Children PROVE IInv'
<1>1. /\ TypeOK' /\ MoreTypes'
      /\ \A p \in Pids : Still(p) /\ proc'[p].home = proc[p].home
      /\ \A p \in Pids : ServerRuns(p)' => ServerRuns(p)
      /\ UNCHANGED <<force, loop, test, ran, restart, results, saved, known, lists, marks, killed>>
  BY ChildrenMove
<1>2. Records' /\ Family'
  BY <1>1, StillTracked
<1>3. Gone' /\ AsAsked'
  BY <1>1, StillAsked DEF marks
<1>4. Stopping' /\ Counted' /\ HonestExit'
  BY <1>1 DEF IInv, Stopping, Counted, HonestExit, InTest, Preparing, loop, known, lists, marks
<1>5. DataUnderServers'
  BY <1>1 DEF IInv, DataUnderServers
<1> QED
  BY <1>1, <1>2, <1>3, <1>4, <1>5 DEF IInv

\* The steps that wait for the servers of a test.
LEMMA AwaitStep == ASSUME IInv, AllStarted \/ Awaited PROVE IInv'
<1>1. /\ UNCHANGED <<force, next, tested, known, lists, marks, world>>
      /\ \/ pc = "start" /\ i > test.slaves /\ pc' = "await"
         \/ pc = "await" /\ pc' \in {"await", "spawn"}
  BY DEF AllStarted, Awaited, At, Goto
<1>2. TypeOK' /\ MoreTypes'
  BY AwaitTypes
<1>3. proc' = proc /\ \A p \in Pids : Still(p)
  BY <1>1 DEF world, Still
<1>4. Records' /\ Family'
  BY <1>1, <1>3, StillTracked
<1>5. /\ pid' = pid /\ startOpts' = startOpts /\ test' = test /\ ran' = ran
      /\ restart' = restart /\ next' = next /\ exit' = exit /\ results' = results
      /\ killing' = killing /\ hard' = hard /\ tester' = tester /\ timer' = timer
      /\ failed' = failed /\ found' = found /\ killed' = killed
  BY <1>1 DEF tested, known, lists, marks, world
<1>6. Stopping' /\ Gone' /\ Counted' /\ HonestExit'
  BY <1>1, <1>5
  DEF IInv, Stopping, Gone, Counted, HonestExit, InTest, Preparing, Cleared
<1>7. \A s \in 0 .. test.slaves : Asks(s)
  <2>1. CASE pc = "start" /\ i > test.slaves
    <3>1. \A s \in 0 .. test.slaves : s < i
      BY <2>1, ConstantsAssumption DEF IInv, TypeOK, MoreTypes
    <3> QED
      BY <2>1, <3>1 DEF IInv, AsAsked
  <2>2. CASE pc = "await"
    BY <2>2 DEF IInv, AsAsked
  <2> QED
    BY <1>1, <2>1, <2>2
<1>8. AsAsked'
  BY <1>1, <1>3, <1>5, <1>7 DEF AsAsked, Asks, Preparing
<1>9. DataUnderServers'
  BY <1>3 DEF IInv, DataUnderServers, ServerRuns, IsServer
<1> QED
  BY <1>2, <1>4, <1>6, <1>8, <1>9 DEF IInv
-----------------------------------------------------------------------------
(* All servers are told to stop: the pids move to the list of those to be    *)
(* killed, whatever has been collected in the same step.                     *)
LEMMA StopAllStep ==
  ASSUME IInv, TypeOK', MoreTypes', Counted', pc \notin {"stop", "exited"},
         NEW P \in [Pids -> Process], NEW then \in {"restore", "report", "exit"},
         StopServers(P, Servers), pc' = "stop", next' = then,
         timer' = timer, exit' = exit, tester' \in {0, tester}, then # "exit" => tester' = 0,
         \A p \in Pids : P[p] = proc[p] \/ P[p] = Free,
         \A p \in Pids : p = tester => P[p] = IF tester' = 0 THEN Free ELSE proc[p]
  PROVE  IInv'
<1>1. /\ killing' = {pid[s] : s \in Servers} \ {0} /\ hard' = {}
      /\ \A s \in Servers : pid'[s] = 0
      /\ \A p \in Pids :
           \/ proc'[p] = P[p]
           \/ P[p].phase = "up" /\ proc'[p] = [P[p] EXCEPT !.phase = "stopping"]
  BY StopTypes
<1>2. killing = {} /\ hard = {} /\ Dying = {} /\ Dying' = killing' /\ exit = "none"
  BY <1>1 DEF IInv, Stopping, Dying
<1>3. \A p \in Pids : P[p] \in Process /\ Free.phase = "free"
  BY NewChildren
<1>4. ASSUME NEW p \in Pids, P[p] = proc[p]
      PROVE  /\ Still(p) /\ proc'[p].home = proc[p].home
             /\ ServerRuns(p)' => ServerRuns(p)
  <2>1. CASE proc'[p] = P[p]
    BY <1>4, <2>1 DEF Still, ServerRuns, IsServer
  <2>2. CASE P[p].phase = "up" /\ proc'[p] = [P[p] EXCEPT !.phase = "stopping"]
    <3>1. /\ proc'[p].phase = "stopping" /\ proc'[p].role = P[p].role
          /\ proc'[p].of = P[p].of /\ proc'[p].opts = P[p].opts
          /\ proc'[p].since = P[p].since /\ proc'[p].home = P[p].home
      BY <1>3, <2>2 DEF Process
    <3> QED
      BY <1>4, <2>2, <3>1 DEF Still, ServerRuns, IsServer
  <2> QED
    BY <1>1, <2>1, <2>2
<1>5. ASSUME NEW p \in Pids, P[p] = Free
      PROVE  ~Alive(p)' /\ ~ServerRuns(p)'
  BY <1>1, <1>3, <1>5 DEF Alive, ServerRuns
<1>6. \A p \in Pids : Alive(p)' =>
        /\ P[p] = proc[p] /\ Alive(p) /\ (IsServer(p)' <=> IsServer(p))
        /\ proc'[p].role = proc[p].role /\ proc'[p].of = proc[p].of
  BY <1>4, <1>5 DEF Still, Alive, IsServer
<1>7. Records'
  <2>1. (\A s \in Servers :
           pid[s] # 0 => AServer(pid[s], s) /\ proc[pid[s]].opts = startOpts[s])'
    BY <1>1
  <2>2. (\A p \in Dying : Alive(p) => IsServer(p) /\ pid[proc[p].of] = 0)'
    <3>1. ASSUME NEW p \in killing', Alive(p)' PROVE IsServer(p)' /\ pid'[proc'[p].of] = 0
      <4>1. PICK s \in Servers : p = pid[s] /\ p # 0
        BY <1>1, <3>1
      <4>2. p \in Pids /\ IsServer(p) /\ proc[p].of = s
        BY <4>1 DEF IInv, TypeOK, Records, AServer
      <4> QED
        BY <1>1, <1>6, <3>1, <4>2
    <3> QED
      BY <1>2, <3>1
  <2>3. (\A n \in Timers : timer[n] # 0 /\ Alive(timer[n]) => proc[timer[n]].role = n)'
    <3>1. ASSUME NEW n \in Timers, timer[n] # 0, Alive(timer[n])'
          PROVE  proc'[timer[n]].role = n
      <4>1. timer[n] \in Pids
        BY <3>1 DEF IInv, TypeOK
      <4>2. Alive(timer[n]) /\ proc'[timer[n]].role = proc[timer[n]].role
        BY <1>6, <3>1, <4>1 DEF Alive
      <4> QED
        BY <3>1, <4>2 DEF IInv, Records
    <3> QED
      BY <3>1 DEF Alive
  <2>4. (tester # 0 => Alive(tester) /\ proc[tester].role = "test")'
    <3> SUFFICES ASSUME tester' # 0, tester' = tester
                 PROVE  proc'[tester].phase # "free" /\ proc'[tester].role = "test"
      BY DEF Alive
    <3>1. tester \in Pids /\ Alive(tester) /\ proc[tester].role = "test"
      BY DEF IInv, TypeOK, Records
    <3> QED
      BY <1>4, <3>1 DEF Still, Alive
  <2> QED
    BY <2>1, <2>2, <2>3, <2>4 DEF Records
<1>8. Family'
  <2>1. ASSUME NEW p \in Pids, Alive(p)'
        PROVE  \/ IsServer(p)' /\ p \in Dying'
               \/ proc'[p].role = "test" /\ tester' = p
               \/ proc'[p].role \in Timers /\ timer'[proc'[p].role] = p
    <3>1. \/ IsServer(p) /\ pid[proc[p].of] = p
          \/ proc[p].role = "test" /\ tester = p
          \/ proc[p].role \in Timers /\ timer[proc[p].role] = p
      BY <1>2, <1>6, <2>1 DEF IInv, Family
    <3>2. CASE IsServer(p) /\ pid[proc[p].of] = p
      <4>1. proc[p].of \in Servers /\ p # 0
        BY ConstantsAssumption DEF IInv, TypeOK, Process
      <4> QED
        BY <1>1, <1>2, <1>6, <2>1, <3>2, <4>1
    <3>3. CASE proc[p].role = "test" /\ tester = p
      BY <1>5, <1>6, <2>1, <3>3
    <3>4. CASE proc[p].role \in Timers /\ timer[proc[p].role] = p
      BY <1>6, <2>1, <3>4
    <3> QED
      BY <3>1, <3>2, <3>3, <3>4
  <2>2. (\A p, q \in Pids : Alive(p) /\ Alive(q) /\ IsServer(p) /\ IsServer(q)
                            /\ proc[p].of = proc[q].of => p = q)'
    BY <1>6 DEF IInv, Family
  <2> QED
    BY <2>1, <2>2 DEF Family
<1>9. Stopping' /\ Gone' /\ AsAsked' /\ HonestExit'
  BY <1>1, <1>2 DEF IInv, Stopping, Gone, AsAsked, HonestExit, Cleared, Preparing
<1>10. DataUnderServers'
  BY <1>4, <1>5 DEF IInv, DataUnderServers
<1> QED
  BY <1>7, <1>8, <1>9, <1>10 DEF IInv

LEMMA StopAllSteps ==
  ASSUME IInv, NoMoreTests \/ Interrupt, pc # "stop" PROVE IInv'
<1>1. TypeOK' /\ MoreTypes'
  BY StopAllTypes
<1>2. PICK then \in {"report", "exit"} :
        /\ StopAllServers(proc, then)
        /\ then = "report" => pc = "next" /\ ran = MaxTests
        /\ pc \notin {"stop", "exited"}
  BY ConstantsAssumption DEF NoMoreTests, Interrupt, At
<1>3. StopServers(proc, Servers) /\ pc' = "stop" /\ next' = then
  BY <1>2 DEF StopAllServers, Goto
<1>4. /\ timer' = timer /\ exit' = exit /\ tester' = tester /\ results' = results /\ ran' = ran
      /\ failed' = failed /\ found' = found /\ killed' = killed
  BY DEF NoMoreTests, Interrupt, tested, marks
<1>5. then # "exit" => tester' = 0
  BY <1>2, <1>4 DEF IInv, Stopping
<1>6. Counted'
  BY <1>2, <1>3, <1>4 DEF IInv, Counted, InTest, Preparing
<1>7. proc \in [Pids -> Process] /\ then \in {"restore", "report", "exit"}
  BY DEF IInv, TypeOK
<1>8. \A p \in Pids : p = tester => proc[p] = IF tester' = 0 THEN Free ELSE proc[p]
  BY <1>4, ConstantsAssumption
<1> QED
  BY <1>1, <1>2, <1>3, <1>4, <1>5, <1>6, <1>7, <1>8, StopAllStep

\* A result is added: the rest of what is counted follows.
LEMMA FailStep ==
  ASSUME IInv, TypeOK', MoreTypes', pc \notin {"stop", "exited"},
         InTest, NEW P \in [Pids -> Process], Fail(P),
         ran' = ran, timer' = timer, exit' = exit, found' = found, killed' = killed, tester' = 0,
         \A p \in Pids : P[p] = proc[p] \/ P[p] = Free,
         \A p \in Pids : p = tester => P[p] = Free
  PROVE  IInv'
<1>1. /\ results' = Append(results, "failed") /\ failed' = TRUE
      /\ pc' = "stop" /\ next' = (IF force THEN "restore" ELSE "exit")
      /\ StopServers(P, Servers)
  BY FailTypes
<1>2. next' \in {"restore", "report", "exit"}
  BY <1>1
<1>3. Len(results') = Len(results) + 1 /\ Len(results) = ran - 1
  BY <1>1 DEF IInv, MoreTypes, Counted
<1>4. ran \in Nat
  BY ConstantsAssumption DEF IInv, TypeOK
<1>5. Counted'
  BY <1>1, <1>2, <1>3, <1>4 DEF IInv, Counted, InTest, Preparing
<1> QED
  BY <1>1, <1>2, <1>5, StopAllStep

LEMMA StartFailsStep == ASSUME IInv, StartFails PROVE IInv'
<1> DEFINE P == [p \in Pids |-> IF p = pid[i] /\ p \in Zombies THEN Free ELSE proc[p]]
<1>1. P \in [Pids -> Process] /\ \A p \in Pids : P[p] = proc[p] \/ P[p] = Free
  BY NewChildren DEF IInv, TypeOK
<1>2. Fail(P)
  BY DEF StartFails
<1> HIDE DEF P
<1>3. TypeOK' /\ MoreTypes'
  BY StartFailsTypes
<1>4. /\ pc = "await" /\ ran' = ran /\ timer' = timer /\ exit' = exit /\ found' = found
      /\ killed' = killed /\ tester' = tester /\ tester = 0
  BY DEF StartFails, At, IInv, Stopping
<1>5. InTest /\ \A p \in Pids : p = tester => P[p] = Free
  BY <1>4, ConstantsAssumption DEF InTest
<1> QED
  BY <1>1, <1>2, <1>3, <1>4, <1>5, FailStep

LEMMA EndedStep ==
  ASSUME IInv, pc = "run", NEW z \in Zombies, TestEnded(z) PROVE IInv'
<1>1. TypeOK' /\ MoreTypes'
  BY EndedTypes
<1>2. /\ z \in Pids /\ Reaped(z) \in [Pids -> Process] /\ Reaped(z)[z] = Free
      /\ \A p \in Pids : p # z => Reaped(z)[p] = proc[p]
  BY ReapedChildren DEF Zombies
<1>3. /\ z = tester /\ tester' = 0 /\ ran' = ran /\ timer' = timer /\ exit' = exit
      /\ found' = found /\ killed' = killed /\ startOpts' = startOpts
      /\ test' = test /\ restart' = restart
  BY DEF TestEnded
<1>4. CASE Fail(Reaped(z))
  BY <1>1, <1>2, <1>3, <1>4, FailStep DEF InTest
<1>5. CASE /\ ~saved /\ code # "failed" /\ results' = Append(results, code)
           /\ proc' = Reaped(z) /\ Goto("done") /\ UNCHANGED <<next, pid, lists, failed>>
  <2>1. /\ pc' = "done" /\ pid' = pid /\ killing' = killing /\ hard' = hard
        /\ failed' = failed /\ killing = {} /\ hard = {}
    BY <1>5 DEF Goto, lists, IInv, Stopping
  <2>2. Free.phase = "free" /\ proc[z].role = "test" /\ z # 0 /\ z # pid[0]
    BY <1>2, <1>3, NewChildren, ConstantsAssumption
    DEF IInv, Records, AServer, IsServer, Servers
  <2>3. \A p \in Pids : Alive(p)' => p # z /\ proc'[p] = proc[p]
    BY <1>2, <1>5, <2>2 DEF Alive
  <2>4. \A s \in Servers : pid[s] # 0 => pid[s] # z /\ pid[s] \in Pids
    BY <2>2 DEF IInv, Records, AServer, IsServer, TypeOK
  <2>5. Records'
    <3>1. (\A s \in Servers :
             pid[s] # 0 => AServer(pid[s], s) /\ proc[pid[s]].opts = startOpts[s])'
      BY <1>2, <1>3, <1>5, <2>1, <2>4 DEF IInv, Records, AServer, Alive, IsServer
    <3>2. (\A n \in Timers : timer[n] # 0 /\ Alive(timer[n]) => proc[timer[n]].role = n)'
      BY <1>3, <2>3 DEF IInv, Records, Alive, TypeOK
    <3> QED
      BY <1>3, <2>1, <3>1, <3>2 DEF Records, Dying
  <2>6. Family'
    BY <1>3, <2>1, <2>3 DEF IInv, Family, Alive, IsServer, Dying
  <2>7. Len(results') = Len(results) + 1 /\ Len(results) = ran - 1 /\ ran \in Nat
    BY <1>5, ConstantsAssumption
    DEF IInv, MoreTypes, Counted, InTest, TypeOK
  <2>8. \A k \in DOMAIN results' : \/ results'[k] = code
                                   \/ k \in DOMAIN results /\ results'[k] = results[k]
    <3>1. results \in Seq(Codes) /\ code \in Codes /\ results' = Append(results, code)
      BY <1>5 DEF IInv, MoreTypes
    <3>2. /\ DOMAIN results = 1 .. Len(results) /\ DOMAIN results' = 1 .. Len(results) + 1
          /\ Len(results) \in Nat
      BY <3>1
    <3>3. /\ \A k \in 1 .. Len(results) : results'[k] = results[k]
          /\ results'[Len(results) + 1] = code
      BY <3>1
    <3> QED
      BY <3>2, <3>3
  <2>9. Counted'
    BY <1>3, <1>5, <2>1, <2>7, <2>8 DEF IInv, Counted, InTest, Preparing
  <2>10. Stopping' /\ Gone' /\ AsAsked' /\ HonestExit'
    BY <1>3, <2>1 DEF IInv, Stopping, Gone, AsAsked, HonestExit, Cleared, Preparing
  <2>11. DataUnderServers'
    BY <2>3 DEF IInv, DataUnderServers, ServerRuns, IsServer, Alive
  <2> QED
    BY <1>1, <2>5, <2>6, <2>9, <2>10, <2>11 DEF IInv
<1> QED
  BY <1>4, <1>5 DEF TestEnded
-----------------------------------------------------------------------------
(* While servers are being stopped only they are collected or killed.        *)
LEMMA FreedStep ==
  ASSUME IInv, TypeOK', MoreTypes', pc = "stop", killed' => found', Dying' \subseteq Dying,
         \A p \in Pids : proc'[p] = proc[p] \/ (p \in Dying /\ proc'[p] = Free),
         \A p \in Dying \ Dying' : proc'[p] = Free,
         UNCHANGED <<loop, tested, known, failed, exit>>
  PROVE  IInv'
<1>1. /\ pid' = pid /\ startOpts' = startOpts /\ timer' = timer /\ tester' = tester
      /\ pc' = pc /\ i' = i /\ next' = next /\ test' = test /\ ran' = ran /\ restart' = restart
      /\ results' = results /\ exit' = exit /\ failed' = failed
  BY DEF known, loop, tested
<1>2. Free.phase = "free"
  BY NewChildren
<1>3. \A p \in Pids : Alive(p)' => Alive(p) /\ proc'[p] = proc[p]
  BY <1>2 DEF Alive
<1>4. \A s \in Servers : pid[s] # 0 => pid[s] \in Pids /\ pid[s] \notin Dying
  BY DEF IInv, Records, AServer, TypeOK
<1>5. tester # 0 => tester \in Pids /\ tester \notin Dying
  BY DEF IInv, Records, IsServer, TypeOK
<1>6. Records'
  <2>1. (\A s \in Servers :
           pid[s] # 0 => AServer(pid[s], s) /\ proc[pid[s]].opts = startOpts[s])'
    BY <1>1, <1>4 DEF IInv, Records, AServer, Alive, IsServer
  <2>2. (\A p \in Dying : Alive(p) => IsServer(p) /\ pid[proc[p].of] = 0)'
    <3>1. Dying \subseteq Pids
      BY DEF IInv, TypeOK, Dying
    <3> QED
      BY <1>1, <1>3, <3>1 DEF IInv, Records, IsServer
  <2>3. (\A n \in Timers : timer[n] # 0 /\ Alive(timer[n]) => proc[timer[n]].role = n)'
    BY <1>1, <1>3 DEF IInv, Records, Alive, TypeOK
  <2>4. (tester # 0 => Alive(tester) /\ proc[tester].role = "test")'
    BY <1>1, <1>5 DEF IInv, Records, Alive
  <2> QED
    BY <2>1, <2>2, <2>3, <2>4 DEF Records
<1>7. Family'
  <2>1. \A p \in Pids : Alive(p)' /\ p \in Dying => p \in Dying'
    BY <1>2 DEF Alive
  <2> QED
    BY <1>1, <1>3, <2>1 DEF IInv, Family, IsServer
<1>8. Stopping' /\ Counted' /\ HonestExit'
  BY <1>1 DEF IInv, Stopping, Counted, HonestExit, InTest, Preparing
<1>9. Gone' /\ AsAsked'
  BY <1>1 DEF IInv, Gone, AsAsked, Cleared, Preparing
<1>10. DataUnderServers'
  BY <1>3 DEF IInv, DataUnderServers, ServerRuns, IsServer, Alive
<1> QED
  BY <1>6, <1>7, <1>8, <1>9, <1>10 DEF IInv

LEMMA CollectStep == ASSUME IInv, NEW p \in Pids, CollectExit(p) PROVE IInv'
<1>1. TypeOK' /\ MoreTypes'
  BY CollectTypes
<1>2. /\ pc = "stop" /\ p \in killing /\ killing' = killing \ {p}
      /\ UNCHANGED <<loop, tested, known, failed, exit>> /\ found' = found /\ killed' = killed
      /\ \/ hard' = hard /\ proc' = [proc EXCEPT ![p] = Free]
         \/ hard' = hard \cup {p} /\ proc' = proc
  BY DEF CollectExit, At, marks
<1>3. /\ Dying' \subseteq Dying
      /\ \A q \in Pids : proc'[q] = proc[q] \/ (q \in Dying /\ proc'[q] = Free)
      /\ \A q \in Dying \ Dying' : proc'[q] = Free
  BY <1>2 DEF Dying, IInv, TypeOK
<1>4. killed' => found'
  BY <1>2 DEF IInv, Counted
<1> QED
  BY <1>1, <1>2, <1>3, <1>4, FreedStep

LEMMA KillStep == ASSUME IInv, KillHard PROVE IInv'
<1>1. TypeOK' /\ MoreTypes'
  BY KillTypes
<1>2. /\ pc = "stop" /\ killing = {} /\ killing' = {} /\ hard' = {} /\ found' = TRUE
      /\ UNCHANGED <<loop, tested, known, failed, exit>>
      /\ proc' = [q \in Pids |-> IF q \in hard THEN Free ELSE proc[q]]
  BY DEF KillHard, At, Flagged
<1>3. /\ Dying' \subseteq Dying
      /\ \A q \in Pids : proc'[q] = proc[q] \/ (q \in Dying /\ proc'[q] = Free)
      /\ \A q \in Dying \ Dying' : proc'[q] = Free
  BY <1>2 DEF Dying, IInv, TypeOK
<1> QED
  BY <1>1, <1>2, <1>3, FreedStep
-----------------------------------------------------------------------------
(* The end of the run.                                                       *)
LEMMA ExitStep ==
  ASSUME IInv, TypeOK', MoreTypes', NEW P \in [Pids -> Process],
         NEW how \in {"ok", "error", "suite"}, Exit(P, how), killing = {}, hard = {},
         UNCHANGED <<tested, pid, startOpts, tester, lists, found, failed, killed>>,
         \A p \in Pids : \/ P[p] = proc[p]
                         \/ P[p] = Free /\ proc[p].role \in Timers,
         how # "suite" => \A s \in Servers : pid[s] = 0,
         how = "ok" => /\ ~killed /\ Len(results) = MaxTests
                       /\ \A k \in DOMAIN results : results[k] # "failed"
  PROVE  IInv'
<1>1. /\ pc' = "exited" /\ exit' = how /\ timer' = [n \in Timers |-> 0]
      /\ \A p \in Pids : \/ proc'[p] = P[p]
                         \/ \E n \in Timers : p = timer[n] /\ P[p].role = n /\ proc'[p] = Free
      /\ \A n \in Timers, p \in Pids : p = timer[n] /\ P[p].role = n => proc'[p] = Free
  BY ExitTypes
<1>2. /\ pid' = pid /\ startOpts' = startOpts /\ tester' = tester /\ results' = results
      /\ killing' = {} /\ hard' = {} /\ Dying = {} /\ Dying' = {} /\ ran' = ran
      /\ test' = test /\ restart' = restart
      /\ failed' = failed /\ found' = found /\ killed' = killed
  BY DEF tested, lists, Dying
<1>3. Free.phase = "free" /\ "server" \notin Timers /\ "test" \notin Timers
  BY NewChildren DEF Timers
<1>4. \A p \in Pids : Alive(p)' => /\ Alive(p) /\ P[p] = proc[p] /\ proc'[p] = proc[p]
                                   /\ ~(proc[p].role \in Timers /\ timer[proc[p].role] = p)
  BY <1>1, <1>3 DEF Alive
<1>5. \A p \in Pids : proc[p].role \in {"server", "test"} => proc'[p] = proc[p] \/ P[p] = Free
  BY <1>1, <1>3
<1>6. \A p \in Pids : proc[p].role \in {"server", "test"} => proc'[p] = proc[p]
  BY <1>1, <1>3, <1>5
<1>7. Records'
  <2>1. (\A s \in Servers :
           pid[s] # 0 => AServer(pid[s], s) /\ proc[pid[s]].opts = startOpts[s])'
    BY <1>2, <1>6 DEF IInv, Records, AServer, Alive, IsServer, TypeOK
  <2>2. (tester # 0 => Alive(tester) /\ proc[tester].role = "test")'
    BY <1>2, <1>6 DEF IInv, Records, Alive, TypeOK
  <2> QED
    BY <1>1, <1>2, <2>1, <2>2 DEF Records
<1>8. Family'
  BY <1>2, <1>4 DEF IInv, Family, IsServer
<1>9. Stopping' /\ Gone' /\ AsAsked' /\ HonestExit'
  BY <1>1, <1>2 DEF Stopping, Gone, AsAsked, HonestExit, Cleared, Preparing
<1>10. Counted'
  BY <1>1, <1>2 DEF IInv, Counted, InTest, Preparing
<1>11. DataUnderServers'
  BY <1>4 DEF IInv, DataUnderServers, ServerRuns, IsServer, Alive
<1> QED
  BY <1>7, <1>8, <1>9, <1>10, <1>11 DEF IInv

LEMMA SuiteStep ==
  ASSUME IInv, pc = "run", NEW z \in Zombies, SuiteTimeout(z) PROVE IInv'
<1>1. TypeOK' /\ MoreTypes'
  BY SuiteTypes
<1>2. /\ z \in Pids /\ Reaped(z) \in [Pids -> Process] /\ Reaped(z)[z] = Free
      /\ \A p \in Pids : p # z => Reaped(z)[p] = proc[p]
  BY ReapedChildren DEF Zombies
<1>3. z = timer["suite"] /\ Exit(Reaped(z), "suite") /\ killing = {} /\ hard = {}
      /\ UNCHANGED <<tested, pid, startOpts, tester, lists, found, failed, killed>>
  BY DEF SuiteTimeout, IInv, Stopping
<1>4. proc[z].role \in Timers
  <2>1. z # 0 /\ Alive(z) /\ "suite" \in Timers
    BY <1>2, ConstantsAssumption DEF Zombies, Alive, Timers
  <2> QED
    BY <1>3, <2>1 DEF IInv, Records
<1> QED
  BY <1>1, <1>2, <1>3, <1>4, ExitStep

LEMMA ReportStep == ASSUME IInv, ReportStats PROVE IInv'
<1>1. TypeOK' /\ MoreTypes'
  BY ReportTypes
<1>2. /\ pc = "report" /\ killing = {} /\ hard = {}
      /\ Exit(proc, IF failed \/ found THEN "error" ELSE "ok")
      /\ UNCHANGED <<tested, pid, startOpts, tester, lists, found, failed, killed>>
  BY DEF ReportStats, At, IInv, Stopping
<1>3. \A s \in Servers : pid[s] = 0
  BY <1>2 DEF IInv, Gone, Cleared
<1>4. ~failed /\ ~found => /\ ~killed /\ Len(results) = MaxTests
                           /\ \A k \in DOMAIN results : results[k] # "failed"
  BY <1>2 DEF IInv, Counted, InTest, Preparing
<1>5. proc \in [Pids -> Process]
  BY DEF IInv, TypeOK
<1>6. CASE failed \/ found
  BY <1>1, <1>2, <1>3, <1>5, <1>6, ExitStep
<1>7. CASE ~failed /\ ~found
  BY <1>1, <1>2, <1>3, <1>4, <1>5, <1>7, ExitStep
<1> QED
  BY <1>6, <1>7

LEMMA StoppedStep == ASSUME IInv, Stopped PROVE IInv'
<1>1. TypeOK' /\ MoreTypes'
  BY StoppedTypes
<1>2. /\ pc = "stop" /\ killing = {} /\ hard = {} /\ next' = next
      /\ UNCHANGED <<tested, pid, startOpts, tester, lists, found, failed, killed>>
      /\ \/ next = "exit" /\ Exit(proc, "error")
         \/ next # "exit" /\ Goto(next) /\ UNCHANGED <<exit, proc, timer>>
  BY DEF Stopped, At
<1>3. CASE next = "exit" /\ Exit(proc, "error")
  <2>1. \A s \in Servers : pid[s] = 0
    BY <1>2, <1>3 DEF IInv, Gone, Cleared
  <2>2. proc \in [Pids -> Process]
    BY DEF IInv, TypeOK
  <2> QED
    BY <1>1, <1>2, <1>3, <2>1, <2>2, ExitStep
<1>4. CASE next # "exit" /\ Goto(next) /\ UNCHANGED <<exit, proc, timer>>
  <2>1. /\ pc' = next /\ i' = 0 /\ next \in {"reap", "restore", "report"}
        /\ pid' = pid /\ startOpts' = startOpts /\ timer' = timer /\ tester' = tester
        /\ killing' = {} /\ hard' = {} /\ exit' = exit /\ proc' = proc
        /\ test' = test /\ ran' = ran /\ restart' = restart /\ results' = results
        /\ failed' = failed /\ found' = found /\ killed' = killed
    BY <1>2, <1>4 DEF Goto, tested, lists, IInv, Stopping
  <2>2. \A p \in Pids : Still(p)
    BY <2>1 DEF Still
  <2>3. Records' /\ Family'
    BY <1>2, <2>1, <2>2, StillTracked DEF known, lists
  <2>4. Stopping' /\ HonestExit'
    BY <1>2, <2>1 DEF IInv, Stopping, HonestExit
  <2>5. Gone' /\ AsAsked'
    BY <1>2, <2>1 DEF IInv, Gone, AsAsked, Cleared, Preparing
  <2>6. Counted'
    BY <1>2, <2>1 DEF IInv, Counted, InTest, Preparing
  <2>7. DataUnderServers'
    BY <2>1 DEF IInv, DataUnderServers, ServerRuns, IsServer
  <2> QED
    BY <1>1, <2>3, <2>4, <2>5, <2>6, <2>7 DEF IInv
<1> QED
  BY <1>2, <1>3, <1>4
-----------------------------------------------------------------------------
(* Starting and collecting children.                                         *)

\* A server is started; the one it replaces, if any, has been collected.
LEMMA StartedTracked ==
  ASSUME Roomy, IInv, killing = {}, hard = {}, NEW P \in [Pids -> Process], NEW s \in Servers,
         NEW o \in Opts, DrizzledStart(P, s, o), UNCHANGED <<timer, tester, lists>>,
         \A p \in Pids : P[p] = IF p = pid[s] THEN Free ELSE proc[p]
  PROVE  /\ Records' /\ Family' /\ DataUnderServers'
         /\ \A u \in Servers : u # s /\ pid[u] # 0 => proc'[pid[u]] = proc[pid[u]]
<1>1. /\ NewPid \in Pids /\ pid'[s] = NewPid /\ startOpts'[s] = o
      /\ proc'[NewPid].role = "server" /\ proc'[NewPid].phase = "booting"
      /\ proc'[NewPid].of = s /\ proc'[NewPid].opts = o /\ proc'[NewPid].home
      /\ \A p \in Pids : p # NewPid => proc'[p] = P[p]
      /\ \A u \in Servers : u # s => pid'[u] = pid[u] /\ startOpts'[u] = startOpts[u]
  BY StartedTypes
<1>2. /\ NewPid # 0 /\ NewPid # tester /\ \A u \in Servers : pid[u] # NewPid
      /\ \A n \in Timers : timer[n] # NewPid
  BY APidIsLeft DEF IInv
<1>3. timer' = timer /\ tester' = tester /\ Dying' = {} /\ Dying = {}
  BY DEF lists, Dying
<1>4. Free.phase = "free"
  BY NewChildren
<1>5. \A p \in Pids : p # NewPid /\ Alive(p)' => p # pid[s] /\ Alive(p) /\ proc'[p] = proc[p]
  BY <1>1, <1>4 DEF Alive
<1>6. \A u \in Servers : u # s /\ pid[u] # 0 =>
        /\ pid[u] \in Pids /\ pid[u] # NewPid /\ pid[u] # pid[s] /\ proc'[pid[u]] = proc[pid[u]]
  BY <1>1, <1>2 DEF IInv, TypeOK, Records, AServer
<1>7. Records'
  <2>1. (\A u \in Servers :
           pid[u] # 0 => AServer(pid[u], u) /\ proc[pid[u]].opts = startOpts[u])'
    BY <1>1, <1>6 DEF IInv, Records, AServer, Alive, IsServer
  <2>2. (\A n \in Timers : timer[n] # 0 /\ Alive(timer[n]) => proc[timer[n]].role = n)'
    BY <1>2, <1>3, <1>5 DEF IInv, Records, Alive, TypeOK
  <2>3. (tester # 0 => Alive(tester) /\ proc[tester].role = "test")'
    <3> SUFFICES ASSUME tester # 0
                 PROVE  proc'[tester].phase # "free" /\ proc'[tester].role = "test"
      BY <1>3 DEF Alive
    <3>1. tester \in Pids /\ Alive(tester) /\ proc[tester].role = "test"
      BY DEF IInv, TypeOK, Records
    <3>2. tester # pid[s]
      BY <3>1, ConstantsAssumption DEF IInv, Records, AServer, IsServer
    <3> QED
      BY <1>1, <1>2, <3>1, <3>2 DEF Alive
  <2> QED
    BY <1>3, <2>1, <2>2, <2>3 DEF Records
<1>8. \A p \in Pids : p # NewPid /\ Alive(p)' /\ IsServer(p)' =>
        proc[p].of # s /\ proc'[p].of = proc[p].of /\ pid'[proc[p].of] = p
  <2>1. "server" # "test" /\ "server" \notin Timers
    BY DEF Timers
  <2>2. \A p \in Pids : Alive(p) /\ IsServer(p) => pid[proc[p].of] = p
    BY <1>3, <2>1 DEF IInv, Family, IsServer
  <2>3. \A p \in Pids : proc[p].of \in Servers
    BY DEF IInv, TypeOK, Process
  <2> QED
    BY <1>1, <1>5, <2>2, <2>3 DEF IsServer
<1>9. Family'
  <2>1. ASSUME NEW p \in Pids, Alive(p)'
        PROVE  \/ IsServer(p)' /\ pid'[proc'[p].of] = p
               \/ proc'[p].role = "test" /\ tester' = p
               \/ proc'[p].role \in Timers /\ timer'[proc'[p].role] = p
    BY <1>1, <1>3, <1>5, <1>8, <2>1 DEF IInv, Family, IsServer
  <2>2. (\A p, q \in Pids : Alive(p) /\ Alive(q) /\ IsServer(p) /\ IsServer(q)
                            /\ proc[p].of = proc[q].of => p = q)'
    BY <1>1, <1>5, <1>8 DEF IInv, Family, IsServer
  <2> QED
    BY <2>1, <2>2 DEF Family
<1>10. DataUnderServers'
  BY <1>1, <1>5 DEF IInv, DataUnderServers, ServerRuns, IsServer, Alive
<1> QED
  BY <1>6, <1>7, <1>9, <1>10

\* No server runs on a directory that is made anew.
LEMMA NothingEvicted ==
  ASSUME IInv, killing = {}, hard = {}, NEW S \in SUBSET Servers,
         \A s \in S : pid[s] = 0
  PROVE  Evicted(proc, S) = proc
<1>1. \A p \in Pids : ~(ServerRuns(p) /\ proc[p].of \in S)
  <2> SUFFICES ASSUME NEW p \in Pids, ServerRuns(p), proc[p].of \in S PROVE FALSE
    OBVIOUS
  <2>1. Alive(p) /\ IsServer(p) /\ p # 0
    BY ConstantsAssumption DEF ServerRuns, Alive
  <2>2. "server" # "test" /\ "server" \notin Timers
    BY DEF Timers
  <2> QED
    BY <2>1, <2>2 DEF IInv, Family, Dying, IsServer
<1>2. proc \in [Pids -> Process]
  BY DEF IInv, TypeOK
<1> QED
  BY <1>1, <1>2 DEF Evicted

LEMMA StartStep == ASSUME Roomy, IInv, StartServer PROVE IInv'
<1>1. TypeOK' /\ MoreTypes'
  BY StartTypes
<1> DEFINE P == IF i = 1 /\ force THEN Evicted(proc, 1 .. test.slaves) ELSE proc
<1>2. /\ pc = "start" /\ i <= test.slaves /\ i' = i + 1 /\ killing = {} /\ hard = {}
      /\ UNCHANGED <<force, pc, next, tested, timer, tester, lists, marks, expect, killed>>
      /\ \/ pid[i] = 0 /\ DrizzledStart(P, i, test.opts)
         \/ pid[i] # 0 /\ proc' = P /\ UNCHANGED <<pid, startOpts, pidfile>>
  BY DEF StartServer, At, IInv, Stopping
<1>3. /\ i \in Servers /\ test.opts \in Opts /\ NumSlaves \in Nat /\ i \in Nat
      /\ test.slaves \in 0 .. NumSlaves
  BY <1>2, ConstantsAssumption DEF IInv, TypeOK, MoreTypes, Servers
<1>4. P = proc
  <2>1. CASE i = 1 /\ force
    <3>1. 1 .. test.slaves \in SUBSET Servers /\ \A s \in 1 .. test.slaves : pid[s] = 0
      BY <1>2, <1>3, <2>1 DEF IInv, Gone, Servers
    <3> QED
      BY <1>2, <2>1, <3>1, NothingEvicted
  <2> QED
    BY <2>1
<1> HIDE DEF P
<1>5. /\ pc' = pc /\ next' = next /\ test' = test /\ ran' = ran /\ restart' = restart
      /\ timer' = timer /\ tester' = tester /\ results' = results /\ exit' = exit
      /\ killing' = {} /\ hard' = {} /\ failed' = failed /\ found' = found /\ killed' = killed
  BY <1>2 DEF tested, lists, marks
<1>6. Stopping' /\ Counted' /\ HonestExit'
  BY <1>2, <1>5 DEF IInv, Stopping, Counted, HonestExit, InTest, Preparing
<1>7. i > 0 => pid[i] = 0
  BY <1>2, <1>3 DEF IInv, Gone
<1>8. \A s \in Servers : s < i /\ s <= test.slaves => Asks(s)
  BY <1>2, <1>3 DEF IInv, AsAsked, Servers
<1>9. pid[0] # 0 => startOpts[0] = test.opts
  BY <1>2 DEF IInv, AsAsked
<1>10. 0 \in Servers /\ \A s \in 0 .. test.slaves : s \in Servers /\ s \in Nat
  BY <1>3 DEF Servers
<1>11. CASE pid[i] = 0 /\ DrizzledStart(P, i, test.opts)
  <2>1. \A p \in Pids : P[p] = IF p = pid[i] THEN Free ELSE proc[p]
    BY <1>4, <1>11, ConstantsAssumption
  <2>2. P \in [Pids -> Process]
    BY <1>4 DEF IInv, TypeOK
  <2>3. /\ Records' /\ Family' /\ DataUnderServers'
        /\ \A u \in Servers : u # i /\ pid[u] # 0 => proc'[pid[u]] = proc[pid[u]]
    BY <1>2, <1>3, <1>11, <2>1, <2>2, StartedTracked
  <2>4. /\ pid'[i] = NewPid /\ startOpts'[i] = test.opts /\ proc'[NewPid].since = ran
        /\ NewPid # 0
        /\ \A u \in Servers : u # i => pid'[u] = pid[u] /\ startOpts'[u] = startOpts[u]
    BY <1>2, <1>3, <1>11, <2>2, StartedTypes, APidIsLeft DEF IInv
  <2>5. Gone'
    <3>1. \A s \in 1 .. NumSlaves : s >= i' => s # i /\ s >= i /\ s \in Servers
      BY <1>2, <1>3 DEF Servers
    <3> QED
      BY <1>2, <1>5, <2>4, <3>1 DEF IInv, Gone, Cleared, Preparing
  <2>6. \A s \in 0 .. test.slaves : s < i' => Asks(s)'
    <3> SUFFICES ASSUME NEW s \in 0 .. test.slaves, s < i' PROVE Asks(s)'
      OBVIOUS
    <3>1. CASE s = i
      BY <1>5, <2>4, <3>1 DEF Asks
    <3>2. CASE s # i
      <4>1. s \in Servers /\ s < i /\ s <= test.slaves
        BY <1>2, <1>3, <1>10, <3>2
      <4> QED
        BY <1>5, <1>8, <2>3, <2>4, <3>2, <4>1 DEF Asks
    <3> QED
      BY <3>1, <3>2
  <2>7. pid'[0] # 0 => startOpts'[0] = test.opts
    BY <1>9, <1>10, <2>4
  <2>8. AsAsked'
    BY <1>2, <1>5, <2>6, <2>7 DEF AsAsked, Preparing
  <2> QED
    BY <1>1, <1>6, <2>3, <2>5, <2>8 DEF IInv
<1>12. CASE pid[i] # 0 /\ proc' = P /\ UNCHANGED <<pid, startOpts, pidfile>>
  <2>1. proc' = proc /\ pid' = pid /\ startOpts' = startOpts /\ i = 0
    BY <1>3, <1>4, <1>7, <1>12
  <2>2. Records' /\ Family'
    <3>1. \A p \in Pids : Still(p)
      BY <2>1 DEF Still
    <3> QED
      BY <1>2, <2>1, <3>1, StillTracked DEF known
  <2>3. Gone'
    BY <1>2, <1>5, <2>1 DEF IInv, Gone, Cleared, Preparing
  <2>4. \A s \in 0 .. test.slaves : s < i' => Asks(s)'
    <3> SUFFICES ASSUME NEW s \in 0 .. test.slaves, s < i' PROVE Asks(s)'
      OBVIOUS
    <3>1. s = 0
      BY <1>2, <1>10, <2>1
    <3> QED
      BY <1>5, <1>9, <1>12, <2>1, <3>1 DEF Asks
  <2>5. AsAsked'
    BY <1>2, <1>5, <1>9, <2>1, <2>4 DEF AsAsked, Preparing
  <2>6. DataUnderServers'
    BY <2>1 DEF IInv, DataUnderServers, ServerRuns, IsServer
  <2> QED
    BY <1>1, <1>6, <2>2, <2>3, <2>5, <2>6 DEF IInv
<1> QED
  BY <1>2, <1>11, <1>12

LEMMA DiedStep ==
  ASSUME Roomy, IInv, pc = "run", NEW z \in Zombies, NEW s \in Servers, ServerDied(z, s)
  PROVE  IInv'
<1>1. TypeOK' /\ MoreTypes'
  BY DiedTypes
<1>2. /\ z \in Pids /\ Reaped(z) \in [Pids -> Process] /\ Reaped(z)[z] = Free
      /\ \A p \in Pids : p # z => Reaped(z)[p] = proc[p]
  BY ReapedChildren DEF Zombies
<1>3. /\ pid[s] = z /\ z # 0 /\ killing = {} /\ hard = {}
      /\ UNCHANGED <<force, loop, tested, timer, tester, lists, marks, crashes, killed>>
      /\ \/ DrizzledStart(Reaped(z), s, startOpts[s])
         \/ proc' = Reaped(z) /\ pid' = [pid EXCEPT ![s] = 0] /\ startOpts' = startOpts
  BY <1>2, ConstantsAssumption DEF ServerDied, IInv, Stopping
<1>4. /\ pc' = pc /\ next' = next /\ test' = test /\ ran' = ran /\ restart' = restart
      /\ timer' = timer /\ tester' = tester /\ results' = results /\ exit' = exit
      /\ killing' = {} /\ hard' = {} /\ failed' = failed /\ found' = found /\ killed' = killed
  BY <1>3 DEF loop, tested, lists, marks
<1>5. Stopping' /\ Counted' /\ HonestExit' /\ Gone' /\ AsAsked'
  BY <1>4
  DEF IInv, Stopping, Counted, HonestExit, InTest, Preparing, Gone, AsAsked, Cleared
<1>6. CASE DrizzledStart(Reaped(z), s, startOpts[s])
  <2>1. startOpts[s] \in Opts /\ \A p \in Pids : Reaped(z)[p] = IF p = pid[s] THEN Free ELSE proc[p]
    BY <1>2, <1>3 DEF IInv, TypeOK
  <2>2. Records' /\ Family' /\ DataUnderServers'
    BY <1>2, <1>3, <1>6, <2>1, StartedTracked
  <2> QED
    BY <1>1, <1>5, <2>2 DEF IInv
<1>7. CASE proc' = Reaped(z) /\ pid' = [pid EXCEPT ![s] = 0] /\ startOpts' = startOpts
  <2>1. Free.phase = "free" /\ AServer(z, s) /\ Dying = {} /\ Dying' = {}
    BY <1>3, <1>4, NewChildren DEF IInv, Records, Dying
  <2>2. \A p \in Pids : Alive(p)' => p # z /\ Alive(p) /\ proc'[p] = proc[p]
    BY <1>2, <1>7, <2>1 DEF Alive
  <2>3. \A u \in Servers : pid'[u] # 0 => u # s /\ pid'[u] = pid[u] /\ pid[u] \in Pids /\ pid[u] # z
    BY <1>3, <1>7, <2>1 DEF IInv, TypeOK, Records, AServer
  <2>4. tester # 0 => tester \in Pids /\ tester # z
    BY <2>1 DEF IInv, TypeOK, Records, AServer, IsServer
  <2>5. Records'
    <3>1. (\A u \in Servers :
             pid[u] # 0 => AServer(pid[u], u) /\ proc[pid[u]].opts = startOpts[u])'
      BY <1>2, <1>7, <2>3 DEF IInv, Records, AServer, Alive, IsServer
    <3>2. (\A n \in Timers : timer[n] # 0 /\ Alive(timer[n]) => proc[timer[n]].role = n)'
      BY <1>4, <2>2 DEF IInv, Records, Alive, TypeOK
    <3>3. (tester # 0 => Alive(tester) /\ proc[tester].role = "test")'
      BY <1>2, <1>4, <1>7, <2>4 DEF IInv, Records, Alive
    <3> QED
      BY <2>1, <3>1, <3>2, <3>3 DEF Records
  <2>6. Family'
    <3>1. \A p \in Pids : Alive(p)' /\ IsServer(p)' => proc[p].of # s
      BY <1>2, <2>1, <2>2 DEF IInv, Family, AServer, IsServer
    <3>2. \A p \in Pids : proc[p].of \in Servers
      BY DEF IInv, TypeOK, Process
    <3>3. \A u \in Servers : u # s => pid'[u] = pid[u]
      BY <1>7 DEF IInv, TypeOK
    <3> QED
      BY <1>4, <2>1, <2>2, <3>1, <3>2, <3>3 DEF IInv, Family, IsServer
  <2>7. DataUnderServers'
    BY <2>2 DEF IInv, DataUnderServers, ServerRuns, IsServer, Alive
  <2> QED
    BY <1>1, <1>5, <2>5, <2>6, <2>7 DEF IInv
<1> QED
  BY <1>3, <1>6, <1>7

LEMMA RecordStep == ASSUME IInv, RecordDeadChildren PROVE IInv'
<1>1. TypeOK' /\ MoreTypes'
  BY RecordTypes
<1>2. /\ pc = "reap" /\ pid' = [s \in Servers |-> IF pid[s] \in Zombies THEN 0 ELSE pid[s]]
      /\ proc' = [p \in Pids |-> IF p \in Zombies THEN Free ELSE proc[p]]
      /\ i' = 0 /\ pc' = (IF restart \/ Zombies # {} THEN "start" ELSE "spawn")
      /\ UNCHANGED <<force, next, tested, startOpts, timer, tester, lists, marks, killed>>
  BY DEF RecordDeadChildren, At, PidsOfTheLiving, Goto
<1>3. killing = {} /\ hard = {} /\ tester = 0 /\ exit = "none"
  BY <1>2 DEF IInv, Stopping
<1>4. /\ next' = next /\ test' = test /\ ran' = ran /\ restart' = restart
      /\ timer' = timer /\ tester' = 0 /\ results' = results /\ exit' = exit
      /\ startOpts' = startOpts
      /\ killing' = {} /\ hard' = {} /\ failed' = failed /\ found' = found /\ killed' = killed
      /\ Dying = {} /\ Dying' = {}
  BY <1>2, <1>3 DEF tested, lists, marks, Dying
<1>5. Free.phase = "free" /\ Zombies \subseteq Pids /\ 0 \notin Zombies
  BY NewChildren, ConstantsAssumption DEF Zombies
<1>6. \A p \in Pids : Alive(p)' => p \notin Zombies /\ Alive(p) /\ proc'[p] = proc[p]
  BY <1>2, <1>5 DEF Alive
<1>7. \A s \in Servers : /\ pid'[s] = 0 \/ pid'[s] = pid[s]
                         /\ pid[s] \notin Zombies => pid'[s] = pid[s]
                         /\ pid'[s] # 0 => pid[s] \in Pids /\ pid[s] \notin Zombies
  BY <1>2, <1>5 DEF IInv, TypeOK
<1>8. Records'
  <2>1. (\A s \in Servers :
           pid[s] # 0 => AServer(pid[s], s) /\ proc[pid[s]].opts = startOpts[s])'
    BY <1>2, <1>4, <1>7 DEF IInv, Records, AServer, Alive, IsServer
  <2>2. (\A n \in Timers : timer[n] # 0 /\ Alive(timer[n]) => proc[timer[n]].role = n)'
    BY <1>4, <1>6 DEF IInv, Records, Alive, TypeOK
  <2> QED
    BY <1>4, <2>1, <2>2 DEF Records
<1>9. Family'
  <2>1. \A p \in Pids : proc[p].of \in Servers
    BY DEF IInv, TypeOK, Process
  <2> QED
    BY <1>3, <1>4, <1>6, <1>7, <2>1 DEF IInv, Family, IsServer
<1>10. Stopping' /\ Counted' /\ HonestExit'
  BY <1>2, <1>3, <1>4 DEF IInv, Stopping, Counted, HonestExit, InTest, Preparing
<1>11. NumSlaves \in Nat /\ 0 \in Servers /\ 1 .. NumSlaves \subseteq Servers
       /\ test.slaves \in 0 .. NumSlaves
  BY ConstantsAssumption DEF Servers, IInv, MoreTypes
<1>12. Gone'
  BY <1>2, <1>4, <1>7, <1>11 DEF IInv, Gone, Cleared, Preparing
<1>13. AsAsked'
  <2>1. CASE restart \/ Zombies # {}
    <3>1. pid'[0] # 0 => startOpts'[0] = test.opts
      BY <1>2, <1>4, <1>7, <1>11 DEF IInv, AsAsked, Preparing
    <3>2. \A s \in 0 .. test.slaves : ~(s < 0)
      BY <1>11
    <3> QED
      BY <1>2, <1>4, <2>1, <3>1, <3>2 DEF AsAsked, Preparing
  <2>2. CASE ~restart /\ Zombies = {}
    <3>1. pid[0] # 0 /\ test.slaves = 0 /\ startOpts[0] = test.opts
      BY <1>2, <2>2 DEF IInv, AsAsked, Preparing
    <3>2. \A s \in 0 .. test.slaves : Asks(s)'
      BY <1>4, <1>7, <1>11, <2>2, <3>1 DEF Asks
    <3> QED
      BY <1>2, <1>4, <2>2, <3>2 DEF AsAsked, Preparing
  <2> QED
    BY <2>1, <2>2
<1>14. DataUnderServers'
  BY <1>6 DEF IInv, DataUnderServers, ServerRuns, IsServer, Alive
<1> QED
  BY <1>1, <1>8, <1>9, <1>10, <1>12, <1>13, <1>14 DEF IInv

LEMMA RestoreStep == ASSUME IInv, RestoreInstalledDb PROVE IInv'
<1>1. TypeOK' /\ MoreTypes'
  BY RestoreTypes
<1>2. /\ pc = "restore" /\ pc' = "done" /\ proc' = Evicted(proc, Servers)
      /\ UNCHANGED <<force, next, tested, known, lists, marks, killed>>
      /\ killing = {} /\ hard = {}
  BY DEF RestoreInstalledDb, At, Goto, IInv, Stopping
<1>3. proc' = proc
  <2>1. \A s \in Servers : pid[s] = 0
    BY <1>2 DEF IInv, Gone, Cleared
  <2> QED
    BY <1>2, <2>1, NothingEvicted
<1>4. Records' /\ Family'
  BY <1>2, <1>3, StillTracked DEF Still
<1>5. /\ pid' = pid /\ tester' = tester /\ timer' = timer /\ next' = next /\ ran' = ran
      /\ results' = results /\ exit' = exit /\ killing' = killing /\ hard' = hard
      /\ failed' = failed /\ found' = found /\ killed' = killed
  BY <1>2 DEF tested, known, lists, marks
<1>6. Stopping' /\ Counted' /\ HonestExit' /\ Gone' /\ AsAsked'
  BY <1>2, <1>5
  DEF IInv, Stopping, Counted, HonestExit, InTest, Preparing, Gone, AsAsked, Cleared
<1>7. DataUnderServers'
  BY <1>3 DEF IInv, DataUnderServers, ServerRuns, IsServer
<1> QED
  BY <1>1, <1>4, <1>6, <1>7 DEF IInv

LEMMA EndStep == ASSUME IInv, EndTest PROVE IInv'
<1>1. TypeOK' /\ MoreTypes'
  BY EndTypes
<1>2. /\ pc = "done" /\ pc' = "next" /\ proc' = TimerStopped(proc, "testcase")
      /\ timer' = [timer EXCEPT !["testcase"] = 0]
      /\ UNCHANGED <<next, tested, pid, startOpts, tester, lists, marks, killed>>
      /\ killing = {} /\ hard = {} /\ tester = 0
  BY DEF EndTest, At, Goto, IInv, Stopping
<1>3. "testcase" \in Timers /\ "suite" \in Timers /\ Timers = {"suite", "testcase"}
  BY DEF Timers
<1>4. /\ pid' = pid /\ startOpts' = startOpts /\ tester' = 0 /\ next' = next /\ ran' = ran
      /\ results' = results /\ exit' = exit /\ Dying = {} /\ Dying' = {}
      /\ killing' = {} /\ hard' = {}
      /\ failed' = failed /\ found' = found /\ killed' = killed
      /\ timer'["testcase"] = 0 /\ timer'["suite"] = timer["suite"]
  BY <1>2, <1>3 DEF tested, lists, marks, Dying, IInv, TypeOK
<1>5. /\ Free.phase = "free"
      /\ \A p \in Pids : IF p = timer["testcase"] /\ proc[p].role = "testcase"
                         THEN proc'[p] = Free ELSE proc'[p] = proc[p]
  BY <1>2, <1>3, NewChildren, StoppedTimers DEF IInv, TypeOK
<1>6. \A p \in Pids : Alive(p)' =>
        /\ Alive(p) /\ proc'[p] = proc[p] /\ ~(p = timer["testcase"] /\ proc[p].role = "testcase")
  BY <1>5 DEF Alive
<1>7. Records'
  <2>1. \A s \in Servers : pid[s] # 0 => pid[s] \in Pids /\ proc'[pid[s]] = proc[pid[s]]
    BY <1>5 DEF IInv, Records, AServer, IsServer, TypeOK
  <2>2. (\A s \in Servers :
           pid[s] # 0 => AServer(pid[s], s) /\ proc[pid[s]].opts = startOpts[s])'
    BY <1>4, <2>1 DEF IInv, Records, AServer, Alive, IsServer
  <2>3. (\A n \in Timers : timer[n] # 0 /\ Alive(timer[n]) => proc[timer[n]].role = n)'
    <3>1. timer["suite"] # 0 /\ proc'[timer["suite"]].phase # "free"
            => proc'[timer["suite"]].role = "suite"
      BY <1>3, <1>6 DEF IInv, Records, Alive, TypeOK
    <3> QED
      BY <1>3, <1>4, <3>1 DEF Alive
  <2> QED
    BY <1>4, <2>2, <2>3 DEF Records
<1>8. Family'
  BY <1>2, <1>3, <1>4, <1>6 DEF IInv, Family, IsServer
<1>9. Stopping' /\ Counted' /\ HonestExit' /\ Gone' /\ AsAsked'
  BY <1>2, <1>4
  DEF IInv, Stopping, Counted, HonestExit, InTest, Preparing, Gone, AsAsked, Cleared
<1>10. DataUnderServers'
  BY <1>6 DEF IInv, DataUnderServers, ServerRuns, IsServer, Alive
<1> QED
  BY <1>1, <1>7, <1>8, <1>9, <1>10 DEF IInv

LEMMA SpawnStep == ASSUME Roomy, IInv, RunDrizzletest PROVE IInv'
<1>1. TypeOK' /\ MoreTypes'
  BY SpawnTypes
<1>2. /\ pc = "spawn" /\ pc' = "run" /\ tester' = NewPid
      /\ proc' = [proc EXCEPT ![NewPid] = Child("test")]
      /\ UNCHANGED <<next, tested, pid, startOpts, timer, lists, marks, killed>>
      /\ killing = {} /\ hard = {} /\ tester = 0 /\ exit = "none"
  BY DEF RunDrizzletest, At, Goto, IInv, Stopping
<1>3. /\ NewPid \in Pids /\ NewPid # 0 /\ \A s \in Servers : pid[s] # NewPid
      /\ \A n \in Timers : timer[n] # NewPid
  BY <1>2, APidIsLeft DEF IInv
<1>4. /\ proc'[NewPid].role = "test" /\ proc'[NewPid].phase = "running"
      /\ \A p \in Pids : p # NewPid => proc'[p] = proc[p]
  BY <1>2, <1>3, NewChildren DEF IInv, TypeOK
<1>5. /\ pid' = pid /\ startOpts' = startOpts /\ timer' = timer /\ next' = next /\ ran' = ran
      /\ results' = results /\ exit' = exit /\ Dying = {} /\ Dying' = {}
      /\ killing' = {} /\ hard' = {}
      /\ failed' = failed /\ found' = found /\ killed' = killed
  BY <1>2 DEF tested, lists, marks, Dying
<1>6. Records'
  <2>1. (\A s \in Servers :
           pid[s] # 0 => AServer(pid[s], s) /\ proc[pid[s]].opts = startOpts[s])'
    BY <1>3, <1>4, <1>5 DEF IInv, Records, AServer, Alive, IsServer, TypeOK
  <2>2. (\A n \in Timers : timer[n] # 0 /\ Alive(timer[n]) => proc[timer[n]].role = n)'
    BY <1>3, <1>4, <1>5 DEF IInv, Records, Alive, TypeOK
  <2>3. (tester # 0 => Alive(tester) /\ proc[tester].role = "test")'
    BY <1>2, <1>4 DEF Alive
  <2> QED
    BY <1>5, <2>1, <2>2, <2>3 DEF Records
<1>7. Family'
  <2>1. \A p \in Pids : Alive(p) => p # 0
    BY ConstantsAssumption
  <2> QED
    BY <1>2, <1>3, <1>4, <1>5, <2>1 DEF IInv, Family, IsServer, Alive
<1>8. Stopping' /\ Counted' /\ HonestExit' /\ Gone' /\ AsAsked'
  BY <1>2, <1>3, <1>5
  DEF IInv, Stopping, Counted, HonestExit, InTest, Preparing, Gone, AsAsked, Cleared
<1>9. DataUnderServers'
  BY <1>3, <1>4 DEF IInv, DataUnderServers, ServerRuns, IsServer
<1> QED
  BY <1>1, <1>6, <1>7, <1>8, <1>9 DEF IInv

LEMMA TestcaseStep ==
  ASSUME IInv, pc = "run", NEW z \in Zombies, TestcaseTimeout(z) PROVE IInv'
<1>1. TypeOK' /\ MoreTypes'
  BY TestcaseTypes
<1>2. z \in Pids /\ Alive(z) /\ z = timer["testcase"] /\ TesterKilled /\ z # 0
  BY ConstantsAssumption DEF Zombies, Alive, TestcaseTimeout
<1>3. /\ tester \in Pids /\ tester # z /\ proc'[z] = Free /\ Still(tester)
      /\ proc'[tester].home = proc[tester].home
      /\ \A p \in Pids : p # z /\ p # tester => proc'[p] = proc[p]
  BY <1>2, TimeoutChildren
<1>4. /\ UNCHANGED <<force, loop, known, lists, marks, killed>>
      /\ pid' = pid /\ startOpts' = startOpts /\ timer' = timer /\ tester' = tester
      /\ pc' = pc /\ next' = next /\ test' = test /\ ran' = ran /\ restart' = restart
      /\ results' = results /\ exit' = exit /\ Dying = {} /\ Dying' = {}
      /\ killing' = {} /\ hard' = {}
      /\ failed' = failed /\ found' = found /\ killed' = killed
  BY DEF TestcaseTimeout, loop, known, lists, marks, IInv, Stopping, Dying
<1>5. Free.phase = "free" /\ proc[z].role = "testcase" /\ proc[tester].role = "test"
      /\ "testcase" \in Timers /\ "server" \notin Timers
  BY <1>2, <1>3, NewChildren, ConstantsAssumption DEF IInv, Records, Timers
<1>6. \A p \in Pids : Alive(p)' => /\ p # z /\ Alive(p) /\ proc'[p].role = proc[p].role
                                   /\ proc'[p].of = proc[p].of
  BY <1>3, <1>5 DEF Alive, Still
<1>7. Records'
  <2>1. \A s \in Servers : pid[s] # 0 => pid[s] \in Pids /\ proc'[pid[s]] = proc[pid[s]]
    BY <1>3, <1>5 DEF IInv, Records, AServer, IsServer, TypeOK
  <2>2. (\A s \in Servers :
           pid[s] # 0 => AServer(pid[s], s) /\ proc[pid[s]].opts = startOpts[s])'
    BY <1>4, <2>1 DEF IInv, Records, AServer, Alive, IsServer
  <2>3. (\A n \in Timers : timer[n] # 0 /\ Alive(timer[n]) => proc[timer[n]].role = n)'
    BY <1>4, <1>6 DEF IInv, Records, Alive, TypeOK
  <2>4. (tester # 0 => Alive(tester) /\ proc[tester].role = "test")'
    BY <1>3, <1>4 DEF IInv, Records, Alive, Still
  <2> QED
    BY <1>4, <2>2, <2>3, <2>4 DEF Records
<1>8. Family'
  BY <1>4, <1>5, <1>6 DEF IInv, Family, IsServer
<1>9. Stopping' /\ Counted' /\ HonestExit' /\ Gone' /\ AsAsked'
  BY <1>4
  DEF IInv, Stopping, Counted, HonestExit, InTest, Preparing, Gone, AsAsked, Cleared
<1>10. DataUnderServers'
  <2>1. \A p \in Pids : ServerRuns(p)' => p # z /\ p # tester
    BY <1>3, <1>5 DEF ServerRuns, IsServer, Still
  <2> QED
    BY <1>3, <2>1 DEF IInv, DataUnderServers, ServerRuns, IsServer
<1> QED
  BY <1>1, <1>7, <1>8, <1>9, <1>10 DEF IInv

LEMMA BeginStep == ASSUME Roomy, IInv, BeginTest PROVE IInv'
<1>1. TypeOK' /\ MoreTypes'
  BY BeginTypes
<1>2. PICK t \in TestKinds :
        /\ test' = t /\ restart' = (NeedMasterRestart(t) \/ NeedSlaveRestart(t))
        /\ StopServers([proc EXCEPT ![NewPid] = Child("testcase")], ToStop(t))
  BY DEF BeginTest
<1> DEFINE P == [proc EXCEPT ![NewPid] = Child("testcase")]
           S == ToStop(t)
<1>3. /\ pc = "next" /\ pc' = "stop" /\ next' = "reap" /\ ran' = ran + 1
      /\ timer' = [timer EXCEPT !["testcase"] = NewPid]
      /\ UNCHANGED <<results, startOpts, tester, marks, killed>>
      /\ killing = {} /\ hard = {} /\ tester = 0 /\ exit = "none" /\ timer["testcase"] = 0
  BY DEF BeginTest, At, Goto, IInv, Stopping
<1>4. /\ NewPid \in Pids /\ NewPid # 0 /\ \A s \in Servers : pid[s] # NewPid
      /\ \A n \in Timers : timer[n] # NewPid
  BY <1>3, APidIsLeft DEF IInv
<1>5. /\ "testcase" \in Timers /\ Timers = {"suite", "testcase"}
      /\ Child("testcase") \in Process /\ Child("testcase").role = "testcase"
      /\ Child("testcase").phase = "running"
  BY NewChildren DEF Timers
<1>6. /\ P \in [Pids -> Process] /\ P[NewPid] = Child("testcase")
      /\ \A p \in Pids : p # NewPid => P[p] = proc[p]
  BY <1>4, <1>5 DEF IInv, TypeOK
<1>7. S \in SUBSET Servers
  BY ConstantsAssumption DEF ToStop, Servers
<1>8. /\ killing' = {pid[s] : s \in S} \ {0} /\ hard' = {}
      /\ \A s \in Servers : IF s \in S THEN pid'[s] = 0 ELSE pid'[s] = pid[s]
      /\ \A p \in Pids : \/ proc'[p] = P[p]
                         \/ P[p].phase = "up" /\ proc'[p] = [P[p] EXCEPT !.phase = "stopping"]
  BY <1>2, <1>6, <1>7, StopTypes
<1> HIDE DEF P
<1>9. proc'[NewPid].role = "testcase" /\ proc'[NewPid].phase = "running"
  BY <1>4, <1>5, <1>6, <1>8
<1>10. ASSUME NEW p \in Pids, p # NewPid
       PROVE  /\ Still(p) /\ proc'[p].home = proc[p].home
              /\ ServerRuns(p)' => ServerRuns(p)
  <2>1. CASE proc'[p] = proc[p]
    BY <2>1 DEF Still, ServerRuns, IsServer
  <2>2. CASE proc[p].phase = "up" /\ proc'[p] = [proc[p] EXCEPT !.phase = "stopping"]
    <3>1. proc[p] \in Process
      BY DEF IInv, TypeOK
    <3>2. /\ proc'[p].phase = "stopping" /\ proc'[p].role = proc[p].role
          /\ proc'[p].of = proc[p].of /\ proc'[p].opts = proc[p].opts
          /\ proc'[p].since = proc[p].since /\ proc'[p].home = proc[p].home
      BY <2>2, <3>1 DEF Process
    <3> QED
      BY <2>2, <3>2 DEF Still, ServerRuns, IsServer
  <2> QED
    BY <1>6, <1>8, <1>10, <2>1, <2>2
<1>11. \A p \in Pids : p # NewPid =>
         /\ (Alive(p)' <=> Alive(p)) /\ (IsServer(p)' <=> IsServer(p))
         /\ proc'[p].role = proc[p].role /\ proc'[p].of = proc[p].of
         /\ proc'[p].opts = proc[p].opts
  BY <1>10 DEF Still, Alive, IsServer
<1>12. /\ startOpts' = startOpts /\ tester' = 0 /\ results' = results /\ exit' = exit
       /\ timer'["testcase"] = NewPid /\ timer'["suite"] = timer["suite"]
       /\ failed' = failed /\ found' = found /\ killed' = killed
       /\ Dying = {} /\ Dying' = killing'
  BY <1>3, <1>5, <1>8 DEF marks, Dying, IInv, TypeOK
<1>13. \A s \in Servers : pid[s] # 0 => /\ pid[s] \in Pids /\ pid[s] # NewPid
                                        /\ AServer(pid[s], s) /\ proc[pid[s]].opts = startOpts[s]
  BY <1>4 DEF IInv, TypeOK, Records
<1>14. Records'
  <2>1. (\A s \in Servers :
           pid[s] # 0 => AServer(pid[s], s) /\ proc[pid[s]].opts = startOpts[s])'
    BY <1>8, <1>11, <1>12, <1>13 DEF AServer, Alive, IsServer
  <2>2. (\A p \in Dying : Alive(p) => IsServer(p) /\ pid[proc[p].of] = 0)'
    BY <1>7, <1>8, <1>11, <1>12, <1>13 DEF AServer
  <2>3. (\A n \in Timers : timer[n] # 0 /\ Alive(timer[n]) => proc[timer[n]].role = n)'
    <3>1. timer["suite"] # 0 /\ proc'[timer["suite"]].phase # "free"
            => proc'[timer["suite"]].role = "suite"
      BY <1>4, <1>5, <1>11 DEF IInv, Records, Alive, TypeOK
    <3> QED
      BY <1>5, <1>9, <1>12, <3>1 DEF Alive
  <2> QED
    BY <1>12, <2>1, <2>2, <2>3 DEF Records
<1>15. Family'
  <2>1. ASSUME NEW p \in Pids, Alive(p)', p # NewPid
        PROVE  \/ IsServer(p)' /\ (p \in Dying' \/ pid'[proc'[p].of] = p)
               \/ proc'[p].role = "test" /\ tester' = p
               \/ proc'[p].role \in Timers /\ timer'[proc'[p].role] = p
    <3>1. \/ IsServer(p) /\ pid[proc[p].of] = p
          \/ proc[p].role \in Timers /\ timer[proc[p].role] = p
      BY <1>3, <1>11, <1>12, <2>1, ConstantsAssumption DEF IInv, Family
    <3>2. CASE IsServer(p) /\ pid[proc[p].of] = p
      <4>1. proc[p].of \in Servers /\ p # 0
        BY ConstantsAssumption DEF IInv, TypeOK, Process
      <4> QED
        BY <1>8, <1>11, <1>12, <2>1, <3>2, <4>1
    <3>3. CASE proc[p].role \in Timers /\ timer[proc[p].role] = p
      <4>1. p # 0 /\ proc[p].role = "suite"
        BY <1>3, <1>5, <3>3, ConstantsAssumption
      <4> QED
        BY <1>11, <1>12, <2>1, <3>3, <4>1
    <3> QED
      BY <3>1, <3>2, <3>3
  <2>2. proc'[NewPid].role \in Timers /\ timer'[proc'[NewPid].role] = NewPid
    BY <1>5, <1>9, <1>12
  <2>3. (\A p, q \in Pids : Alive(p) /\ Alive(q) /\ IsServer(p) /\ IsServer(q)
                            /\ proc[p].of = proc[q].of => p = q)'
    <3>1. \A p \in Pids : IsServer(p)' => p # NewPid
      BY <1>9 DEF IsServer
    <3> QED
      BY <1>11, <3>1 DEF IInv, Family
  <2> QED
    BY <2>1, <2>2, <2>3 DEF Family
<1>16. Stopping' /\ HonestExit'
  BY <1>3, <1>12 DEF IInv, Stopping, HonestExit
<1>17. /\ NumSlaves \in Nat /\ t.slaves \in 0 .. NumSlaves /\ 0 \in Servers
       /\ \A s \in 1 .. NumSlaves : s \in Servers
  BY ConstantsAssumption DEF Servers
<1>18. /\ NeedMasterRestart(t) => S = Servers
       /\ ~NeedMasterRestart(t) => 0 \notin S /\ pid[0] # 0 /\ startOpts[0] = t.opts
       /\ t.slaves > 0 => NeedSlaveRestart(t) /\ 1 .. NumSlaves \subseteq S
  BY <1>17 DEF ToStop, NeedMasterRestart, NeedSlaveRestart
<1>19. Gone'
  BY <1>2, <1>3, <1>8, <1>17, <1>18 DEF Gone, Cleared, Preparing
<1>20. AsAsked'
  <2>1. ~restart' => pid'[0] # 0 /\ t.slaves = 0
    <3>1. ~restart' => ~NeedMasterRestart(t) /\ ~NeedSlaveRestart(t)
      BY <1>2, Zenon
    <3>2. ~NeedSlaveRestart(t) => t.slaves = 0
      BY <1>17, <1>18
    <3> QED
      BY <1>8, <1>17, <1>18, <3>1, <3>2
  <2>2. pid'[0] # 0 => startOpts'[0] = t.opts
    BY <1>8, <1>12, <1>17, <1>18
  <2> QED
    BY <1>2, <1>3, <2>1, <2>2 DEF AsAsked, Preparing
<1>21. Counted'
  <2>1. Len(results) = ran /\ ran \in Nat
    BY <1>3, ConstantsAssumption DEF IInv, TypeOK, Counted, InTest, Preparing
  <2> QED
    BY <1>3, <1>12, <2>1 DEF IInv, Counted, InTest, Preparing
<1>22. DataUnderServers'
  BY <1>9, <1>10 DEF IInv, DataUnderServers, ServerRuns, IsServer
<1> QED
  BY <1>1, <1>14, <1>15, <1>16, <1>19, <1>20, <1>21, <1>22 DEF IInv
-----------------------------------------------------------------------------
(* The theorems.                                                             *)
\* The end of the clients that ask servers to stop changes only the runner's place.
LEMMA ClientsStep == ASSUME IInv, ClientsEnd PROVE IInv'
<1>1. /\ pc = "stop" /\ i' = 1
      /\ UNCHANGED <<force, pc, next, test, ran, restart, results, saved, code, known, lists>>
      /\ UNCHANGED <<marks, exit, proc, pidfile, expect, killed>>
  BY DEF ClientsEnd, AwaitsClients, At, tested, marks, world
<1>2. \A p \in Pids : Still(p)
  BY <1>1 DEF Still
<1>3. Records' /\ Family'
  BY <1>1, <1>2, StillTracked
<1>4. Gone' /\ AsAsked'
  BY <1>1 DEF IInv, Gone, AsAsked, Asks, Cleared, Preparing, known
<1>5. i' \in 0 .. NumSlaves + 1
  BY <1>1, ConstantsAssumption
<1>6. TypeOK' /\ MoreTypes' /\ Stopping' /\ Counted' /\ HonestExit'
  BY <1>1, <1>5
  DEF IInv, TypeOK, MoreTypes, Stopping, Counted, HonestExit, InTest, Preparing,
      known, lists, marks
<1>7. DataUnderServers'
  BY <1>1 DEF IInv, DataUnderServers, ServerRuns, IsServer
<1> QED
  BY <1>3, <1>4, <1>6, <1>7 DEF IInv

LEMMA StepIInv ==
  ASSUME Roomy, IInv, [Next]_vars, Interrupt => pc # "stop" PROVE IInv'
<1>1. ASSUME WaitForAny PROVE IInv'
  BY <1>1, SuiteStep, TestcaseStep, EndedStep, DiedStep DEF WaitForAny, At
<1>2. ASSUME Runner PROVE IInv'
  BY <1>1, <1>2, CollectStep, KillStep, StoppedStep, BeginStep, RecordStep, StartStep,
     AwaitStep, StartFailsStep, SpawnStep, RestoreStep, EndStep, StopAllSteps, ReportStep
  DEF Runner, NoMoreTests, At
<1>3. CASE UNCHANGED vars
  <2>1. /\ UNCHANGED <<force, loop, test, ran, restart, results, saved, code, known, lists>>
        /\ UNCHANGED <<marks, exit, proc, pidfile, expect, killed>>
    BY <1>3 DEF vars, tested, marks, world
  <2>2. \A p \in Pids : Still(p)
    BY <2>1 DEF Still
  <2>3. Records' /\ Family' /\ Gone' /\ AsAsked'
    BY <2>1, <2>2, StillTracked, StillAsked
  <2>4. TypeOK' /\ MoreTypes' /\ Stopping' /\ Counted' /\ HonestExit'
    BY <2>1
    DEF IInv, TypeOK, MoreTypes, Stopping, Counted, HonestExit, InTest, Preparing,
        loop, known, lists, marks
  <2>5. DataUnderServers'
    BY <2>1 DEF IInv, DataUnderServers, ServerRuns, IsServer
  <2> QED
    BY <2>3, <2>4, <2>5 DEF IInv
<1> QED
  BY <1>2, <1>3, ChildrenStep, ClientsStep, StopAllSteps DEF Next

LEMMA AlwaysTracked == ASSUME Roomy, Uninterrupted PROVE Spec => []IInv
<1>1. Init => IInv
  BY InitIInv
<1>2. IInv /\ [Next]_vars => IInv'
  BY StepIInv DEF Interrupt, Uninterrupted
<1> QED
  BY <1>1, <1>2, PTL DEF Spec

\* ^C while servers are being stopped: the runner forgets those it was waiting for,
\* and does nothing more than to stop the others and end.
LEMMA AbandonStep == ASSUME IInv, Interrupt, pc = "stop" PROVE Abandoned'
<1>1. /\ proc' = Asked(proc, Servers) /\ pc' = "stop" /\ next' = "exit" /\ exit' = exit
  BY DEF Interrupt, StopAllServers, StopServers, Goto, marks
<1>2. /\ proc' \in [Pids -> Process]
      /\ \A p \in Pids : ServerRuns(p)' => ServerRuns(p) /\ proc'[p].home = proc[p].home
  <2>1. proc \in [Pids -> Process]
    BY DEF IInv, TypeOK
  <2>2. /\ proc' \in [Pids -> Process]
        /\ \A p \in Pids :
             \/ proc'[p] = proc[p]
             \/ proc[p].phase = "up" /\ proc'[p] = [proc[p] EXCEPT !.phase = "stopping"]
    BY <1>1, <2>1, AskedChildren
  <2>3. \A p \in Pids : proc[p] \in Process
    BY <2>1
  <2> QED
    BY <2>2, <2>3 DEF Process, ServerRuns, IsServer
<1>3. exit = "none"
  BY DEF IInv, Stopping
<1> QED
  BY <1>1, <1>2, <1>3 DEF Abandoned, IInv, DataUnderServers

LEMMA AbandonedStays == ASSUME Abandoned, [Next]_vars PROVE Abandoned'
<1> USE DEF Abandoned
<1>1. /\ proc \in [Pids -> Process] /\ Free \in Process /\ Free.role = "none"
  BY NewChildren DEF Free
<1>2. ASSUME /\ pc' = pc /\ next' = next /\ exit' = exit
             /\ proc' \in [Pids -> Process]
             /\ \A p \in Pids : ServerRuns(p)' => ServerRuns(p) /\ proc'[p].home = proc[p].home
      PROVE  Abandoned'
  BY <1>2 DEF DataUnderServers
<1>3. ASSUME NEW p \in Pids, CollectExit(p) PROVE Abandoned'
  BY <1>1, <1>2, <1>3 DEF CollectExit, loop, marks, ServerRuns, IsServer
<1>4. CASE KillHard
  BY <1>1, <1>2, <1>4 DEF KillHard, loop, ServerRuns, IsServer
<1>5. CASE Stopped
  <2>1. TimerStopped(proc, "suite") \in [Pids -> Process]
    BY <1>1, StoppedTimers DEF Timers
  <2>2. proc' \in [Pids -> Process] /\ \A p \in Pids : proc'[p] = proc[p] \/ proc'[p] = Free
    BY <1>1, <1>5, <2>1, StoppedTimers DEF Stopped, Exit, Timers
  <2>3. pc' = "exited" /\ next' = "exit" /\ exit' = "error"
    BY <1>5 DEF Stopped, Exit, Goto
  <2> QED
    BY <1>1, <2>2, <2>3 DEF DataUnderServers, ServerRuns, IsServer
<1>6. ASSUME Children PROVE Abandoned'
  <2>1. pc' = pc /\ next' = next /\ exit' = exit
    BY <1>6 DEF Children, Boot, ShutDown, Crash, TestEnds, WriteExpect, Expire, Rest, loop, marks
  <2>2. \/ proc' = proc
        \/ \E p : Ends(p)
        \/ \E p \in Pids : Turns(p, "booting", "up") \/ Turns(p, "stopping", "zombie")
    BY <1>6 DEF Children, Boot, ShutDown, Crash, TestEnds, WriteExpect, Expire
  <2>3. CASE proc' = proc
    BY <1>2, <2>1, <2>3 DEF ServerRuns, IsServer
  <2> QED
    BY <1>1, <1>2, <2>1, <2>2, <2>3 DEF Ends, Turns, Process, ServerRuns, IsServer
<1>7. CASE UNCHANGED vars
  BY <1>2, <1>7 DEF vars, loop, marks, world, ServerRuns, IsServer
<1>8. ASSUME Runner PROVE Abandoned'
  BY <1>3, <1>4, <1>5, <1>8
  DEF Runner, At, BeginTest, RecordDeadChildren, StartServer, AllStarted, Awaited, StartFails,
      RunDrizzletest, WaitForAny, RestoreInstalledDb, EndTest, NoMoreTests, ReportStats
<1>9. ~Interrupt
  BY DEF Interrupt
<1>10. CASE ClientsEnd
  BY <1>2, <1>10 DEF ClientsEnd, marks, world, ServerRuns, IsServer
<1> QED
  BY <1>6, <1>7, <1>8, <1>9, <1>10 DEF Next

LEMMA AlwaysTrackedOrAbandoned == ASSUME Roomy PROVE Spec => [](IInv \/ Abandoned)
<1>1. Init => IInv
  BY InitIInv
<1>2. IInv /\ [Next]_vars => IInv' \/ Abandoned'
  BY StepIInv, AbandonStep
<1>3. Abandoned /\ [Next]_vars => Abandoned'
  BY AbandonedStays
<1> QED
  BY <1>1, <1>2, <1>3, PTL DEF Spec

\* What the invariant says of the servers.
LEMMA ServersTracked == ASSUME IInv PROVE Consistent /\ RightServers /\ AllStopped
<1>1. ASSUME NEW p \in Pids, ServerRuns(p)
      PROVE  Alive(p) /\ IsServer(p) /\ (p \in Dying \/ pid[proc[p].of] = p)
  <2>1. Alive(p) /\ IsServer(p)
    BY <1>1 DEF ServerRuns, Alive
  <2>2. "server" # "test" /\ "server" \notin Timers
    BY DEF Timers
  <2> QED
    BY <2>1, <2>2 DEF IInv, Family, IsServer
<1>2. Consistent
  BY <1>1 DEF IInv, Consistent, EveryServerKnown, OneServerEach, Family, Dying
<1>3. RightServers
  <2> SUFFICES ASSUME pc = "spawn", NEW s \in 0 .. test.slaves
               PROVE  /\ pid[s] # 0 /\ IsServer(pid[s]) /\ proc[pid[s]].of = s
                      /\ proc[pid[s]].opts = test.opts
                      /\ s > 0 => proc[pid[s]].since = ran
    BY DEF RightServers, At
  <2>1. s \in Servers
    BY ConstantsAssumption DEF IInv, MoreTypes, Servers
  <2>2. Asks(s)
    BY DEF IInv, AsAsked
  <2> QED
    BY <2>1, <2>2 DEF IInv, Records, AServer, Asks
<1>4. AllStopped
  <2> SUFFICES ASSUME pc = "exited", exit # "suite", NEW p \in Pids, ServerRuns(p)
               PROVE  FALSE
    BY DEF AllStopped, At
  <2>1. Dying = {} /\ \A s \in Servers : pid[s] = 0
    BY DEF IInv, Stopping, Gone, Cleared, Dying
  <2>2. proc[p].of \in Servers /\ p # 0
    BY ConstantsAssumption DEF IInv, TypeOK, Process
  <2> QED
    BY <1>1, <2>1, <2>2
<1> QED
  BY <1>2, <1>3, <1>4

\* Whatever dies or runs out, and wherever ^C arrives but in the wait for servers to
\* stop, every server that runs is in the runner's records or about to be killed, and
\* there is one on each data directory (drizzled_start, stop_all_servers).
THEOREM ServersAreKnown == Roomy /\ Uninterrupted /\ Spec => []Consistent
<1>1. IInv => Consistent
  BY ServersTracked
<1>2. ASSUME Roomy, Uninterrupted PROVE Spec => []Consistent
  <2>1. Spec => []IInv
    BY <1>2, AlwaysTracked
  <2> QED
    BY <1>1, <2>1, PTL
<1> QED
  BY <1>2

\* A test is run with the servers it asks for, and fresh slaves
\* (run_testcase_need_master_restart, run_testcase_start_servers).
THEOREM TestsGetTheirServers == Roomy /\ Spec => []RightServers
<1>1. IInv \/ Abandoned => RightServers
  BY ServersTracked DEF Abandoned, RightServers, At
<1>2. ASSUME Roomy PROVE Spec => []RightServers
  <2>1. Spec => [](IInv \/ Abandoned)
    BY <1>2, AlwaysTrackedOrAbandoned
  <2> QED
    BY <1>1, <2>1, PTL
<1> QED
  BY <1>2

\* No server loses its data directory while it runs (restore_installed_db,
\* restore_slave_databases).
THEOREM DataIsLeft == Roomy /\ Spec => []DataUnderServers
<1>1. IInv \/ Abandoned => DataUnderServers
  BY DEF IInv, Abandoned
<1>2. ASSUME Roomy PROVE Spec => []DataUnderServers
  <2>1. Spec => [](IInv \/ Abandoned)
    BY <1>2, AlwaysTrackedOrAbandoned
  <2> QED
    BY <1>1, <2>1, PTL
<1> QED
  BY <1>2

\* A run that reports success ran all its tests, none failed, and no server had to be
\* killed (dtr_report_stats).
THEOREM SuccessIsHonest == Roomy /\ Spec => []HonestExit
<1>1. IInv \/ Abandoned => HonestExit
  BY DEF IInv, Abandoned, HonestExit
<1>2. ASSUME Roomy PROVE Spec => []HonestExit
  <2>1. Spec => [](IInv \/ Abandoned)
    BY <1>2, AlwaysTrackedOrAbandoned
  <2> QED
    BY <1>1, <2>1, PTL
<1> QED
  BY <1>2

\* A run that ends leaves no server behind, unless the suite's time was over
\* (dtr_exit, stop_all_servers).
THEOREM NoneIsLeftRunning == Roomy /\ Uninterrupted /\ Spec => []AllStopped
<1>1. IInv => AllStopped
  BY ServersTracked
<1>2. ASSUME Roomy, Uninterrupted PROVE Spec => []AllStopped
  <2>1. Spec => []IInv
    BY <1>2, AlwaysTracked
  <2> QED
    BY <1>1, <2>1, PTL
<1> QED
  BY <1>2
=============================================================================
