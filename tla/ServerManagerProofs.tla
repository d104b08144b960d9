------------------------ MODULE ServerManagerProofs ------------------------
(* Proofs about ServerManager, for every number of port blocks, servers and  *)
(* tests and whatever the tests ask for.  While every start() outlasts the   *)
(* server it waits for, none hangs and no interrupt comes in a start, the    *)
(* list of servers accounts for every process; unless tests are repeated,    *)
(* none loses its data directory and each test runs on what it asked for.    *)
(* Which servers a run leaves behind is shown without any assumption.        *)
EXTENDS ServerManager, SequenceTheorems, TLAPS

\* What the code does not ensure: start() outwaits a server that will come up,
\* servers answer until they end, ctrl-C does not come while start() waits, and
\* no --repeat.
Outwaits    == ~LateStart /\ ~Hangs
Undisturbed == Outwaits /\ "wait" \notin InterruptAt
Once        == Repeat = 1
-----------------------------------------------------------------------------
(* The inductive invariant.                                                  *)
Idle(k) == servers[k].status = 0
Native  == conf.mode = "native"

\* The servers of the list have ports of their own, and hold their port files.
Apart == \A j, k \in DOMAIN servers : servers[j].block = servers[k].block => j = k
Held  == pc # "ended" => \A k \in DOMAIN servers : servers[k].block \in locked

\* Every process belongs to a server that knows that it is up, or awaits it.
AtHome(b, k) ==
  /\ servers[k].block = b /\ proc[b].place = k
  /\ \/ servers[k].status = 1 /\ servers[k].hasPid /\ proc[b].phase = "up"
     \/ pc = "wait" /\ i = k
Known == \A b \in Blocks : Live(b) => (Once => proc[b].home) /\ \E k \in DOMAIN servers : AtHome(b, k)

\* Where the loops of the runner are.
Counted ==
  /\ pc \in {"check", "count", "evaluate", "start", "wait"} => test.reqs # <<>>
  /\ pc = "count" => Len(test.reqs) < i
  /\ pc \in {"evaluate", "start", "wait"} => Len(servers) = Len(test.reqs)
  /\ pc = "wait" => i \in DOMAIN servers

\* Which servers are stopped when.  A native test leaves them stopped, or failed.
Rested(k) ==
  /\ pc = "wait" /\ k = i => Idle(k)
  /\ pc = "count" /\ Len(test.reqs) < k /\ k < i => Idle(k)
  /\ Once /\ pc = "evaluate" /\ k < i /\ k \in test.loads => Idle(k)
  /\ pc \in {"cleanup", "after"} /\ k < i => Idle(k)
  /\ pc = "free" => Idle(k)
  /\ pc = "ended" /\ ~conf.startandexit => Idle(k)
  /\ Native /\ pc \in {"next", "check", "record"} => Idle(k) \/ servers[k].failed
  /\ Native /\ pc = "check" /\ k < i => Idle(k)
  /\ Native /\ pc \in {"count", "evaluate"} => Idle(k)
  /\ pc = "ready" /\ status = "fail" => servers[k].failed
AllRested == \A k \in DOMAIN servers : Rested(k)

\* Unless tests are repeated, the runner's options never reach a server, and none holds the list of
\* the test that is being prepared before it is given it.
Plain(k) ==
  /\ servers[k].opts \cap RunnerOptions = {}
  /\ pc \in {"check", "count"} \/ (pc = "evaluate" /\ i <= k) => ~servers[k].sameList
AllPlain == Once => \A k \in DOMAIN servers : Plain(k)

\* From here on no test is prepared or run.
CleaningUp == pc \in {"cleanup", "free", "ended"}

IInv == ~Hangs /\ TypeOK /\ Apart /\ Held /\ Known /\ Counted /\ AllRested /\ AllPlain
-----------------------------------------------------------------------------
(* Facts about the state.                                                    *)
LEMMA Listed ==
  ASSUME TypeOK
  PROVE  /\ DOMAIN servers = 1 .. Len(servers) /\ Len(servers) \in Nat /\ Len(servers) # 0
         /\ Len(servers) <= MaxServers
         /\ \A k \in DOMAIN servers : servers[k] \in Server /\ k \in Places
  BY ConstantsAssumption DEF TypeOK, Places

\* What is known of the current test.
LEMMA TestTyped ==
  ASSUME TypeOK
  PROVE  /\ test.reqs \in Seq(SUBSET Options) /\ Len(test.reqs) \in Nat
         /\ Len(test.reqs) <= MaxServers
         /\ test.loads \subseteq Places /\ \A k \in test.loads : k <= Len(test.reqs)
  <1>1. CASE test = NoTest
    BY <1>1, ConstantsAssumption DEF NoTest
  <1>2. CASE test \in TestKinds
    BY <1>2, ConstantsAssumption
  <1> QED
    BY <1>1, <1>2 DEF TypeOK

\* A server that is not up, and not being started, has no process.
LEMMA IdleIsDead ==
  ASSUME IInv, NEW k \in DOMAIN servers, Idle(k), ~(pc = "wait" /\ i = k)
  PROVE  ~Live(servers[k].block)
  <1>1. servers[k].block \in Blocks
    BY Listed DEF IInv, Server
  <1> QED
    BY <1>1 DEF IInv, Known, AtHome, Apart, Idle

\* Outside of a start, a server's process is up and has its pid recorded.
LEMMA AllUp ==
  ASSUME IInv, pc # "wait", NEW k \in DOMAIN servers, Live(servers[k].block)
  PROVE  /\ Answers(servers[k]) /\ servers[k].hasPid /\ servers[k].status = 1
         /\ proc[servers[k].block].place = k
  <1>1. servers[k].block \in Blocks
    BY Listed DEF IInv, Server
  <1> QED
    BY <1>1 DEF IInv, Known, AtHome, Apart, Answers

\* The mark of a ping that found no answer is all that it changes of a process.
LEMMA OnlyMarked ==
  ASSUME proc \in [Blocks -> Process], NEW b \in Blocks, NEW m \in BOOLEAN,
         NEW P, P = [proc EXCEPT ![b].missed = m]
  PROVE  /\ P \in [Blocks -> Process] /\ P[b].missed = m
         /\ \A c \in Blocks : c # b => P[c] = proc[c]
         /\ \A c \in Blocks : /\ P[c].phase = proc[c].phase /\ P[c].place = proc[c].place
                              /\ P[c].home = proc[c].home /\ P[c].opts = proc[c].opts
                              /\ P[c].since = proc[c].since
  <1> DEFINE p == [proc[b] EXCEPT !.missed = m]
  <1>1. proc[b] \in Process
    OBVIOUS
  <1>2. /\ p \in Process /\ p.phase = proc[b].phase /\ p.place = proc[b].place
        /\ p.home = proc[b].home /\ p.opts = proc[b].opts /\ p.since = proc[b].since /\ p.missed = m
    BY <1>1 DEF Process
  <1>3. P = [proc EXCEPT ![b] = p]
    OBVIOUS
  <1> HIDE DEF p
  <1>4. P \in [Blocks -> Process] /\ \A c \in Blocks : P[c] = IF c = b THEN p ELSE proc[c]
    BY <1>2, <1>3
  <1> QED
    BY <1>2, <1>4

\* So stop() raises nothing, and leaves the server without a process.
LEMMA StopsCleanly ==
  ASSUME IInv, pc # "wait", NEW k \in DOMAIN servers
  PROVE  /\ ~StopRaises(servers[k])
         /\ StopProc(servers[k]) \in [Blocks -> Process]
         /\ StopProc(servers[k])[servers[k].block].phase = "none"
         /\ \A b \in Blocks : b # servers[k].block => StopProc(servers[k])[b] = proc[b]
         /\ \A b \in Blocks : StopProc(servers[k])[b].phase # "none" => StopProc(servers[k])[b] = proc[b]
  <1>1. servers[k].block \in Blocks
    BY Listed DEF IInv, Server
  <1>2. NoProc \in Process
    BY ConstantsAssumption DEF NoProc, Process, Places
  <1>3. proc \in [Blocks -> Process]
    BY DEF IInv, TypeOK
  <1>4. CASE Live(servers[k].block)
    <2>1. Answers(servers[k]) /\ servers[k].hasPid
      BY <1>4, AllUp
    <2>2. StopProc(servers[k]) = [proc EXCEPT ![servers[k].block] = NoProc]
      BY <2>1 DEF StopProc
    <2>3. NoProc.phase = "none"
      BY DEF NoProc
    <2> QED
      BY <1>1, <1>2, <1>3, <2>1, <2>2, <2>3 DEF StopRaises
  <1>5. CASE ~Live(servers[k].block)
    <2>1. ~Answers(servers[k])
      BY <1>5 DEF Answers, Live
    <2>2. StopProc(servers[k]) = Miss(servers[k].block)
      BY <2>1 DEF StopProc
    <2>3. proc[servers[k].block].phase = "none"
      BY <1>5 DEF Live
    <2>4. Live(servers[k].block) \in BOOLEAN
      BY DEF Live
    <2> DEFINE P == StopProc(servers[k])
    <2>5. P = [proc EXCEPT ![servers[k].block].missed = Live(servers[k].block)]
      BY <2>2 DEF Miss
    <2> HIDE DEF P
    <2>6. /\ P \in [Blocks -> Process] /\ \A c \in Blocks : c # servers[k].block => P[c] = proc[c]
          /\ \A c \in Blocks : P[c].phase = proc[c].phase
      BY <1>1, <1>3, <2>4, <2>5, OnlyMarked
    <2>7. \A c \in Blocks : P[c].phase # "none" => P[c] = proc[c]
      BY <1>1, <2>3, <2>6
    <2> QED
      BY <1>1, <2>1, <2>3, <2>6, <2>7 DEF StopRaises, P
  <1> QED
    BY <1>4, <1>5

\* No process is lost when those that go on are where they were.
LEMMA KnownStays ==
  ASSUME Known, pc # "wait",
         \A b \in Blocks : Live(b)' =>
            /\ Live(b) /\ proc'[b].phase = proc[b].phase /\ proc'[b].place = proc[b].place
            /\ Once => proc'[b].home = proc[b].home,
         \A k \in DOMAIN servers : proc'[servers[k].block].phase # "none" =>
            /\ k \in DOMAIN servers' /\ servers'[k].block = servers[k].block
            /\ servers'[k].status = servers[k].status /\ servers'[k].hasPid = servers[k].hasPid
  PROVE  Known'
  <1> SUFFICES ASSUME NEW b \in Blocks, Live(b)'
               PROVE  (Once => proc'[b].home) /\ \E k \in DOMAIN servers' : AtHome(b, k)'
    BY DEF Known
  <1>1. /\ Live(b) /\ proc'[b].phase = proc[b].phase /\ proc'[b].place = proc[b].place
        /\ Once => proc'[b].home = proc[b].home
    OBVIOUS
  <1>2. Once => proc[b].home
    BY <1>1 DEF Known
  <1>3. PICK k \in DOMAIN servers : AtHome(b, k)
    BY <1>1 DEF Known
  <1>4. /\ servers[k].block = b /\ proc[b].place = k
        /\ servers[k].status = 1 /\ servers[k].hasPid /\ proc[b].phase = "up"
    BY <1>3 DEF AtHome
  <1>5. /\ k \in DOMAIN servers' /\ servers'[k].block = b
        /\ servers'[k].status = 1 /\ servers'[k].hasPid
    BY <1>1, <1>4 DEF Live
  <1>6. AtHome(b, k)' /\ k \in DOMAIN servers'
    BY <1>1, <1>4, <1>5 DEF AtHome
  <1> QED
    BY <1>1, <1>2, <1>6

\* Changing one server of the list.
LEMMA OneChanged ==
  ASSUME NEW s \in Server, NEW k \in DOMAIN servers, servers \in Seq(Server),
         servers' = [servers EXCEPT ![k] = s]
  PROVE  /\ servers' \in Seq(Server) /\ Len(servers') = Len(servers)
         /\ DOMAIN servers' = DOMAIN servers
         /\ \A j \in DOMAIN servers : servers'[j] = IF j = k THEN s ELSE servers[j]
  OBVIOUS

\* A copied data directory is taken from no process that goes on.
LEMMA NoneEvicted ==
  ASSUME NEW P \in [Blocks -> Process], NEW k \in Places,
         \A b \in Blocks : P[b].phase # "none" => P[b].place # k
  PROVE  Evicted(P, k) \in [Blocks -> Process] /\ \A b \in Blocks : Evicted(P, k)[b] = P[b]
  BY DEF Evicted

\* The server at the runner's place is reset: its process is gone, the others go on.
LEMMA ResetIsClean ==
  ASSUME IInv, pc # "wait", i \in DOMAIN servers,
         NEW s \in Server, s.block = servers[i].block, s.hasPid = servers[i].hasPid,
         NEW p \in Points, ResetServer(s, p)
  PROVE  /\ Goto(p, i + 1)
         /\ servers' = [servers EXCEPT ![i] =
                          [s EXCEPT !.status = 0, !.failed = FALSE, !.needReset = FALSE]]
         /\ servers' \in Seq(Server) /\ Len(servers') = Len(servers)
         /\ datadir' = [datadir EXCEPT ![i] = "clean"]
         /\ proc' \in [Blocks -> Process] /\ Known' /\ Apart'
         /\ proc'[s.block].phase = "none"
         /\ \A b \in Blocks : Live(b)' => Live(b) /\ proc'[b] = proc[b] /\ b # s.block
  <1> DEFINE P == StopProc(servers[i])
             t == [s EXCEPT !.status = 0, !.failed = FALSE, !.needReset = FALSE]
  <1>1. StopProc(s) = P /\ StopRaises(s) = StopRaises(servers[i])
    BY DEF StopProc, StopRaises, Answers
  <1>2. /\ ~StopRaises(servers[i]) /\ P \in [Blocks -> Process] /\ P[servers[i].block].phase = "none"
        /\ \A b \in Blocks : P[b].phase # "none" => P[b] = proc[b]
    BY StopsCleanly
  <1>3. /\ Goto(p, i + 1) /\ proc' = Evicted(P, i)
        /\ datadir' = [datadir EXCEPT ![i] = "clean"] /\ servers' = [servers EXCEPT ![i] = t]
    BY <1>1, <1>2 DEF IInv, Lingers, ResetServer
  <1>4. i \in Places /\ servers[i].block \in Blocks /\ servers \in Seq(Server)
    BY Listed DEF IInv, TypeOK, Server
  <1> HIDE DEF P
  <1>5. ASSUME NEW b \in Blocks, P[b].phase # "none"
        PROVE  Live(b) /\ P[b] = proc[b] /\ b # servers[i].block /\ P[b].place # i
    <2>1. P[b] = proc[b] /\ b # servers[i].block
      BY <1>2, <1>5
    <2>2. Live(b)
      BY <1>5, <2>1 DEF Live
    <2>3. PICK k \in DOMAIN servers : servers[k].block = b /\ proc[b].place = k
      BY <2>2 DEF IInv, Known, AtHome
    <2> QED
      BY <2>1, <2>2, <2>3
  <1>6. proc' \in [Blocks -> Process] /\ \A b \in Blocks : proc'[b] = P[b]
    BY <1>2, <1>3, <1>4, <1>5, NoneEvicted
  <1>7. \A b \in Blocks : Live(b)' => Live(b) /\ proc'[b] = proc[b] /\ b # s.block
    BY <1>5, <1>6 DEF Live
  <1>8. t \in Server /\ t.block = servers[i].block
    BY DEF Server
  <1> HIDE DEF t
  <1>9. /\ servers' \in Seq(Server) /\ Len(servers') = Len(servers) /\ DOMAIN servers' = DOMAIN servers
        /\ \A j \in DOMAIN servers : servers'[j] = IF j = i THEN t ELSE servers[j]
    BY <1>3, <1>4, <1>8, OneChanged
  <1>10. \A j \in DOMAIN servers : servers'[j].block = servers[j].block
    BY <1>8, <1>9
  <1>11. Apart'
    BY <1>9, <1>10 DEF IInv, Apart
  <1>12. \A k \in DOMAIN servers : proc'[servers[k].block].phase # "none" => servers'[k] = servers[k]
    BY <1>2, <1>6, <1>9
  <1>13. Known'
    BY <1>7, <1>9, <1>12, KnownStays DEF IInv
  <1> QED
    BY <1>2, <1>3, <1>4, <1>6, <1>7, <1>9, <1>11, <1>13 DEF t

\* The server at the runner's place is stopped.
LEMMA StopIsClean ==
  ASSUME IInv, pc # "wait", i \in DOMAIN servers, NEW p \in Points, Stop(p)
  PROVE  /\ Goto(p, i + 1) /\ servers' = [servers EXCEPT ![i].status = 0]
         /\ servers' \in Seq(Server) /\ Len(servers') = Len(servers)
         /\ proc' \in [Blocks -> Process] /\ Known' /\ Apart'
         /\ \A b \in Blocks : Live(b)' => Live(b) /\ proc'[b] = proc[b] /\ b # servers[i].block
  <1> DEFINE P == StopProc(servers[i])
             t == [servers[i] EXCEPT !.status = 0]
  <1>1. /\ ~StopRaises(servers[i]) /\ P \in [Blocks -> Process] /\ P[servers[i].block].phase = "none"
        /\ \A b \in Blocks : P[b].phase # "none" => P[b] = proc[b]
    BY StopsCleanly
  <1>2. Goto(p, i + 1) /\ proc' = P /\ servers' = [servers EXCEPT ![i] = t]
    BY <1>1 DEF IInv, Lingers, Stop
  <1>3. t \in Server /\ t.block = servers[i].block /\ servers \in Seq(Server)
    <2>1. servers[i] \in Server /\ servers \in Seq(Server)
      BY Listed DEF IInv, TypeOK
    <2> QED
      BY <2>1 DEF Server
  <1>4. servers' = [servers EXCEPT ![i].status = 0]
    BY <1>2
  <1> HIDE DEF P, t
  <1>5. /\ servers' \in Seq(Server) /\ Len(servers') = Len(servers) /\ DOMAIN servers' = DOMAIN servers
        /\ \A j \in DOMAIN servers : servers'[j] = IF j = i THEN t ELSE servers[j]
    BY <1>2, <1>3, OneChanged
  <1>6. Apart'
    BY <1>3, <1>5 DEF IInv, Apart
  <1>7. \A b \in Blocks : Live(b)' => Live(b) /\ proc'[b] = proc[b] /\ b # servers[i].block
    BY <1>1, <1>2 DEF Live
  <1>8. \A k \in DOMAIN servers : proc'[servers[k].block].phase # "none" => servers'[k] = servers[k]
    BY <1>1, <1>2, <1>5
  <1>9. Known'
    BY <1>5, <1>7, <1>8, KnownStays DEF IInv
  <1> QED
    BY <1>1, <1>2, <1>4, <1>5, <1>6, <1>7, <1>9

\* What a step leaves as it is when it touches no server and no process.
LEMMA Untouched ==
  ASSUME IInv, UNCHANGED <<servers, proc>>, pc # "wait"
  PROVE  Apart' /\ Known'
  <1>1. Apart'
    BY DEF IInv, Apart
  <1>2. Known'
    BY KnownStays DEF IInv, Live
  <1> QED
    BY <1>1, <1>2
-----------------------------------------------------------------------------
(* The steps, in the order of the specification.                             *)
LEMMA InitTypes == ASSUME Init PROVE TypeOK
  <1>1. PICK b \in Blocks : servers = <<NewServer(b)>> /\ locked = {b}
    BY DEF Init
  <1>2. NewServer(b) \in Server /\ NewServer(b).block = b /\ NewServer(b).opts = {} /\ NewServer(b).status = 0
    BY DEF NewServer, Server
  <1>3. servers \in Seq(Server) /\ Len(servers) = 1 /\ DOMAIN servers = {1} /\ servers[1] = NewServer(b)
    BY <1>1, <1>2
  <1>4. NoProc \in Process /\ NoProc.phase = "none" /\ 1 \in Places
    BY ConstantsAssumption DEF NoProc, Process, Places
  <1> QED
    <2>1. /\ conf \in [mode : Modes, force : BOOLEAN, startandexit : BOOLEAN]
          /\ pc \in Points /\ i \in Nat \ {0} /\ status \in Outcomes
      BY DEF Init, Points, Outcomes
    <2>6. badStart \in BOOLEAN
      BY DEF Init
    <2>5. ran \in 0 .. MaxTests /\ rep \in 1 .. Repeat
      <3>1. ran = 0 /\ rep = Repeat
        BY DEF Init
      <3>2. MaxTests \in Nat /\ Repeat \in Nat \ {0}
        BY ConstantsAssumption
      <3> QED
        BY <3>1, <3>2
    <2>2. test = NoTest /\ want = <<>> /\ Len(want) = Len(test.reqs) /\ want \in Seq(SUBSET Options)
      BY DEF Init, NoTest
    <2>3. proc \in [Blocks -> Process] /\ locked \subseteq Blocks
          /\ datadir \in [Places -> {"clean", "loaded", "dirty"}]
      BY <1>1, <1>4 DEF Init
    <2> QED
      BY <1>3, <1>4, <2>1, <2>2, <2>3, <2>5, <2>6 DEF TypeOK

\* The runner starts with one server, that is not up.
LEMMA InitIsRight == ASSUME ~Hangs, Init PROVE IInv
  <1>1. PICK b \in Blocks : servers = <<NewServer(b)>> /\ locked = {b}
    BY DEF Init
  <1>2. NewServer(b) \in Server /\ NewServer(b).block = b /\ NewServer(b).opts = {} /\ NewServer(b).status = 0
    BY DEF NewServer, Server
  <1>3. servers \in Seq(Server) /\ Len(servers) = 1 /\ DOMAIN servers = {1} /\ servers[1] = NewServer(b)
    BY <1>1, <1>2
  <1>4. NoProc \in Process /\ NoProc.phase = "none" /\ 1 \in Places
    BY ConstantsAssumption DEF NoProc, Process, Places
  <1>5. TypeOK
    BY InitTypes
  <1>6. Apart /\ Held
    BY <1>1, <1>2, <1>3 DEF Apart, Held
  <1>7. Known
    BY <1>4 DEF Known, Live, Init
  <1>8. Counted /\ AllRested /\ AllPlain
    BY <1>2, <1>3 DEF Init, Counted, AllRested, Rested, AllPlain, Plain, Idle
  <1> QED
    BY <1>5, <1>6, <1>7, <1>8 DEF IInv

\* The list of the test is nobody else's yet.
LEMMA GetTestCaseIsRight == ASSUME IInv, GetTestCase PROVE IInv'
  <1>1. PICK t \in TestKinds : test' = t /\ want' = t.reqs /\ Requested(t)
    BY DEF GetTestCase
  <1>2. /\ pc = "next" /\ ran < MaxTests /\ ran' = ran + 1 /\ rep' = 1
        /\ status' = "none" /\ badStart' = FALSE
        /\ servers' = [k \in DOMAIN servers |-> [servers[k] EXCEPT !.sameList = FALSE]]
        /\ UNCHANGED <<conf, proc, datadir, locked>>
    BY DEF GetTestCase, At
  <1>3. t.reqs \in Seq(SUBSET Options) /\ Len(t.reqs) \in Nat
    BY <1>1, ConstantsAssumption
  <1>4. pc' \in {"ready", "check"} /\ i' = 1 /\ (pc' = "check" => t.reqs # <<>>)
    BY <1>1 DEF Requested, Goto
  <1>5. /\ servers' \in Seq(Server) /\ Len(servers') = Len(servers) /\ DOMAIN servers' = DOMAIN servers
        /\ \A k \in DOMAIN servers : servers'[k] = [servers[k] EXCEPT !.sameList = FALSE]
    <2>1. \A k \in DOMAIN servers : [servers[k] EXCEPT !.sameList = FALSE] \in Server
      BY Listed DEF IInv, Server
    <2> QED
      BY <1>2, <2>1, Listed DEF IInv
  <1>6. TypeOK'
    <2>1. ran' \in 0 .. MaxTests /\ rep' \in 1 .. Repeat
      BY <1>2, ConstantsAssumption DEF IInv, TypeOK
    <2>2. test' \in TestKinds /\ want' \in Seq(SUBSET Options) /\ Len(want') = Len(test'.reqs)
      BY <1>1, <1>3
    <2>3. pc' \in Points /\ i' \in Nat \ {0} /\ status' \in Outcomes
      BY <1>2, <1>4 DEF Points, Outcomes
    <2>5. badStart' \in BOOLEAN
      BY <1>2
    <2>4. servers' \in Seq(Server) /\ Len(servers') \in Places
      BY <1>5 DEF IInv, TypeOK
    <2> QED
      BY <1>2, <2>1, <2>2, <2>3, <2>4, <2>5 DEF IInv, TypeOK
  <1>7. \A k \in DOMAIN servers :
          /\ servers'[k].block = servers[k].block /\ servers'[k].status = servers[k].status
          /\ servers'[k].hasPid = servers[k].hasPid /\ servers'[k].failed = servers[k].failed
          /\ servers'[k].opts = servers[k].opts /\ ~servers'[k].sameList
    BY <1>5, Listed DEF IInv, Server
  <1>8. Apart' /\ Held'
    BY <1>2, <1>4, <1>5, <1>7 DEF IInv, Apart, Held
  <1>9. Known'
    BY <1>2, <1>5, <1>7, KnownStays DEF IInv, Live
  <1>10. Counted' /\ AllRested' /\ AllPlain'
    BY <1>1, <1>2, <1>4, <1>5, <1>7, Listed
    DEF IInv, Counted, AllRested, Rested, Idle, Native, AllPlain, Plain
  <1> QED
    BY <1>6, <1>8, <1>9, <1>10 DEF IInv

\* Steps of the runner that touch neither servers nor processes.
LEMMA QuietSteps ==
  ASSUME IInv,
         \/ NoMoreTests \/ AlreadyRunning \/ Ready \/ RecordTestResult \/ CleanupAllServers
         \/ StartAndExit \/ (pc # "wait" /\ Interrupt)
  PROVE  IInv'
  <1>1. UNCHANGED <<conf, tested, servers, proc, datadir>> /\ pc # "wait" /\ pc' # "wait"
    BY DEF NoMoreTests, AlreadyRunning, Ready, RecordTestResult, CleanupAllServers, StartAndExit,
           Interrupt, At, Goto, objects
  <1>2. Apart' /\ Known'
    BY <1>1, Untouched
  <1>3. CASE NoMoreTests
    <2>1. pc = "next" /\ pc' = "cleanup" /\ i' = 1 /\ UNCHANGED <<locked, judged>>
      BY <1>3 DEF NoMoreTests, At, Goto
    <2>2. TypeOK'
      BY <1>1, <2>1 DEF IInv, TypeOK, Points, tested, judged
    <2>3. Held' /\ Counted' /\ AllRested' /\ AllPlain'
      BY <1>1, <2>1, Listed DEF IInv, Held, Counted, AllRested, Rested, Idle, Native, AllPlain, Plain, tested
    <2> QED
      BY <1>2, <2>2, <2>3 DEF IInv
  <1>4. CASE AlreadyRunning
    <2>1. pc = "start" /\ pc' = "start" /\ i' = i + 1 /\ UNCHANGED <<locked, judged>>
      BY <1>4 DEF AlreadyRunning, At, Goto
    <2>2. TypeOK'
      BY <1>1, <2>1 DEF IInv, TypeOK, Points, tested, judged
    <2>3. Held' /\ Counted' /\ AllRested' /\ AllPlain'
      BY <1>1, <2>1 DEF IInv, Held, Counted, AllRested, Rested, Idle, Native, AllPlain, Plain, tested
    <2> QED
      BY <1>2, <2>2, <2>3 DEF IInv
  <1>5. CASE Ready
    <2>1. /\ pc = "ready" /\ i' = 1 /\ UNCHANGED <<locked, judged>>
          /\ pc' = IF status = "fail" THEN "record" ELSE "run"
      BY <1>5 DEF Ready, At, Goto
    <2>2. TypeOK'
      BY <1>1, <2>1 DEF IInv, TypeOK, Points, tested, judged
    <2>3. Held' /\ Counted' /\ AllRested' /\ AllPlain'
      BY <1>1, <2>1 DEF IInv, Held, Counted, AllRested, Rested, Idle, Native, AllPlain, Plain, tested
    <2> QED
      BY <1>2, <2>2, <2>3 DEF IInv
  <1>6. CASE RecordTestResult
    <2>1. /\ pc = "record" /\ i' = 1 /\ pc' \in {"cleanup", "next"}
          /\ UNCHANGED <<locked, judged>>
      BY <1>6 DEF RecordTestResult, At, Goto
    <2>2. TypeOK'
      BY <1>1, <2>1 DEF IInv, TypeOK, Points, tested, judged
    <2>3. Held' /\ Counted' /\ AllRested' /\ AllPlain'
      BY <1>1, <2>1, Listed DEF IInv, Held, Counted, AllRested, Rested, Idle, Native, AllPlain, Plain, tested
    <2> QED
      BY <1>2, <2>2, <2>3 DEF IInv
  <1>7. CASE CleanupAllServers \/ StartAndExit
    <2>1. /\ pc = "free" \/ conf.startandexit
          /\ pc' = "ended" /\ i' = 1 /\ locked' \subseteq locked /\ UNCHANGED judged
      BY <1>7 DEF CleanupAllServers, StartAndExit, At, Goto
    <2>2. TypeOK'
      BY <1>1, <2>1 DEF IInv, TypeOK, Points, tested, judged
    <2>3. Held' /\ Counted' /\ AllRested' /\ AllPlain'
      BY <1>1, <2>1, Listed DEF IInv, Held, Counted, AllRested, Rested, Idle, Native, AllPlain, Plain, tested
    <2> QED
      BY <1>2, <2>2, <2>3 DEF IInv
  <1>8. CASE Interrupt
    <2>1. /\ pc' = IF conf.startandexit THEN "ended" ELSE "cleanup"
          /\ i' = 1 /\ pc # "ended" /\ UNCHANGED <<locked, judged>>
      BY <1>8 DEF Interrupt, Goto
    <2>2. TypeOK'
      BY <1>1, <2>1 DEF IInv, TypeOK, Points, tested, judged
    <2>3. Held' /\ Counted' /\ AllRested' /\ AllPlain'
      BY <1>1, <2>1, Listed DEF IInv, Held, Counted, AllRested, Rested, Idle, Native, AllPlain, Plain, tested
    <2> QED
      BY <1>2, <2>2, <2>3 DEF IInv
  <1> QED
    BY <1>3, <1>4, <1>5, <1>6, <1>7, <1>8

\* A test is repeated with the servers as they are.
LEMMA RepeatTestIsRight == ASSUME IInv, RepeatTest PROVE IInv'
  <1>1. /\ pc = "next" /\ i' = 1 /\ rep' = rep + 1 /\ rep < Repeat /\ status' = "none" /\ badStart' = FALSE
        /\ (test.reqs = <<>> /\ pc' = "ready") \/ (test.reqs # <<>> /\ pc' = "check")
        /\ UNCHANGED <<conf, test, want, ran, servers, proc, datadir, locked>>
    BY DEF RepeatTest, Requested, At, Goto, objects
  <1>2. rep \in Nat /\ Repeat \in Nat /\ ~Once
    <2>1. Repeat \in Nat \ {0} /\ rep \in 1 .. Repeat
      BY ConstantsAssumption DEF IInv, TypeOK
    <2> QED
      BY <1>1, <2>1 DEF Once
  <1>3. Apart' /\ Known'
    BY <1>1, Untouched
  <1>4. TypeOK'
    <2>1. rep' \in 1 .. Repeat
      BY <1>1, <1>2 DEF IInv, TypeOK
    <2>2. pc' = "ready" \/ pc' = "check"
      BY <1>1, Zenon
    <2>3. i' = 1 /\ status' = "none" /\ badStart' = FALSE
      BY <1>1
    <2>4. pc' \in Points
      BY <2>2 DEF Points
    <2>5. i' \in Nat \ {0}
      BY <2>3
    <2>6. status' \in Outcomes
      BY <2>3 DEF Outcomes
    <2>7. badStart' \in BOOLEAN
      BY <2>3
    <2> QED
      BY <1>1, <2>1, <2>4, <2>5, <2>6, <2>7 DEF IInv, TypeOK
  <1>5. Held' /\ Counted' /\ AllRested' /\ AllPlain'
    BY <1>1, <1>2, Listed DEF IInv, Held, Counted, AllRested, Rested, Idle, Native, AllPlain
  <1> QED
    BY <1>3, <1>4, <1>5 DEF IInv

\* The servers of a failed test are reset before anything else.
LEMMA CheckServerStatusIsRight == ASSUME IInv, CheckServerStatus PROVE IInv'
  <1>1. pc = "check" /\ UNCHANGED <<conf, tested, locked, judged>>
    BY DEF CheckServerStatus, At
  <1>2. i \in Nat /\ i # 0 /\ Len(servers) \in Nat
    BY Listed DEF IInv, TypeOK
  <1>3. CASE i > Len(servers)
    <2>1. pc' = "count" /\ i' = Len(test.reqs) + 1 /\ UNCHANGED objects
      BY <1>2, <1>3 DEF CheckServerStatus, Goto
    <2>2. Apart' /\ Known'
      BY <1>1, <2>1, Untouched DEF objects
    <2>3. TypeOK'
      BY <1>1, <2>1, TestTyped DEF IInv, TypeOK, Points, tested, judged, objects
    <2>4. Held' /\ Counted'
      BY <1>1, <2>1, TestTyped DEF IInv, Held, Counted, tested, objects
    <2>5. AllRested'
      BY <1>1, <1>2, <1>3, <2>1, Listed, TestTyped
      DEF IInv, AllRested, Rested, Idle, Native, tested, objects
    <2>6. AllPlain'
      BY <1>1, <2>1 DEF IInv, AllPlain, Plain, tested, objects
    <2> QED
      BY <2>2, <2>3, <2>4, <2>5, <2>6 DEF IInv
  <1>4. CASE i <= Len(servers) /\ ~servers[i].failed
    <2>1. pc' = "check" /\ i' = i + 1 /\ UNCHANGED objects
      BY <1>2, <1>4 DEF CheckServerStatus, Goto
    <2>2. Apart' /\ Known'
      BY <1>1, <2>1, Untouched DEF objects
    <2>3. TypeOK'
      BY <1>1, <2>1 DEF IInv, TypeOK, Points, tested, judged, objects
    <2>4. Held' /\ Counted' /\ AllPlain'
      BY <1>1, <2>1 DEF IInv, Held, Counted, AllPlain, Plain, tested, objects
    <2>5. AllRested'
      BY <1>1, <1>4, <2>1, Listed
      DEF IInv, TypeOK, AllRested, Rested, Idle, Native, tested, objects
    <2> QED
      BY <2>2, <2>3, <2>4, <2>5 DEF IInv
  <1>5. CASE i <= Len(servers) /\ servers[i].failed
    <2> DEFINE t == [servers[i] EXCEPT !.status = 0, !.failed = FALSE, !.needReset = FALSE]
    <2>1. ResetServer(servers[i], "check")
      BY <1>2, <1>5 DEF CheckServerStatus
    <2>2. i \in DOMAIN servers /\ servers[i] \in Server /\ "check" \in Points
      BY <1>5, Listed DEF IInv, TypeOK, Points
    <2>3. /\ pc' = "check" /\ i' = i + 1 /\ servers' = [servers EXCEPT ![i] = t]
          /\ servers' \in Seq(Server) /\ Len(servers') = Len(servers)
          /\ datadir' = [datadir EXCEPT ![i] = "clean"] /\ proc' \in [Blocks -> Process]
          /\ Known' /\ Apart'
      BY <1>1, <2>1, <2>2, ResetIsClean DEF Goto
    <2>4. t.block = servers[i].block /\ t.status = 0 /\ t.opts = servers[i].opts /\ t.sameList = servers[i].sameList
      BY <2>2 DEF Server
    <2>5. /\ DOMAIN servers' = DOMAIN servers
          /\ \A k \in DOMAIN servers : servers'[k] = IF k = i THEN t ELSE servers[k]
      BY <2>2, <2>3
    <2> HIDE DEF t
    <2>6. TypeOK'
      <3>1. datadir' \in [Places -> {"clean", "loaded", "dirty"}]
        BY <2>3 DEF IInv, TypeOK
      <3>2. pc' \in Points /\ i' \in Nat \ {0}
        BY <1>2, <2>3 DEF Points
      <3>3. servers' \in Seq(Server) /\ Len(servers') \in Places
        BY <2>3 DEF IInv, TypeOK
      <3> QED
        BY <1>1, <2>3, <3>1, <3>2, <3>3 DEF IInv, TypeOK, tested, judged
    <2>7. Held' /\ Counted' /\ AllPlain'
      BY <1>1, <2>3, <2>4, <2>5 DEF IInv, Held, Counted, AllPlain, Plain, tested
    <2>8. AllRested'
      BY <1>1, <2>3, <2>4, <2>5, Listed DEF IInv, TypeOK, AllRested, Rested, Idle, Native, tested
    <2> QED
      BY <2>3, <2>6, <2>7, <2>8 DEF IInv
  <1> QED
    BY <1>2, <1>3, <1>4, <1>5

\* A new server gets ports and a place that no process has.
LEMMA AllocateServerIsRight == ASSUME IInv, AllocateServer PROVE IInv'
  <1>1. /\ pc = "count" /\ Len(servers) < Len(test.reqs)
        /\ proc' = Evicted(proc, Len(servers) + 1)
        /\ datadir' = [datadir EXCEPT ![Len(servers) + 1] = "clean"]
        /\ UNCHANGED <<conf, pc, i, tested, judged>>
    BY DEF AllocateServer, At
  <1>2. PICK b \in FreeBlocks : servers' = Append(servers, NewServer(b)) /\ locked' = locked \cup {b}
    BY DEF AllocateServer
  <1>3. b \in Blocks /\ b \notin locked
    BY <1>2 DEF FreeBlocks
  <1>4. /\ NewServer(b) \in Server /\ NewServer(b).block = b /\ NewServer(b).opts = {}
        /\ NewServer(b).status = 0 /\ ~NewServer(b).sameList
    BY <1>3 DEF NewServer, Server
  <1> DEFINE n == Len(servers) + 1
  <1>5. n \in Places /\ n \in Nat
    BY <1>1, Listed, TestTyped, ConstantsAssumption DEF IInv, Places
  <1>6. /\ servers' \in Seq(Server) /\ Len(servers') = n /\ DOMAIN servers' = 1 .. n
        /\ \A k \in DOMAIN servers : k # n /\ servers'[k] = servers[k]
        /\ servers'[n] = NewServer(b) /\ DOMAIN servers = 1 .. n - 1
    BY <1>2, <1>4, Listed DEF IInv, TypeOK
  <1>7. \A c \in Blocks : proc[c].phase # "none" => proc[c].place # n
    <2> SUFFICES ASSUME NEW c \in Blocks, proc[c].phase # "none"
                 PROVE  proc[c].place # n
      OBVIOUS
    <2>1. PICK k \in DOMAIN servers : proc[c].place = k
      BY DEF IInv, Known, AtHome, Live
    <2> QED
      BY <1>6, <2>1
  <1>8. proc' \in [Blocks -> Process] /\ \A c \in Blocks : proc'[c] = proc[c]
    BY <1>1, <1>5, <1>7, NoneEvicted DEF IInv, TypeOK
  <1>9. TypeOK'
    <2>1. datadir' \in [Places -> {"clean", "loaded", "dirty"}] /\ locked' \subseteq Blocks
      BY <1>1, <1>2, <1>3 DEF IInv, TypeOK
    <2> QED
      BY <1>1, <1>5, <1>6, <1>8, <2>1 DEF IInv, TypeOK, tested, judged
  <1> HIDE DEF n
  <1>10. \A k \in DOMAIN servers' : k = n \/ k \in DOMAIN servers
    BY <1>5, <1>6
  <1>11. \A k \in DOMAIN servers : servers[k].block \in locked
    BY <1>1 DEF IInv, Held
  <1>12. Apart' /\ Held'
    BY <1>2, <1>3, <1>4, <1>6, <1>10, <1>11 DEF IInv, Apart, Held
  <1>13. Known'
    <2>1. DOMAIN servers \subseteq DOMAIN servers'
      BY <1>5, <1>6
    <2> QED
      BY <1>1, <1>6, <1>8, <2>1, KnownStays DEF IInv, Live
  <1>14. Counted'
    BY <1>1 DEF IInv, Counted, tested
  <1>15. AllRested' /\ AllPlain'
    BY <1>1, <1>4, <1>6, <1>10 DEF IInv, AllRested, Rested, Idle, Native, AllPlain, Plain, tested
  <1> QED
    BY <1>9, <1>12, <1>13, <1>14, <1>15 DEF IInv

\* What stop() changes of the server at the runner's place.
LEMMA StoppedServer ==
  ASSUME TypeOK, i \in DOMAIN servers, servers' = [servers EXCEPT ![i].status = 0]
  PROVE  /\ DOMAIN servers' = DOMAIN servers
         /\ servers'[i].status = 0
         /\ \A k \in DOMAIN servers :
              /\ servers'[k].block = servers[k].block /\ servers'[k].failed = servers[k].failed
              /\ servers'[k].opts = servers[k].opts /\ servers'[k].sameList = servers[k].sameList
              /\ k # i => servers'[k] = servers[k]
  BY Listed DEF Server

\* A server that is to leave the list is stopped.
LEMMA RetireServerIsRight == ASSUME IInv, RetireServer PROVE IInv'
  <1>1. pc = "count" /\ i <= Len(servers) /\ Stop("count") /\ UNCHANGED <<conf, tested, datadir, locked, judged>>
    BY DEF RetireServer, At
  <1>2. i \in DOMAIN servers /\ i \in Nat \ {0} /\ "count" \in Points
    BY <1>1, Listed DEF IInv, TypeOK, Points
  <1>3. /\ pc' = "count" /\ i' = i + 1 /\ servers' = [servers EXCEPT ![i].status = 0]
        /\ servers' \in Seq(Server) /\ Len(servers') = Len(servers)
        /\ proc' \in [Blocks -> Process] /\ Known' /\ Apart'
    BY <1>1, <1>2, StopIsClean DEF Goto
  <1>4. /\ DOMAIN servers' = DOMAIN servers /\ servers'[i].status = 0
        /\ \A k \in DOMAIN servers :
             /\ servers'[k].block = servers[k].block /\ servers'[k].failed = servers[k].failed
             /\ servers'[k].opts = servers[k].opts /\ servers'[k].sameList = servers[k].sameList
             /\ k # i => servers'[k] = servers[k]
    BY <1>2, <1>3, StoppedServer DEF IInv
  <1>5. TypeOK'
    <2>1. pc' \in Points /\ i' \in Nat \ {0} /\ Len(servers') \in Places
      BY <1>2, <1>3 DEF IInv, TypeOK
    <2> QED
      BY <1>1, <1>3, <2>1 DEF IInv, TypeOK, tested, judged
  <1>6. Held' /\ Counted'
    BY <1>1, <1>2, <1>3, <1>4, TestTyped DEF IInv, Held, Counted, tested
  <1>7. AllRested'
    BY <1>1, <1>2, <1>3, <1>4, Listed, TestTyped DEF IInv, AllRested, Rested, Idle, Native, tested
  <1>8. AllPlain'
    BY <1>1, <1>3, <1>4 DEF IInv, AllPlain, Plain
  <1> QED
    BY <1>3, <1>5, <1>6, <1>7, <1>8 DEF IInv

\* The servers that leave the list have been stopped.
LEMMA ServersCountedIsRight == ASSUME IInv, ServersCounted PROVE IInv'
  <1> DEFINE n == Len(test.reqs)
  <1>1. /\ pc = "count" /\ Len(servers) >= n /\ i > Len(servers)
        /\ servers' = SubSeq(servers, 1, n) /\ locked' = locked \ FreedByShrink
        /\ pc' = "evaluate" /\ i' = 1 /\ UNCHANGED <<conf, tested, proc, datadir, judged>>
    BY DEF ServersCounted, At, Settled, Goto
  <1>2. n \in Nat /\ n \in Places /\ test.reqs # <<>>
    <2>1. test.reqs # <<>> /\ test.reqs \in Seq(SUBSET Options) /\ n \in Nat /\ n <= MaxServers
      BY <1>1, TestTyped DEF IInv, Counted
    <2> QED
      BY <2>1, ConstantsAssumption DEF Places
  <1> HIDE DEF n
  <1>3. /\ servers' \in Seq(Server) /\ Len(servers') = n /\ DOMAIN servers' = 1 .. n
        /\ \A k \in 1 .. n : k \in DOMAIN servers /\ servers'[k] = servers[k]
    BY <1>1, <1>2, Listed DEF IInv, TypeOK
  <1>4. TypeOK'
    BY <1>1, <1>2, <1>3 DEF IInv, TypeOK, Points, tested, judged
  <1>5. Apart'
    BY <1>3 DEF IInv, Apart
  <1>6. Held'
    <2> SUFFICES ASSUME NEW k \in DOMAIN servers'
                 PROVE  servers'[k].block \in locked'
      BY DEF Held
    <2>1. k \in DOMAIN servers /\ servers'[k] = servers[k] /\ servers[k].block \in locked
      BY <1>1, <1>3 DEF IInv, Held
    <2>2. servers[k].block \notin FreedByShrink
      <3>1. CASE Len(servers) > n
        <4>1. FreedByShrink = {servers[Len(servers)].block}
          BY <3>1 DEF FreedByShrink, n
        <4>2. Len(servers) \in DOMAIN servers /\ k # Len(servers)
          BY <1>2, <1>3, <3>1, Listed DEF IInv
        <4> QED
          BY <2>1, <4>1, <4>2 DEF IInv, Apart
      <3>2. CASE ~(Len(servers) > n)
        BY <3>2 DEF FreedByShrink, n
      <3> QED
        BY <3>1, <3>2
    <2> QED
      BY <1>1, <2>1, <2>2
  <1>7. Known'
    <2>1. \A k \in DOMAIN servers : Live(servers[k].block) => k \in 1 .. n
      <3> SUFFICES ASSUME NEW k \in DOMAIN servers, ~(k \in 1 .. n)
                   PROVE  ~Live(servers[k].block)
        OBVIOUS
      <3>1. Len(test.reqs) < k /\ k < i
        BY <1>1, <1>2, Listed DEF IInv, TypeOK, n
      <3>2. Idle(k)
        BY <1>1, <3>1 DEF IInv, AllRested, Rested
      <3> QED
        BY <1>1, <3>2, IdleIsDead
    <2>2. \A k \in DOMAIN servers : proc'[servers[k].block].phase # "none" => k \in 1 .. n
      BY <1>1, <2>1 DEF Live
    <2> QED
      BY <1>1, <1>3, <2>2, KnownStays DEF IInv, Live
  <1>8. Counted'
    BY <1>1, <1>2, <1>3 DEF Counted, tested, n
  <1>9. AllRested' /\ AllPlain'
    BY <1>1, <1>3 DEF IInv, AllRested, Rested, Idle, Native, AllPlain, Plain, tested
  <1> QED
    BY <1>4, <1>5, <1>6, <1>7, <1>8, <1>9 DEF IInv

\* The lists a server's options are compared with.
LEMMA ListsTyped ==
  ASSUME TypeOK, NEW k \in DOMAIN want
  PROVE  Marked(k) \subseteq Options /\ Filtered(k) \subseteq Options /\ Filtered(k) \cap RunnerOptions = {}
  <1>1. want[k] \subseteq Options
    BY DEF TypeOK
  <1>2. Restart \in Options
    BY ConstantsAssumption
  <1> QED
    BY <1>1, <1>2 DEF Marked, Filtered

\* A server that passes the comparison needs no restart for the test's data.
LEMMA MatchMeansRested ==
  ASSUME Once, IInv, pc = "evaluate", i \in DOMAIN servers, OptionsMatch(i), i \in test.loads
  PROVE  Idle(i)
  <1>1. CASE Native
    BY <1>1 DEF IInv, AllRested, Rested
  <1>2. CASE ~Native
    <2>1. conf.mode = "dtr"
      BY <1>2 DEF IInv, TypeOK, Modes, Native
    <2>2. Restart \in Marked(i)
      BY <2>1 DEF Marked
    <2>3. i <= i
      BY DEF IInv, TypeOK
    <2>4. Current(i) = servers[i].opts /\ Restart \notin servers[i].opts
      BY <2>3, ConstantsAssumption DEF IInv, AllPlain, Plain, Current
    <2> QED
      BY <2>2, <2>4 DEF OptionsMatch
  <1> QED
    BY <1>1, <1>2

\* A server is stopped when its options change, and given the new ones.
LEMMA EvaluateServerIsRight == ASSUME IInv, EvaluateServer PROVE IInv'
  <1> DEFINE kept    == [servers[i] EXCEPT !.opts = Current(i)]
             changed == [kept EXCEPT !.opts = Filtered(i), !.sameList = TRUE]
  <1>1. /\ pc = "evaluate" /\ i <= Len(servers) /\ UNCHANGED <<conf, test, ran, rep, locked, judged>>
        /\ \/ /\ OptionsMatch(i) /\ want' = [want EXCEPT ![i] = Marked(i)]
              /\ \/ servers[i].needReset /\ ResetServer(kept, "evaluate")
                 \/ /\ ~servers[i].needReset /\ Goto("evaluate", i + 1)
                    /\ servers' = [servers EXCEPT ![i] = kept] /\ UNCHANGED <<proc, datadir>>
           \/ /\ ~OptionsMatch(i) /\ want' = [want EXCEPT ![i] = Filtered(i)]
              /\ ResetServer(changed, "evaluate")
    BY DEF EvaluateServer, At
  <1>2. i \in DOMAIN servers /\ i \in Nat \ {0} /\ servers[i] \in Server /\ servers \in Seq(Server)
    BY <1>1, Listed DEF IInv, TypeOK
  <1>3. Len(servers) = Len(test.reqs) /\ test.reqs # <<>> /\ DOMAIN want = DOMAIN servers
    BY <1>1, Listed, TestTyped DEF IInv, TypeOK, Counted
  <1>4. i <= i /\ "evaluate" \in Points
    BY <1>2 DEF Points
  <1>5. Once => Current(i) = servers[i].opts /\ servers[i].opts \cap RunnerOptions = {}
    BY <1>1, <1>2, <1>4 DEF IInv, AllPlain, Plain, Current
  <1>7. /\ Marked(i) \subseteq Options /\ Filtered(i) \subseteq Options
        /\ Filtered(i) \cap RunnerOptions = {}
    BY <1>2, <1>3, ListsTyped DEF IInv
  <1>6. /\ kept \in Server /\ kept.block = servers[i].block /\ kept.hasPid = servers[i].hasPid
        /\ kept.status = servers[i].status /\ kept.failed = servers[i].failed
        /\ kept.sameList = servers[i].sameList /\ kept.opts = Current(i)
    <2>1. Current(i) \subseteq Options
      BY <1>2, <1>7 DEF Current, Server
    <2> QED
      BY <1>2, <2>1 DEF Server
  <1>8. changed \in Server /\ changed.block = servers[i].block /\ changed.hasPid = servers[i].hasPid
        /\ changed.opts = Filtered(i)
    BY <1>2, <1>6, <1>7 DEF Server
  <1> HIDE DEF kept, changed
  <1>9. want' \in Seq(SUBSET Options) /\ Len(want') = Len(want)
    <2>1. PICK w \in SUBSET Options : want' = [want EXCEPT ![i] = w]
      BY <1>1, <1>7
    <2> QED
      BY <1>2, <1>3, <2>1 DEF IInv, TypeOK
  <1>10. ASSUME NEW s \in Server, s.block = servers[i].block, s.hasPid = servers[i].hasPid,
                Once => s.opts \cap RunnerOptions = {}, ResetServer(s, "evaluate")
         PROVE  IInv'
    <2> DEFINE t == [s EXCEPT !.status = 0, !.failed = FALSE, !.needReset = FALSE]
    <2>1. /\ pc' = "evaluate" /\ i' = i + 1 /\ servers' = [servers EXCEPT ![i] = t]
          /\ servers' \in Seq(Server) /\ Len(servers') = Len(servers)
          /\ datadir' = [datadir EXCEPT ![i] = "clean"] /\ proc' \in [Blocks -> Process]
          /\ Known' /\ Apart'
      BY <1>1, <1>2, <1>4, <1>10, ResetIsClean DEF Goto
    <2>2. t.block = servers[i].block /\ t.status = 0 /\ (Once => t.opts \cap RunnerOptions = {})
      BY <1>10 DEF Server
    <2>3. /\ DOMAIN servers' = DOMAIN servers
          /\ \A k \in DOMAIN servers : servers'[k] = IF k = i THEN t ELSE servers[k]
      BY <1>2, <2>1
    <2> HIDE DEF t
    <2>4. TypeOK'
      <3>1. datadir' \in [Places -> {"clean", "loaded", "dirty"}]
        BY <2>1 DEF IInv, TypeOK
      <3>2. pc' \in Points /\ i' \in Nat \ {0}
        BY <1>2, <2>1 DEF Points
      <3>3. servers' \in Seq(Server) /\ Len(servers') \in Places
        BY <2>1 DEF IInv, TypeOK
      <3>4. Len(want') = Len(test'.reqs)
        BY <1>1, <1>9 DEF IInv, TypeOK
      <3> QED
        BY <1>1, <1>9, <2>1, <3>1, <3>2, <3>3, <3>4 DEF IInv, TypeOK, judged
    <2>5. Held' /\ Counted'
      BY <1>1, <1>3, <2>1, <2>2, <2>3 DEF IInv, Held, Counted
    <2>6. AllPlain'
      BY <1>1, <1>2, <2>1, <2>2, <2>3, Listed DEF IInv, AllPlain, Plain
    <2>7. AllRested'
      BY <1>1, <1>2, <2>1, <2>2, <2>3, Listed DEF IInv, AllRested, Rested, Idle, Native
    <2> QED
      BY <2>1, <2>4, <2>5, <2>6, <2>7 DEF IInv
  <1>11. CASE ResetServer(kept, "evaluate") \/ ResetServer(changed, "evaluate")
    BY <1>2, <1>5, <1>6, <1>7, <1>8, <1>10, <1>11
  <1>12. CASE OptionsMatch(i) /\ Goto("evaluate", i + 1) /\ servers' = [servers EXCEPT ![i] = kept]
              /\ UNCHANGED <<proc, datadir>>
    <2>1. /\ pc' = "evaluate" /\ i' = i + 1 /\ proc' = proc
          /\ servers' \in Seq(Server) /\ Len(servers') = Len(servers) /\ DOMAIN servers' = DOMAIN servers
          /\ \A k \in DOMAIN servers : servers'[k] = IF k = i THEN kept ELSE servers[k]
      BY <1>2, <1>6, <1>12, OneChanged DEF Goto
    <2>2. Apart' /\ Known'
      <3>1. \A k \in DOMAIN servers :
              /\ servers'[k].block = servers[k].block /\ servers'[k].status = servers[k].status
              /\ servers'[k].hasPid = servers[k].hasPid
        BY <1>6, <2>1
      <3>2. Apart'
        BY <2>1, <3>1 DEF IInv, Apart
      <3>3. Known'
        BY <1>1, <2>1, <3>1, KnownStays DEF IInv, Live
      <3> QED
        BY <3>2, <3>3
    <2>3. TypeOK'
      <3>1. pc' \in Points /\ i' \in Nat \ {0} /\ Len(want') = Len(test'.reqs)
        BY <1>1, <1>2, <1>4, <1>9, <2>1 DEF IInv, TypeOK
      <3>2. Len(servers') \in Places
        BY <2>1 DEF IInv, TypeOK
      <3> QED
        BY <1>1, <1>9, <1>12, <2>1, <3>1, <3>2 DEF IInv, TypeOK, judged
    <2>4. Held' /\ Counted'
      BY <1>1, <1>3, <1>6, <2>1 DEF IInv, Held, Counted
    <2>5. AllPlain'
      BY <1>1, <1>2, <1>5, <1>6, <2>1, Listed DEF IInv, AllPlain, Plain
    <2>6. Once /\ i \in test.loads => Idle(i)
      BY <1>1, <1>2, <1>12, MatchMeansRested
    <2>7. AllRested'
      BY <1>1, <1>2, <1>6, <2>1, <2>6, Listed DEF IInv, AllRested, Rested, Idle, Native
    <2> QED
      BY <2>2, <2>3, <2>4, <2>5, <2>7 DEF IInv
  <1> QED
    BY <1>1, <1>11, <1>12

\* Nothing runs on the data directories that load_datadir replaces.
LEMMA LoadDatadirsIsRight == ASSUME IInv, LoadDatadirs PROVE IInv'
  <1>1. /\ pc = "evaluate" /\ i > Len(servers) /\ pc' = "start" /\ i' = 1
        /\ proc' = [b \in Blocks |-> IF Live(b) /\ proc[b].place \in test.loads
                                     THEN [proc[b] EXCEPT !.home = FALSE] ELSE proc[b]]
        /\ datadir' = [k \in Places |-> IF k \in test.loads THEN "loaded" ELSE datadir[k]]
        /\ servers' = [k \in DOMAIN servers |->
                         IF k \in test.loads THEN [servers[k] EXCEPT !.needReset = TRUE] ELSE servers[k]]
        /\ UNCHANGED <<conf, tested, locked, judged>>
    BY DEF LoadDatadirs, At, Goto
  <1>2. Once => \A b \in Blocks : Live(b) => proc[b].place \notin test.loads
    <2> SUFFICES ASSUME Once, NEW b \in Blocks, Live(b), proc[b].place \in test.loads
                 PROVE  FALSE
      OBVIOUS
    <2>1. PICK k \in DOMAIN servers : servers[k].block = b /\ proc[b].place = k
      BY DEF IInv, Known, AtHome
    <2>2. k < i /\ k \in test.loads
      BY <1>1, <2>1, Listed DEF IInv, TypeOK
    <2>3. Idle(k)
      BY <1>1, <2>2 DEF IInv, AllRested, Rested
    <2> QED
      BY <1>1, <2>1, <2>3, IdleIsDead
  <1>3. /\ proc' \in [Blocks -> Process]
        /\ \A b \in Blocks : proc'[b].phase = proc[b].phase /\ proc'[b].place = proc[b].place
        /\ Once => \A b \in Blocks : proc'[b] = proc[b]
    <2>1. \A b \in Blocks : /\ proc[b] \in Process /\ [proc[b] EXCEPT !.home = FALSE] \in Process
                             /\ [proc[b] EXCEPT !.home = FALSE].phase = proc[b].phase
                             /\ [proc[b] EXCEPT !.home = FALSE].place = proc[b].place
      <3>1. \A b \in Blocks : proc[b] \in Process
        BY DEF IInv, TypeOK
      <3> QED
        BY <3>1 DEF Process
    <2> QED
      BY <1>1, <1>2, <2>1
  <1>4. \A k \in DOMAIN servers : [servers[k] EXCEPT !.needReset = TRUE] \in Server
    BY Listed DEF IInv, Server
  <1>5. /\ servers' \in Seq(Server) /\ Len(servers') = Len(servers) /\ DOMAIN servers' = DOMAIN servers
    BY <1>1, <1>4, Listed DEF IInv
  <1>6. \A k \in DOMAIN servers :
          /\ servers'[k].block = servers[k].block /\ servers'[k].status = servers[k].status
          /\ servers'[k].hasPid = servers[k].hasPid /\ servers'[k].opts = servers[k].opts
    BY <1>1, Listed DEF IInv, Server
  <1>7. TypeOK'
    <2>1. datadir' \in [Places -> {"clean", "loaded", "dirty"}]
      BY <1>1 DEF IInv, TypeOK
    <2>2. pc' \in Points /\ i' \in Nat \ {0} /\ Len(servers') \in Places
      BY <1>1, <1>5 DEF IInv, TypeOK, Points
    <2>3. UNCHANGED <<conf, tested, locked, judged>>
      BY <1>1
    <2> QED
      BY <1>3, <1>5, <2>1, <2>2, <2>3 DEF IInv, TypeOK, tested, judged
  <1>8. Apart' /\ Held'
    BY <1>1, <1>5, <1>6 DEF IInv, Apart, Held
  <1>9. Known'
    BY <1>1, <1>3, <1>5, <1>6, KnownStays DEF IInv, Live
  <1>10. Counted'
    BY <1>1, <1>5 DEF IInv, Counted, tested
  <1>11. AllRested' /\ AllPlain'
    BY <1>1, <1>5, <1>6 DEF IInv, AllRested, Rested, AllPlain, Plain
  <1> QED
    BY <1>7, <1>8, <1>9, <1>10, <1>11 DEF IInv

\* A server that is to be started has no process yet.
LEMMA LaunchIsRight == ASSUME IInv, Launch PROVE IInv'
  <1>1. /\ pc = "start" /\ i <= Len(servers) /\ servers[i].status = 0
        /\ servers' = [servers EXCEPT ![i].hasPid = FALSE]
        /\ pc' = "wait" /\ i' = i /\ UNCHANGED <<conf, tested, locked, datadir, judged>>
    BY DEF Launch, At, Goto
  <1> DEFINE b == servers[i].block
             new == [phase |-> "booting", place |-> i, opts |-> servers[i].opts,
                     home |-> TRUE, since |-> ran, missed |-> FALSE]
             t == [servers[i] EXCEPT !.hasPid = FALSE]
  <1>2. i \in DOMAIN servers /\ servers[i] \in Server /\ servers \in Seq(Server) /\ i \in Places /\ b \in Blocks
    <2>1. i \in DOMAIN servers /\ servers[i] \in Server /\ servers \in Seq(Server) /\ i \in Places
      BY <1>1, Listed DEF IInv, TypeOK
    <2> QED
      BY <2>1 DEF Server
  <1>3. ~Live(b)
    BY <1>1, <1>2, IdleIsDead DEF Idle
  <1>4. proc' = [proc EXCEPT ![b] = new]
    BY <1>3 DEF Launch
  <1>5. new \in Process
    <2>1. servers[i].opts \in SUBSET Options
      BY <1>2 DEF Server
    <2>2. ran \in Nat
      BY ConstantsAssumption DEF IInv, TypeOK
    <2> QED
      BY <1>2, <2>1, <2>2 DEF Process
  <1>6. /\ t \in Server /\ t.block = b /\ t.status = 0 /\ t.opts = servers[i].opts
        /\ t.sameList = servers[i].sameList /\ t.failed = servers[i].failed
    BY <1>1, <1>2 DEF Server
  <1>7. new.phase = "booting" /\ new.place = i /\ new.home
    OBVIOUS
  <1>8. servers' = [servers EXCEPT ![i] = t]
    BY <1>1
  <1> HIDE DEF t, new
  <1>9. /\ servers' \in Seq(Server) /\ Len(servers') = Len(servers) /\ DOMAIN servers' = DOMAIN servers
        /\ \A j \in DOMAIN servers : servers'[j] = IF j = i THEN t ELSE servers[j]
    BY <1>2, <1>6, <1>8, OneChanged
  <1>10. proc' \in [Blocks -> Process] /\ \A c \in Blocks : proc'[c] = IF c = b THEN new ELSE proc[c]
    BY <1>2, <1>4, <1>5 DEF IInv, TypeOK
  <1>11. TypeOK'
    <2>1. pc' \in Points /\ i' \in Nat \ {0} /\ Len(servers') \in Places
      BY <1>1, <1>9 DEF IInv, TypeOK, Points
    <2> QED
      BY <1>1, <1>9, <1>10, <2>1 DEF IInv, TypeOK, tested, judged
  <1>12. Apart' /\ Held'
    BY <1>1, <1>6, <1>9 DEF IInv, Apart, Held
  <1>13. Known'
    <2> SUFFICES ASSUME NEW c \in Blocks, Live(c)'
                 PROVE  (Once => proc'[c].home) /\ \E k \in DOMAIN servers' : AtHome(c, k)'
      BY DEF Known
    <2>1. CASE c = b
      <3>1. proc'[c] = new
        BY <1>10, <2>1
      <3>2. PICK k \in DOMAIN servers : k = i
        BY <1>2
      <3>3. AtHome(c, k)'
        BY <1>1, <1>6, <1>7, <1>9, <2>1, <3>1, <3>2 DEF AtHome
      <3> QED
        BY <1>7, <1>9, <3>1, <3>2, <3>3
    <2>2. CASE c # b
      <3>1. proc'[c] = proc[c] /\ Live(c)
        BY <1>10, <2>2 DEF Live
      <3>2. Once => proc[c].home
        BY <3>1 DEF IInv, Known
      <3>3. PICK k \in DOMAIN servers : AtHome(c, k)
        BY <3>1 DEF IInv, Known
      <3>4. k # i /\ servers'[k] = servers[k]
        BY <1>9, <2>2, <3>3 DEF AtHome
      <3>5. /\ servers[k].block = c /\ proc[c].place = k /\ servers[k].status = 1
            /\ servers[k].hasPid /\ proc[c].phase = "up"
        BY <1>1, <3>3 DEF AtHome
      <3>6. AtHome(c, k)'
        BY <3>1, <3>4, <3>5 DEF AtHome
      <3> QED
        BY <1>9, <3>1, <3>2, <3>6
    <2> QED
      BY <2>1, <2>2
  <1>14. Counted'
    BY <1>1, <1>2, <1>9 DEF IInv, Counted, tested
  <1>15. AllRested' /\ AllPlain'
    BY <1>1, <1>6, <1>9 DEF IInv, AllRested, Rested, Idle, AllPlain, Plain
  <1> QED
    BY <1>11, <1>12, <1>13, <1>14, <1>15 DEF IInv

\* The server that answers is the one whose process was started.
LEMMA AnsweredIsRight == ASSUME IInv, Answered PROVE IInv'
  <1>1. /\ pc = "wait" /\ Answers(servers[i]) /\ pc' = "start" /\ i' = i + 1
        /\ servers' = [servers EXCEPT ![i].status = 1, ![i].hasPid = TRUE]
        /\ proc' = [proc EXCEPT ![servers[i].block].missed = FALSE]
        /\ UNCHANGED <<conf, tested, locked, datadir, judged>>
    BY DEF Answered, At, Goto
  <1> DEFINE t == [servers[i] EXCEPT !.status = 1, !.hasPid = TRUE]
  <1>2. i \in DOMAIN servers /\ servers[i] \in Server /\ servers \in Seq(Server)
    BY <1>1, Listed DEF IInv, TypeOK, Counted
  <1>3. /\ t \in Server /\ t.block = servers[i].block /\ t.status = 1 /\ t.hasPid
        /\ t.opts = servers[i].opts
    BY <1>2 DEF Server
  <1>4. servers' = [servers EXCEPT ![i] = t]
    BY <1>1, <1>2
  <1> HIDE DEF t
  <1>5. /\ servers' \in Seq(Server) /\ Len(servers') = Len(servers) /\ DOMAIN servers' = DOMAIN servers
        /\ \A j \in DOMAIN servers : servers'[j] = IF j = i THEN t ELSE servers[j]
    BY <1>2, <1>3, <1>4, OneChanged
  <1>11. /\ proc' \in [Blocks -> Process]
         /\ \A c \in Blocks : /\ proc'[c].phase = proc[c].phase /\ proc'[c].place = proc[c].place
                               /\ proc'[c].home = proc[c].home
    <2>1. servers[i].block \in Blocks /\ proc \in [Blocks -> Process]
      BY <1>2 DEF IInv, TypeOK, Server
    <2> DEFINE P == proc'
               m == FALSE
    <2>2. m \in BOOLEAN
      OBVIOUS
    <2>3. P = [proc EXCEPT ![servers[i].block].missed = m]
      BY <1>1
    <2> HIDE DEF P, m
    <2>4. /\ P \in [Blocks -> Process]
          /\ \A c \in Blocks : /\ P[c].phase = proc[c].phase /\ P[c].place = proc[c].place
                               /\ P[c].home = proc[c].home
      BY <2>1, <2>2, <2>3, OnlyMarked
    <2> QED
      BY <2>4 DEF P
  <1>6. TypeOK'
    <2>1. pc' \in Points /\ i' \in Nat \ {0} /\ Len(servers') \in Places
      BY <1>1, <1>5 DEF IInv, TypeOK, Points
    <2> QED
      BY <1>1, <1>5, <1>11, <2>1 DEF IInv, TypeOK, tested, judged
  <1>7. Apart' /\ Held'
    BY <1>1, <1>3, <1>5 DEF IInv, Apart, Held
  <1>8. Known'
    <2> SUFFICES ASSUME NEW c \in Blocks, Live(c)'
                 PROVE  (Once => proc'[c].home) /\ \E k \in DOMAIN servers' : AtHome(c, k)'
      BY DEF Known
    <2>1. /\ Live(c) /\ proc'[c].phase = proc[c].phase /\ proc'[c].place = proc[c].place
          /\ proc'[c].home = proc[c].home
      BY <1>11 DEF Live
    <2>2. Once => proc[c].home
      BY <2>1 DEF IInv, Known
    <2>3. PICK k \in DOMAIN servers : AtHome(c, k)
      BY <2>1 DEF IInv, Known
    <2>4. CASE k = i
      <3>1. proc[c].phase = "up"
        BY <1>1, <2>3, <2>4 DEF AtHome, Answers
      <3> QED
        BY <1>2, <1>3, <1>5, <2>1, <2>2, <2>3, <2>4, <3>1 DEF AtHome
    <2>5. CASE k # i
      BY <1>5, <2>1, <2>2, <2>3, <2>5 DEF AtHome
    <2> QED
      BY <2>4, <2>5
  <1>9. Counted'
    BY <1>1, <1>5 DEF IInv, Counted, tested
  <1>10. AllRested' /\ AllPlain'
    BY <1>1, <1>3, <1>5 DEF IInv, AllRested, Rested, AllPlain, Plain
  <1> QED
    BY <1>6, <1>7, <1>8, <1>9, <1>10 DEF IInv

\* start() gives up on a process that is gone.
LEMMA StartTimeoutIsRight == ASSUME Outwaits, IInv, StartTimeout PROVE IInv'
  <1>1. /\ pc = "wait" /\ ~Live(servers[i].block) /\ pc' = "start" /\ i' = i + 1 /\ badStart' = TRUE
        /\ proc' = Miss(servers[i].block)
        /\ UNCHANGED <<conf, tested, servers, datadir, locked, status>>
    BY DEF Outwaits, StartTimeout, GivesUp, At, Goto
  <1>5. proc' \in [Blocks -> Process] /\ \A c \in Blocks : Live(c)' => Live(c) /\ proc'[c] = proc[c]
    <2>1. i \in DOMAIN servers /\ proc \in [Blocks -> Process]
      BY <1>1 DEF IInv, Counted, TypeOK
    <2>2. servers[i].block \in Blocks
      BY <2>1, Listed DEF IInv, Server
    <2>3. Live(servers[i].block) \in BOOLEAN
      BY DEF Live
    <2> DEFINE P == proc'
    <2>5. P = [proc EXCEPT ![servers[i].block].missed = Live(servers[i].block)]
      BY <1>1 DEF Miss
    <2> HIDE DEF P
    <2>4. /\ P \in [Blocks -> Process]
          /\ \A c \in Blocks : c # servers[i].block => P[c] = proc[c]
          /\ \A c \in Blocks : P[c].phase = proc[c].phase
      BY <2>1, <2>2, <2>3, <2>5, OnlyMarked
    <2> QED
      BY <1>1, <2>4 DEF Live, P
  <1>2. TypeOK'
    <2>1. badStart' \in BOOLEAN
      BY <1>1
    <2> QED
      BY <1>1, <1>5, <2>1 DEF IInv, TypeOK, Points, tested
  <1>3. Apart' /\ Held' /\ Counted' /\ AllRested' /\ AllPlain'
    BY <1>1 DEF IInv, Apart, Held, Counted, AllRested, Rested, AllPlain, Plain, tested
  <1>4. Known'
    <2> SUFFICES ASSUME NEW c \in Blocks, Live(c)'
                 PROVE  (Once => proc'[c].home) /\ \E k \in DOMAIN servers' : AtHome(c, k)'
      BY DEF Known
    <2>1. Live(c) /\ proc'[c] = proc[c] /\ servers' = servers
      BY <1>1, <1>5
    <2>2. Once => proc[c].home
      BY <2>1 DEF IInv, Known
    <2>3. PICK k \in DOMAIN servers : AtHome(c, k)
      BY <2>1 DEF IInv, Known
    <2>4. k # i
      BY <1>1, <2>1, <2>3 DEF AtHome
    <2> QED
      BY <2>1, <2>2, <2>3, <2>4 DEF AtHome
  <1> QED
    BY <1>2, <1>3, <1>4 DEF IInv

\* Marking the servers of a failed test.
LEMMA Marking ==
  ASSUME TypeOK, NEW st, servers' = MarkFailed(servers, st)
  PROVE  /\ servers' \in Seq(Server) /\ Len(servers') = Len(servers) /\ DOMAIN servers' = DOMAIN servers
         /\ \A k \in DOMAIN servers :
              /\ servers'[k].block = servers[k].block /\ servers'[k].status = servers[k].status
              /\ servers'[k].hasPid = servers[k].hasPid /\ servers'[k].opts = servers[k].opts
              /\ servers'[k].sameList = servers[k].sameList
              /\ st = "fail" => servers'[k].failed
  <1>1. \A k \in DOMAIN servers : [servers[k] EXCEPT !.failed = TRUE] \in Server
    BY Listed DEF Server
  <1>2. servers' \in Seq(Server) /\ Len(servers') = Len(servers) /\ DOMAIN servers' = DOMAIN servers
    BY <1>1, Listed DEF MarkFailed
  <1>3. \A k \in DOMAIN servers :
          servers'[k] = IF st = "fail" THEN [servers[k] EXCEPT !.failed = TRUE] ELSE servers[k]
    BY DEF MarkFailed
  <1> QED
    BY <1>2, <1>3, Listed DEF Server

\* A failed start marks the servers, and nothing else.
LEMMA ServersStartedIsRight == ASSUME IInv, ServersStarted PROVE IInv'
  <1>1. /\ pc = "start" /\ pc' = "ready" /\ i' = 1
        /\ status' = IF badStart THEN "fail" ELSE status
        /\ servers' = MarkFailed(servers, status')
        /\ UNCHANGED <<conf, tested, proc, datadir, locked, badStart>>
    BY DEF ServersStarted, At, Goto
  <1>2. status' \in Outcomes
    BY <1>1 DEF IInv, TypeOK, Outcomes
  <1>3. /\ servers' \in Seq(Server) /\ Len(servers') = Len(servers) /\ DOMAIN servers' = DOMAIN servers
        /\ \A k \in DOMAIN servers :
             /\ servers'[k].block = servers[k].block /\ servers'[k].status = servers[k].status
             /\ servers'[k].hasPid = servers[k].hasPid /\ servers'[k].opts = servers[k].opts
             /\ servers'[k].sameList = servers[k].sameList
             /\ status' = "fail" => servers'[k].failed
    BY <1>1, Marking DEF IInv
  <1>4. TypeOK'
    <2>1. pc' \in Points /\ i' \in Nat \ {0} /\ Len(servers') \in Places
      BY <1>1, <1>3 DEF IInv, TypeOK, Points
    <2>2. UNCHANGED <<conf, tested, proc, datadir, locked, badStart>>
      BY <1>1
    <2> QED
      BY <1>2, <1>3, <2>1, <2>2 DEF IInv, TypeOK, tested
  <1>5. Apart' /\ Held'
    BY <1>1, <1>3 DEF IInv, Apart, Held
  <1>6. Known'
    BY <1>1, <1>3, KnownStays DEF IInv, Live
  <1>7. Counted' /\ AllRested' /\ AllPlain'
    BY <1>1, <1>3 DEF IInv, Counted, AllRested, Rested, AllPlain, Plain
  <1> QED
    BY <1>4, <1>5, <1>6, <1>7 DEF IInv

\* The test may end servers; it starts none.
LEMMA RunTestIsRight == ASSUME IInv, RunTest PROVE IInv'
  <1>1. pc = "run" /\ i' = 1 /\ UNCHANGED <<conf, tested, locked, badStart>>
    BY DEF RunTest, At, Goto
  <1>2. pc' \in {"after", "record"} /\ (Native => pc' = "after")
    BY DEF RunTest, Goto, Native
  <1>3. PICK st \in {"pass", "skipped", "fail"}, dead \in SUBSET {b \in Blocks : Live(b)} :
          /\ status' = st /\ servers' = MarkFailed(servers, st)
          /\ proc' = [b \in Blocks |-> IF b \in dead THEN NoProc ELSE proc[b]]
          /\ datadir' = [k \in Places |-> IF st = "fail" /\ k \in DOMAIN servers
                                          THEN "dirty" ELSE datadir[k]]
    BY DEF RunTest
  <1>4. /\ servers' \in Seq(Server) /\ Len(servers') = Len(servers) /\ DOMAIN servers' = DOMAIN servers
        /\ \A k \in DOMAIN servers :
             /\ servers'[k].block = servers[k].block /\ servers'[k].status = servers[k].status
             /\ servers'[k].hasPid = servers[k].hasPid /\ servers'[k].opts = servers[k].opts
             /\ servers'[k].sameList = servers[k].sameList
    BY <1>3, Marking DEF IInv
  <1>5. proc' \in [Blocks -> Process] /\ \A b \in Blocks : Live(b)' => Live(b) /\ proc'[b] = proc[b]
    <2>1. NoProc \in Process /\ NoProc.phase = "none"
      BY ConstantsAssumption DEF NoProc, Process, Places
    <2>2. \A b \in Blocks : proc'[b] = IF b \in dead THEN NoProc ELSE proc[b]
      BY <1>3
    <2> QED
      BY <1>3, <2>1, <2>2 DEF IInv, TypeOK, Live
  <1>6. TypeOK'
    <2>1. status' \in Outcomes
      BY <1>3 DEF Outcomes
    <2>2. datadir' \in [Places -> {"clean", "loaded", "dirty"}]
      BY <1>3 DEF IInv, TypeOK
    <2>3. pc' \in Points /\ i' \in Nat \ {0} /\ Len(servers') \in Places
      BY <1>1, <1>2, <1>4 DEF IInv, TypeOK, Points
    <2> QED
      BY <1>1, <1>4, <1>5, <2>1, <2>2, <2>3 DEF IInv, TypeOK, tested
  <1>7. Apart' /\ Held'
    BY <1>1, <1>2, <1>4 DEF IInv, Apart, Held
  <1>8. Known'
    BY <1>1, <1>4, <1>5, KnownStays DEF IInv
  <1>9. Counted' /\ AllRested' /\ AllPlain'
    BY <1>1, <1>2, <1>4, Listed DEF IInv, Counted, AllRested, Rested, Native, AllPlain, Plain
  <1> QED
    BY <1>6, <1>7, <1>8, <1>9 DEF IInv

\* After a native test the servers are reset, one by one.
LEMMA ResetServersIsRight == ASSUME IInv, ResetServers PROVE IInv'
  <1>1. pc = "after" /\ UNCHANGED <<conf, tested, locked, judged>>
    BY DEF ResetServers, At
  <1>2. i \in Nat /\ i # 0 /\ Len(servers) \in Nat
    BY Listed DEF IInv, TypeOK
  <1>3. CASE i > Len(servers)
    <2>1. pc' = "record" /\ i' = 1 /\ UNCHANGED objects
      BY <1>2, <1>3 DEF ResetServers, Goto
    <2>2. Apart' /\ Known'
      BY <1>1, <2>1, Untouched DEF objects
    <2>3. TypeOK'
      BY <1>1, <2>1 DEF IInv, TypeOK, Points, tested, judged, objects
    <2>4. Held' /\ Counted' /\ AllPlain'
      BY <1>1, <2>1 DEF IInv, Held, Counted, AllPlain, Plain, tested, objects
    <2>5. AllRested'
      BY <1>1, <1>2, <1>3, <2>1, Listed
      DEF IInv, AllRested, Rested, Idle, Native, tested, objects
    <2> QED
      BY <2>2, <2>3, <2>4, <2>5 DEF IInv
  <1>4. CASE i <= Len(servers)
    <2> DEFINE t == [servers[i] EXCEPT !.status = 0, !.failed = FALSE, !.needReset = FALSE]
    <2>1. ResetServer(servers[i], "after")
      BY <1>2, <1>4 DEF ResetServers
    <2>2. i \in DOMAIN servers /\ servers[i] \in Server /\ "after" \in Points
      BY <1>2, <1>4, Listed DEF IInv, TypeOK, Points
    <2>3. /\ pc' = "after" /\ i' = i + 1 /\ servers' = [servers EXCEPT ![i] = t]
          /\ servers' \in Seq(Server) /\ Len(servers') = Len(servers)
          /\ datadir' = [datadir EXCEPT ![i] = "clean"] /\ proc' \in [Blocks -> Process]
          /\ Known' /\ Apart'
      BY <1>1, <2>1, <2>2, ResetIsClean DEF Goto
    <2>4. t.block = servers[i].block /\ t.status = 0 /\ t.opts = servers[i].opts
      BY <2>2 DEF Server
    <2>5. /\ DOMAIN servers' = DOMAIN servers
          /\ \A k \in DOMAIN servers : servers'[k] = IF k = i THEN t ELSE servers[k]
      BY <2>2, <2>3
    <2> HIDE DEF t
    <2>6. TypeOK'
      <3>1. datadir' \in [Places -> {"clean", "loaded", "dirty"}]
        BY <2>3 DEF IInv, TypeOK
      <3>2. pc' \in Points /\ i' \in Nat \ {0} /\ Len(servers') \in Places
        BY <1>2, <2>3 DEF IInv, TypeOK, Points
      <3> QED
        BY <1>1, <2>3, <3>1, <3>2 DEF IInv, TypeOK, tested, judged
    <2>7. Held' /\ Counted' /\ AllPlain'
      BY <1>1, <2>3, <2>4, <2>5 DEF IInv, Held, Counted, AllPlain, Plain, tested
    <2>8. AllRested'
      BY <1>1, <1>2, <2>3, <2>4, <2>5, Listed DEF IInv, AllRested, Rested, Idle, Native, tested
    <2> QED
      BY <2>3, <2>6, <2>7, <2>8 DEF IInv
  <1> QED
    BY <1>2, <1>3, <1>4

\* The clean-up stops the servers, one by one.
LEMMA StopAllServersIsRight == ASSUME IInv, StopAllServers PROVE IInv'
  <1>1. pc = "cleanup" /\ UNCHANGED <<conf, tested, datadir, locked, judged>>
    BY DEF StopAllServers, At
  <1>2. i \in Nat /\ i # 0 /\ Len(servers) \in Nat
    BY Listed DEF IInv, TypeOK
  <1>3. ASSUME UNCHANGED <<servers, proc>>, i' = 1,
               \/ conf.startandexit = TRUE /\ pc' = "ended"
               \/ i > Len(servers) /\ pc' = "free"
        PROVE  IInv'
    <2>1. Apart' /\ Known'
      BY <1>1, <1>3, Untouched
    <2>2. TypeOK'
      BY <1>1, <1>3 DEF IInv, TypeOK, Points, tested, judged
    <2>3. Held' /\ Counted' /\ AllPlain'
      BY <1>1, <1>3 DEF IInv, Held, Counted, AllPlain, Plain, tested
    <2>4. AllRested'
      BY <1>1, <1>2, <1>3, Listed DEF IInv, AllRested, Rested, Idle, Native, tested
    <2> QED
      BY <2>1, <2>2, <2>3, <2>4 DEF IInv
  <1>4. CASE i <= Len(servers) /\ Stop("cleanup")
    <2>1. i \in DOMAIN servers /\ "cleanup" \in Points
      BY <1>2, <1>4, Listed DEF IInv, Points
    <2>2. /\ pc' = "cleanup" /\ i' = i + 1 /\ servers' = [servers EXCEPT ![i].status = 0]
          /\ servers' \in Seq(Server) /\ Len(servers') = Len(servers)
          /\ proc' \in [Blocks -> Process] /\ Known' /\ Apart'
      BY <1>1, <1>4, <2>1, StopIsClean DEF Goto
    <2>3. /\ DOMAIN servers' = DOMAIN servers /\ servers'[i].status = 0
          /\ \A k \in DOMAIN servers :
               /\ servers'[k].block = servers[k].block /\ servers'[k].failed = servers[k].failed
               /\ servers'[k].opts = servers[k].opts /\ servers'[k].sameList = servers[k].sameList
               /\ k # i => servers'[k] = servers[k]
      BY <2>1, <2>2, StoppedServer DEF IInv
    <2>4. TypeOK'
      <3>1. pc' \in Points /\ i' \in Nat \ {0} /\ Len(servers') \in Places
        BY <1>2, <2>2 DEF IInv, TypeOK, Points
      <3> QED
        BY <1>1, <2>2, <3>1 DEF IInv, TypeOK, tested, judged
    <2>5. Held' /\ Counted' /\ AllPlain'
      BY <1>1, <2>2, <2>3 DEF IInv, Held, Counted, AllPlain, Plain, tested
    <2>6. AllRested'
      BY <1>1, <1>2, <2>2, <2>3, Listed DEF IInv, AllRested, Rested, Idle, Native, tested
    <2> QED
      BY <2>2, <2>4, <2>5, <2>6 DEF IInv
  <1>5. CASE conf.startandexit /\ Goto("ended", 1) /\ UNCHANGED <<servers, proc>>
    <2>1. conf.startandexit = TRUE
      BY <1>5 DEF IInv, TypeOK
    <2> QED
      BY <1>3, <1>5, <2>1 DEF Goto
  <1>6. CASE i > Len(servers) /\ Goto("free", 1) /\ UNCHANGED <<servers, proc>>
    BY <1>3, <1>6 DEF Goto
  <1> QED
    BY <1>4, <1>5, <1>6 DEF StopAllServers

\* A process comes up, or goes, only while its server is awaited.
LEMMA BootIsRight == ASSUME IInv, NEW b \in Blocks, Boot(b) PROVE IInv'
  <1>1. /\ proc[b].phase = "booting"
        /\ proc' = [proc EXCEPT ![b].phase = "up"] \/ proc' = [proc EXCEPT ![b] = NoProc]
        /\ UNCHANGED <<conf, pc, i, tested, servers, datadir, locked, judged>>
    BY DEF Boot
  <1>2. NoProc \in Process /\ NoProc.phase = "none"
    BY ConstantsAssumption DEF NoProc, Process, Places
  <1>3. /\ proc' \in [Blocks -> Process]
        /\ \A c \in Blocks : c # b => proc'[c] = proc[c]
        /\ Live(b)' => proc'[b].place = proc[b].place /\ proc'[b].home = proc[b].home
    <2> DEFINE up == [proc[b] EXCEPT !.phase = "up"]
    <2>1. proc[b] \in Process /\ proc \in [Blocks -> Process]
      BY DEF IInv, TypeOK
    <2>2. up \in Process /\ up.place = proc[b].place /\ up.home = proc[b].home
      BY <2>1 DEF Process
    <2>3. proc' = [proc EXCEPT ![b] = up] \/ proc' = [proc EXCEPT ![b] = NoProc]
      BY <1>1
    <2> HIDE DEF up
    <2>4. proc' \in [Blocks -> Process] /\ \A c \in Blocks : c # b => proc'[c] = proc[c]
      BY <1>2, <2>1, <2>2, <2>3
    <2>5. proc'[b] = up \/ proc'[b] = NoProc
      BY <2>1, <2>3
    <2> QED
      BY <1>2, <2>2, <2>4, <2>5 DEF Live
  <1>4. Live(b)
    BY <1>1 DEF Live
  <1>5. TypeOK'
    BY <1>1, <1>3 DEF IInv, TypeOK, tested, judged
  <1>6. Apart' /\ Held' /\ Counted' /\ AllRested' /\ AllPlain'
    BY <1>1 DEF IInv, Apart, Held, Counted, AllRested, Rested, Idle, Native, AllPlain, Plain, tested, judged
  <1>7. Known'
    <2> SUFFICES ASSUME NEW c \in Blocks, Live(c)'
                 PROVE  (Once => proc'[c].home) /\ \E k \in DOMAIN servers' : AtHome(c, k)'
      BY DEF Known
    <2>1. Live(c)
      BY <1>3, <1>4 DEF Live
    <2>2. Once => proc[c].home
      BY <2>1 DEF IInv, Known
    <2>3. PICK k \in DOMAIN servers : AtHome(c, k)
      BY <2>1 DEF IInv, Known
    <2>4. CASE c = b
      <3>1. pc = "wait" /\ i = k
        BY <1>1, <2>3, <2>4 DEF AtHome
      <3> QED
        BY <1>1, <1>3, <2>2, <2>3, <2>4, <3>1 DEF AtHome
    <2>5. CASE c # b
      BY <1>1, <1>3, <2>2, <2>3, <2>5 DEF AtHome
    <2> QED
      BY <2>4, <2>5
  <1> QED
    BY <1>5, <1>6, <1>7 DEF IInv

\* Every step keeps the invariant.
LEMMA NextIsRight ==
  ASSUME Outwaits, IInv, [Next]_vars, Interrupt => pc # "wait" PROVE IInv'
  <1>1. CASE Runner
    <2>1. \/ GetTestCase \/ RepeatTest \/ CheckServerStatus \/ AllocateServer \/ RetireServer
          \/ ServersCounted
          \/ EvaluateServer \/ LoadDatadirs \/ Launch \/ Answered \/ StartTimeout \/ ServersStarted
          \/ ResetServers \/ StopAllServers \/ NoMoreTests \/ AlreadyRunning \/ Ready
          \/ RecordTestResult \/ CleanupAllServers \/ StartAndExit
      BY <1>1 DEF Runner
    <2> QED
      BY <2>1, GetTestCaseIsRight, RepeatTestIsRight, CheckServerStatusIsRight,
         AllocateServerIsRight, RetireServerIsRight,
         ServersCountedIsRight, EvaluateServerIsRight, LoadDatadirsIsRight, LaunchIsRight,
         AnsweredIsRight, StartTimeoutIsRight, ServersStartedIsRight,
         ResetServersIsRight, StopAllServersIsRight, QuietSteps
  <1>2. CASE Interrupt
    BY <1>2, QuietSteps
  <1>3. CASE \E b \in Blocks : Boot(b) \/ Hang(b)
    BY <1>3, BootIsRight DEF Hang, Outwaits
  <1>5. CASE RunTest
    BY <1>5, RunTestIsRight
  <1>4. CASE UNCHANGED vars
    BY <1>4 DEF vars, objects, tested, judged, IInv, TypeOK, Apart, Held, Known, Live, AtHome, Counted,
                AllRested, Rested, Idle, Native, AllPlain, Plain
  <1> QED
    BY <1>1, <1>2, <1>3, <1>4, <1>5 DEF Next

\* The invariant holds in every state.
LEMMA AlwaysRight == ASSUME Undisturbed PROVE Spec => []IInv
  <1>1. Init => IInv
    BY InitIsRight DEF Undisturbed, Outwaits
  <1>2. IInv /\ [Next]_vars => IInv'
    BY NextIsRight DEF Undisturbed, Interrupt
  <1> QED
    BY <1>1, <1>2, PTL DEF Spec
-----------------------------------------------------------------------------
(* What follows.                                                             *)

\* Nothing start(), stop(), reset or the changes of the list do loses sight of
\* a server, whether tests are repeated or not (server_management.py).
THEOREM ProcessesAreKnown == ASSUME Undisturbed PROVE Spec => [](TypeOK /\ EveryProcessKnown)
  <1>1. IInv => TypeOK /\ EveryProcessKnown
    BY DEF IInv, Known, AtHome, EveryProcessKnown
  <1> QED
    BY <1>1, AlwaysRight, PTL

\* Every process is one that a server of the list answers for, and it has its
\* data directory, if no test is repeated: one that runs again is compared with
\* its own list of options, '--restart' and all, and so is left running
\* (evaluate_existing_servers, reset, load_datadir).
THEOREM NothingIsLost == ASSUME Undisturbed, Once PROVE Spec => []Consistent
  <1>1. IInv => Consistent
    BY DEF IInv, Known, AtHome, Consistent, EveryProcessKnown, NoOrphan
  <1> QED
    BY <1>1, AlwaysRight, PTL

\* No port file is given up while a process is on the ports (cleanup of
\* server.py, which stop_server_list and cleanup_all_servers call).
THEOREM PortsAreHeld == ASSUME Undisturbed PROVE Spec => []PortsHeld
  <1>1. IInv => PortsHeld
    <2> SUFFICES ASSUME IInv, NEW b \in Blocks, Live(b), ~conf.startandexit
                 PROVE  b \in locked
      BY DEF PortsHeld
    <2>1. PICK k \in DOMAIN servers : AtHome(b, k)
      BY DEF IInv, Known
    <2>2. pc # "ended"
      <3> SUFFICES ASSUME pc = "ended"
                   PROVE  FALSE
        OBVIOUS
      <3>1. Idle(k)
        BY DEF IInv, AllRested, Rested
      <3> QED
        BY <2>1, <3>1, IdleIsDead DEF AtHome
    <2> QED
      BY <2>1, <2>2 DEF IInv, Held, AtHome
  <1> QED
    BY <1>1, AlwaysRight, PTL
-----------------------------------------------------------------------------
(* What a test runs on.  The second invariant says what the servers have to  *)
(* do with the current test, from the check of the servers to the test.      *)
Clean(k)  ==
  /\ datadir[k] = "dirty"  => servers[k].failed
  /\ datadir[k] = "loaded" => servers[k].needReset
  /\ pc = "check" /\ k < i => ~servers[k].failed
  /\ pc \in {"count", "evaluate", "start", "wait"} => ~servers[k].failed
RunsOwn(k) == Live(servers[k].block) => proc[servers[k].block].opts = servers[k].opts
Fits(k)    == servers[k].opts = test.reqs[k] \ RunnerOptions
Readied(k) == pc = "evaluate" /\ k < i =>
  /\ Fits(k) /\ datadir[k] = "clean" /\ ~servers[k].needReset
  /\ Restart \in test.reqs[k] => Idle(k)
Tended(k)  == Clean(k) /\ RunsOwn(k) /\ Readied(k)
AllTended  == \A k \in DOMAIN servers : Tended(k)

Serves(k)  ==
  /\ k \in DOMAIN servers /\ Fits(k)
  /\ datadir[k] = IF k \in test.loads THEN "loaded" ELSE "clean"
  /\ Restart \in test.reqs[k] /\ Live(servers[k].block) => proc[servers[k].block].since = ran
AllServe   == pc \in {"start", "wait", "ready", "run"} => \A k \in DOMAIN test.reqs : Serves(k)

\* The lists of the test are as collected until they are compared.
Unread == \A k \in DOMAIN want :
  pc \in {"check", "count"} \/ (pc = "evaluate" /\ i <= k) => want[k] = test.reqs[k]

JInv == AllTended /\ AllServe /\ Unread

\* The steps that leave the servers alone.
LEMMA QuietStepsServe ==
  ASSUME IInv, JInv,
         \/ NoMoreTests \/ AlreadyRunning \/ Ready \/ CleanupAllServers \/ StartAndExit \/ Interrupt
  PROVE  JInv'
  <1>1. UNCHANGED <<conf, tested, servers, proc, datadir>>
    BY DEF NoMoreTests, AlreadyRunning, Ready, CleanupAllServers, StartAndExit,
           Interrupt, objects, judged
  <1>2. UNCHANGED status /\ (pc' \in {"start", "cleanup", "run", "ended"} \/ (pc' = "record" /\ status = "fail"))
    BY DEF NoMoreTests, AlreadyRunning, Ready, CleanupAllServers, StartAndExit,
           Interrupt, Goto, judged
  <1>3. /\ pc' = "start" => pc \in {"start", "wait"}
        /\ pc' = "run" => pc = "ready"
    BY DEF NoMoreTests, AlreadyRunning, Ready, CleanupAllServers, StartAndExit,
           Interrupt, Goto, At
  <1>4. AllTended'
    BY <1>1, <1>2, <1>3 DEF JInv, AllTended, Tended, Clean, RunsOwn, Readied, Live
  <1>5. AllServe'
    BY <1>1, <1>2, <1>3 DEF JInv, AllServe, Serves, Fits, Live, tested
  <1>6. Unread'
    BY <1>1, <1>2, <1>3 DEF JInv, Unread
  <1> QED
    BY <1>4, <1>5, <1>6 DEF JInv

LEMMA RecordServes == ASSUME IInv, JInv, RecordTestResult PROVE JInv'
  <1>1. pc = "record" /\ pc' \in {"cleanup", "next"} /\ UNCHANGED <<conf, tested, servers, proc, datadir>>
    BY DEF RecordTestResult, At, Goto, objects
  <1> QED
    BY <1>1 DEF JInv, AllTended, Tended, Clean, RunsOwn, Readied, Live, AllServe, Unread

\* A test that wants no server asks nothing of them.
LEMMA GetTestCaseServes == ASSUME IInv, JInv, GetTestCase PROVE JInv'
  <1>1. PICK t \in TestKinds : test' = t /\ want' = t.reqs /\ Requested(t)
    BY DEF GetTestCase
  <1>2. /\ pc = "next" /\ status' = "none" /\ UNCHANGED <<proc, datadir>>
        /\ servers' = [k \in DOMAIN servers |-> [servers[k] EXCEPT !.sameList = FALSE]]
    BY DEF GetTestCase, At
  <1>3. pc' \in {"ready", "check"} /\ i' = 1 /\ (pc' = "ready" => t.reqs = <<>>)
    BY <1>1 DEF Requested, Goto
  <1>4. /\ DOMAIN servers' = DOMAIN servers
        /\ \A k \in DOMAIN servers :
             /\ servers'[k].block = servers[k].block /\ servers'[k].failed = servers[k].failed
             /\ servers'[k].needReset = servers[k].needReset /\ servers'[k].opts = servers[k].opts
    BY <1>2, Listed DEF IInv, Server
  <1>5. AllTended'
    BY <1>2, <1>3, <1>4, Listed DEF IInv, JInv, AllTended, Tended, Clean, RunsOwn, Readied, Live
  <1>6. AllServe' /\ Unread'
    BY <1>1, <1>2, <1>3 DEF JInv, AllServe, Unread
  <1> QED
    BY <1>5, <1>6 DEF JInv

\* A server that is reset is clean, and has no process.
LEMMA ResetTends ==
  ASSUME IInv, JInv, pc # "wait", i \in DOMAIN servers,
         NEW s \in Server, s.block = servers[i].block, s.hasPid = servers[i].hasPid,
         NEW p \in Points, ResetServer(s, p)
  PROVE  /\ pc' = p /\ i' = i + 1 /\ DOMAIN servers' = DOMAIN servers
         /\ servers'[i].status = 0 /\ ~servers'[i].failed /\ ~servers'[i].needReset
         /\ servers'[i].opts = s.opts /\ datadir'[i] = "clean"
         /\ \A k \in DOMAIN servers : k # i => servers'[k] = servers[k] /\ datadir'[k] = datadir[k]
         /\ \A k \in DOMAIN servers : RunsOwn(k)'
  <1> DEFINE t == [s EXCEPT !.status = 0, !.failed = FALSE, !.needReset = FALSE]
  <1>1. /\ pc' = p /\ i' = i + 1 /\ servers' = [servers EXCEPT ![i] = t]
        /\ datadir' = [datadir EXCEPT ![i] = "clean"] /\ proc'[s.block].phase = "none"
        /\ \A b \in Blocks : Live(b)' => Live(b) /\ proc'[b] = proc[b] /\ b # s.block
    BY ResetIsClean DEF Goto
  <1>2. t.status = 0 /\ ~t.failed /\ ~t.needReset /\ t.opts = s.opts /\ t.block = servers[i].block
    BY DEF Server
  <1> HIDE DEF t
  <1>3. /\ DOMAIN servers' = DOMAIN servers
        /\ \A k \in DOMAIN servers : servers'[k] = IF k = i THEN t ELSE servers[k]
    BY <1>1, Listed DEF IInv
  <1>4. \A k \in DOMAIN servers : k \in Places /\ datadir'[k] = IF k = i THEN "clean" ELSE datadir[k]
    BY <1>1, Listed DEF IInv, TypeOK
  <1>5. ASSUME NEW k \in DOMAIN servers
        PROVE  RunsOwn(k)'
    <2>1. servers'[k].block = servers[k].block /\ servers[k].block \in Blocks
      BY <1>2, <1>3, Listed DEF IInv, Server
    <2>2. CASE k = i
      BY <1>1, <2>1, <2>2 DEF RunsOwn, Live
    <2>3. CASE k # i
      <3>1. servers'[k] = servers[k] /\ RunsOwn(k)
        BY <1>3, <2>3 DEF JInv, AllTended, Tended
      <3> QED
        BY <1>1, <2>1, <3>1 DEF RunsOwn, Live
    <2> QED
      BY <2>2, <2>3
  <1> QED
    BY <1>1, <1>2, <1>3, <1>4, <1>5

\* After the check no server of the list has failed.
LEMMA CheckServes == ASSUME IInv, JInv, CheckServerStatus PROVE JInv'
  <1>1. pc = "check" /\ UNCHANGED <<conf, tested, locked, judged>>
    BY DEF CheckServerStatus, At
  <1>2. i \in Nat /\ i # 0 /\ Len(servers) \in Nat
    BY Listed DEF IInv, TypeOK
  <1>3. pc' \in {"check", "count"} => AllServe' /\ Unread'
    BY <1>1 DEF JInv, AllServe, Unread, tested, judged
  <1>4. CASE i > Len(servers)
    <2>1. pc' = "count" /\ UNCHANGED objects
      BY <1>2, <1>4 DEF CheckServerStatus, Goto
    <2>2. AllTended'
      BY <1>1, <1>2, <1>4, <2>1, Listed
      DEF IInv, JInv, AllTended, Tended, Clean, RunsOwn, Readied, Live, objects
    <2> QED
      BY <1>3, <2>1, <2>2 DEF JInv
  <1>5. CASE i <= Len(servers) /\ ~servers[i].failed
    <2>1. pc' = "check" /\ i' = i + 1 /\ UNCHANGED objects
      BY <1>2, <1>5 DEF CheckServerStatus, Goto
    <2>2. AllTended'
      BY <1>1, <1>2, <1>5, <2>1, Listed
      DEF IInv, JInv, AllTended, Tended, Clean, RunsOwn, Readied, Live, objects
    <2> QED
      BY <1>3, <2>1, <2>2 DEF JInv
  <1>6. CASE i <= Len(servers) /\ servers[i].failed
    <2>1. ResetServer(servers[i], "check")
      BY <1>2, <1>6 DEF CheckServerStatus
    <2>2. i \in DOMAIN servers /\ servers[i] \in Server /\ "check" \in Points
      BY <1>2, <1>6, Listed DEF IInv, Points
    <2>3. /\ pc' = "check" /\ i' = i + 1 /\ DOMAIN servers' = DOMAIN servers
          /\ ~servers'[i].failed /\ datadir'[i] = "clean"
          /\ \A k \in DOMAIN servers : k # i => servers'[k] = servers[k] /\ datadir'[k] = datadir[k]
          /\ \A k \in DOMAIN servers : RunsOwn(k)'
      BY <1>1, <2>1, <2>2, ResetTends
    <2>4. AllTended'
      BY <1>1, <1>2, <2>3, Listed DEF IInv, JInv, AllTended, Tended, Clean, Readied
    <2> QED
      BY <1>3, <2>3, <2>4 DEF JInv
  <1> QED
    BY <1>2, <1>4, <1>5, <1>6

\* A new server has a clean data directory.
LEMMA AllocateServes == ASSUME IInv, JInv, AllocateServer PROVE JInv'
  <1>1. /\ pc = "count" /\ Len(servers) < Len(test.reqs)
        /\ proc' = Evicted(proc, Len(servers) + 1)
        /\ datadir' = [datadir EXCEPT ![Len(servers) + 1] = "clean"]
        /\ UNCHANGED <<conf, pc, i, tested, judged>>
    BY DEF AllocateServer, At
  <1>2. PICK b \in FreeBlocks : servers' = Append(servers, NewServer(b))
    BY DEF AllocateServer
  <1> DEFINE n == Len(servers) + 1
  <1>3. n \in Places
    BY <1>1, Listed, TestTyped, ConstantsAssumption DEF IInv, Places
  <1>4. /\ NewServer(b) \in Server /\ NewServer(b).block = b /\ NewServer(b).opts = {} /\ ~NewServer(b).failed
        /\ b \in Blocks /\ b \notin locked
    BY <1>2 DEF NewServer, Server, FreeBlocks
  <1>5. /\ DOMAIN servers' = 1 .. n /\ DOMAIN servers = 1 .. n - 1 /\ servers'[n] = NewServer(b)
        /\ \A k \in DOMAIN servers : k # n /\ servers'[k] = servers[k]
    BY <1>2, <1>4, Listed DEF IInv, TypeOK
  <1>6. \A k \in DOMAIN servers : datadir'[k] = datadir[k]
    BY <1>1, <1>5, Listed DEF IInv, TypeOK
  <1>7. datadir'[n] = "clean"
    BY <1>1, <1>3 DEF IInv, TypeOK
  <1>8. ~Live(b)
    <2> SUFFICES ASSUME Live(b)
                 PROVE  FALSE
      OBVIOUS
    <2>1. PICK k \in DOMAIN servers : servers[k].block = b
      BY <1>4 DEF IInv, Known, AtHome
    <2> QED
      BY <1>1, <1>4, <2>1 DEF IInv, Held
  <1>9. \A c \in Blocks : /\ proc'[c].phase = proc[c].phase /\ proc'[c].opts = proc[c].opts
    BY <1>1 DEF IInv, TypeOK, Evicted, Process
  <1> HIDE DEF n
  <1>10. \A k \in DOMAIN servers' : k = n \/ k \in DOMAIN servers
    BY <1>3, <1>5 DEF Places
  <1>11. ASSUME NEW k \in DOMAIN servers'
         PROVE  Tended(k)'
    <2>1. CASE k = n
      BY <1>1, <1>4, <1>5, <1>7, <1>8, <1>9, <2>1 DEF Tended, Clean, RunsOwn, Readied, Live
    <2>2. CASE k \in DOMAIN servers
      <3>1. servers[k].block \in Blocks
        BY <2>2, Listed DEF IInv, Server
      <3> QED
        BY <1>1, <1>5, <1>6, <1>9, <2>2, <3>1 DEF JInv, AllTended, Tended, Clean, RunsOwn, Readied, Live
    <2> QED
      BY <1>10, <2>1, <2>2
  <1>12. AllServe' /\ Unread'
    BY <1>1 DEF JInv, AllServe, Unread, tested, judged
  <1> QED
    BY <1>11, <1>12 DEF JInv, AllTended

\* A server that is stopped keeps the rest of its record.
LEMMA StopServes ==
  ASSUME IInv, JInv, i \in DOMAIN servers, pc \in {"count", "cleanup"}, Stop(pc),
         UNCHANGED <<test, want, ran, datadir, status>>
  PROVE  JInv'
  <1>1. pc # "wait" /\ pc \in Points
    BY DEF Points
  <1>2. /\ pc' = pc /\ servers' = [servers EXCEPT ![i].status = 0]
        /\ \A b \in Blocks : Live(b)' => Live(b) /\ proc'[b] = proc[b] /\ b # servers[i].block
    BY <1>1, StopIsClean DEF Goto
  <1>3. /\ DOMAIN servers' = DOMAIN servers
        /\ \A k \in DOMAIN servers :
             /\ servers'[k].block = servers[k].block /\ servers'[k].failed = servers[k].failed
             /\ servers'[k].opts = servers[k].opts /\ servers'[k].needReset = servers[k].needReset
    BY <1>2, Listed DEF IInv, Server
  <1>4. ASSUME NEW k \in DOMAIN servers
        PROVE  Tended(k)'
    <2>1. servers[k].block \in Blocks
      BY Listed DEF IInv, Server
    <2> QED
      BY <1>2, <1>3, <2>1 DEF JInv, AllTended, Tended, Clean, RunsOwn, Readied, Live
  <1>5. AllServe' /\ Unread'
    BY <1>2 DEF JInv, AllServe, Unread
  <1> QED
    BY <1>3, <1>4, <1>5 DEF JInv, AllTended

\* The servers that stay are as they were.
LEMMA ServersCountedServes == ASSUME IInv, JInv, ServersCounted PROVE JInv'
  <1> DEFINE n == Len(test.reqs)
  <1>1. /\ pc = "count" /\ Len(servers) >= n /\ servers' = SubSeq(servers, 1, n)
        /\ pc' = "evaluate" /\ i' = 1 /\ UNCHANGED <<conf, tested, proc, datadir, judged>>
    BY DEF ServersCounted, At, Settled, Goto
  <1>2. n \in Nat
    BY TestTyped DEF IInv
  <1> HIDE DEF n
  <1>3. DOMAIN servers' = 1 .. n /\ \A k \in 1 .. n : k \in DOMAIN servers /\ servers'[k] = servers[k]
    BY <1>1, <1>2, Listed DEF IInv, TypeOK
  <1>4. ASSUME NEW k \in DOMAIN servers'
        PROVE  Tended(k)'
    <2>1. k \in DOMAIN servers /\ servers'[k] = servers[k] /\ Tended(k) /\ ~(k < 1)
      BY <1>3 DEF JInv, AllTended
    <2> QED
      BY <1>1, <2>1 DEF Tended, Clean, RunsOwn, Readied, Live
  <1>5. AllServe' /\ Unread'
    BY <1>1 DEF JInv, AllServe, Unread, tested, judged
  <1> QED
    BY <1>4, <1>5 DEF JInv, AllTended

\* The options that are compared are the test's, less the runner's.
LEMMA EvaluateServes == ASSUME Once, IInv, JInv, EvaluateServer PROVE JInv'
  <1> DEFINE kept    == [servers[i] EXCEPT !.opts = Current(i)]
             changed == [kept EXCEPT !.opts = Filtered(i), !.sameList = TRUE]
  <1>1. /\ pc = "evaluate" /\ i <= Len(servers) /\ UNCHANGED <<conf, test, ran, rep, locked, judged>>
        /\ \/ /\ OptionsMatch(i) /\ want' = [want EXCEPT ![i] = Marked(i)]
              /\ \/ servers[i].needReset /\ ResetServer(kept, "evaluate")
                 \/ /\ ~servers[i].needReset /\ Goto("evaluate", i + 1)
                    /\ servers' = [servers EXCEPT ![i] = kept] /\ UNCHANGED <<proc, datadir>>
           \/ /\ ~OptionsMatch(i) /\ want' = [want EXCEPT ![i] = Filtered(i)]
              /\ ResetServer(changed, "evaluate")
    BY DEF EvaluateServer, At
  <1>2. i \in DOMAIN servers /\ i \in Nat \ {0} /\ servers[i] \in Server /\ servers \in Seq(Server)
    BY <1>1, Listed DEF IInv, TypeOK
  <1>3. DOMAIN want = DOMAIN servers
    BY <1>1, Listed, TestTyped DEF IInv, TypeOK, Counted
  <1>4. i <= i /\ "evaluate" \in Points
    BY <1>2 DEF Points
  <1>5. Current(i) = servers[i].opts /\ servers[i].opts \cap RunnerOptions = {}
    BY <1>1, <1>2, <1>4 DEF IInv, AllPlain, Plain, Current
  <1>6. kept = servers[i]
    BY <1>2, <1>5 DEF Server
  <1>7. Filtered(i) \subseteq Options
    BY <1>2, <1>3, ListsTyped DEF IInv
  <1>8. changed \in Server /\ changed.block = servers[i].block /\ changed.hasPid = servers[i].hasPid
        /\ changed.opts = Filtered(i)
    BY <1>2, <1>6, <1>7 DEF Server
  <1>9. want[i] = test.reqs[i]
    BY <1>1, <1>2, <1>3, <1>4 DEF JInv, Unread
  <1>10. Filtered(i) = test.reqs[i] \ RunnerOptions
    BY <1>9, ConstantsAssumption DEF Filtered, Marked
  <1>11. OptionsMatch(i) => /\ servers[i].opts = test.reqs[i] \ RunnerOptions
                           /\ Restart \notin test.reqs[i]
    BY <1>5, <1>9, ConstantsAssumption DEF OptionsMatch, Marked
  <1> HIDE DEF kept, changed
  <1>12. (Unread' /\ AllServe') \/ ~(pc' = "evaluate" /\ i' = i + 1)
    <2> SUFFICES ASSUME pc' = "evaluate", i' = i + 1
                 PROVE  Unread' /\ AllServe'
      OBVIOUS
    <2>1. DOMAIN want' = DOMAIN want /\ \A k \in DOMAIN want : k # i => want'[k] = want[k]
      BY <1>1
    <2>2. Unread'
      BY <1>1, <1>2, <1>3, <2>1, Listed DEF IInv, JInv, Unread
    <2> QED
      BY <1>1, <2>2 DEF JInv, AllServe, judged
  <1>13. ASSUME NEW s \in Server, s.block = servers[i].block, s.hasPid = servers[i].hasPid,
                s.opts = test.reqs[i] \ RunnerOptions, ResetServer(s, "evaluate")
         PROVE  JInv'
    <2>1. /\ pc' = "evaluate" /\ i' = i + 1 /\ DOMAIN servers' = DOMAIN servers
          /\ servers'[i].status = 0 /\ ~servers'[i].failed /\ ~servers'[i].needReset
          /\ servers'[i].opts = s.opts /\ datadir'[i] = "clean"
          /\ \A k \in DOMAIN servers : k # i => servers'[k] = servers[k] /\ datadir'[k] = datadir[k]
          /\ \A k \in DOMAIN servers : RunsOwn(k)'
      BY <1>1, <1>2, <1>4, <1>13, ResetTends
    <2>2. AllTended'
      BY <1>1, <1>2, <1>13, <2>1, Listed DEF IInv, JInv, AllTended, Tended, Clean, Readied, Fits, Idle
    <2> QED
      BY <1>12, <2>1, <2>2 DEF JInv
  <1>14. CASE ResetServer(changed, "evaluate")
    BY <1>8, <1>10, <1>13, <1>14
  <1>15. CASE OptionsMatch(i) /\ ResetServer(kept, "evaluate")
    BY <1>2, <1>6, <1>11, <1>13, <1>15
  <1>16. CASE OptionsMatch(i) /\ ~servers[i].needReset /\ Goto("evaluate", i + 1)
              /\ servers' = [servers EXCEPT ![i] = kept] /\ UNCHANGED <<proc, datadir>>
    <2>1. servers' = servers /\ pc' = "evaluate" /\ i' = i + 1
      BY <1>2, <1>6, <1>16 DEF Goto
    <2>2. datadir[i] = "clean"
      <3>1. datadir[i] \in {"clean", "loaded", "dirty"}
        BY <1>2, Listed DEF IInv, TypeOK
      <3> QED
        BY <1>1, <1>2, <1>16, <3>1 DEF JInv, AllTended, Tended, Clean
    <2>3. Fits(i) /\ Restart \notin test.reqs[i]
      BY <1>11, <1>16 DEF Fits
    <2>4. ASSUME NEW k \in DOMAIN servers
          PROVE  Tended(k)'
      <3>1. Tended(k) /\ (k < i + 1 => k = i \/ k < i)
        BY <1>2, Listed DEF IInv, JInv, AllTended
      <3> QED
        BY <1>1, <1>16, <2>1, <2>2, <2>3, <3>1 DEF Tended, Clean, RunsOwn, Readied, Live, Fits, Idle
    <2> QED
      BY <1>12, <2>1, <2>4 DEF JInv, AllTended
  <1> QED
    BY <1>1, <1>14, <1>15, <1>16

\* When the data is loaded every server is as the test wants it.
LEMMA LoadDatadirsServes == ASSUME IInv, JInv, LoadDatadirs PROVE JInv'
  <1>1. /\ pc = "evaluate" /\ i > Len(servers) /\ pc' = "start" /\ i' = 1
        /\ proc' = [b \in Blocks |-> IF Live(b) /\ proc[b].place \in test.loads
                                     THEN [proc[b] EXCEPT !.home = FALSE] ELSE proc[b]]
        /\ datadir' = [k \in Places |-> IF k \in test.loads THEN "loaded" ELSE datadir[k]]
        /\ servers' = [k \in DOMAIN servers |->
                         IF k \in test.loads THEN [servers[k] EXCEPT !.needReset = TRUE] ELSE servers[k]]
        /\ UNCHANGED <<conf, tested, locked, judged>>
    BY DEF LoadDatadirs, At, Goto
  <1>2. /\ DOMAIN servers' = DOMAIN servers
        /\ \A k \in DOMAIN servers :
             /\ servers'[k].block = servers[k].block /\ servers'[k].failed = servers[k].failed
             /\ servers'[k].opts = servers[k].opts
             /\ servers'[k].needReset = (k \in test.loads \/ servers[k].needReset)
    BY <1>1, Listed DEF IInv, Server
  <1>3. \A k \in DOMAIN servers : datadir'[k] = IF k \in test.loads THEN "loaded" ELSE datadir[k]
    BY <1>1, Listed DEF IInv
  <1>4. \A c \in Blocks : /\ proc'[c].phase = proc[c].phase /\ proc'[c].opts = proc[c].opts
    BY <1>1 DEF IInv, TypeOK, Process
  <1>5. ASSUME NEW k \in DOMAIN servers
        PROVE  Tended(k)' /\ Readied(k) /\ k < i
    <2>1. servers[k].block \in Blocks /\ Tended(k) /\ k < i
      BY <1>1, Listed DEF IInv, TypeOK, Server, JInv, AllTended
    <2>2. Readied(k)
      BY <2>1 DEF Tended
    <2>3. RunsOwn(k)'
      BY <1>2, <1>4, <2>1 DEF Tended, RunsOwn, Live
    <2>4. Clean(k)' /\ Readied(k)'
      BY <1>1, <1>2, <1>3, <2>1 DEF Tended, Clean, Readied
    <2> QED
      BY <2>1, <2>2, <2>3, <2>4 DEF Tended
  <1>6. ASSUME NEW k \in DOMAIN test'.reqs
        PROVE  Serves(k)'
    <2>1. test' = test /\ ran' = ran /\ k \in DOMAIN servers
      BY <1>1, <1>6, Listed, TestTyped DEF IInv, Counted, tested
    <2>2. Fits(k) /\ datadir[k] = "clean" /\ (Restart \in test.reqs[k] => Idle(k))
      BY <1>1, <1>5, <2>1 DEF Readied
    <2>3. servers[k].block \in Blocks
      BY <2>1, Listed DEF IInv, Server
    <2>4. Restart \in test.reqs[k] => ~Live(servers[k].block)
      BY <1>1, <2>1, <2>2, IdleIsDead
    <2>5. Restart \in test.reqs[k] => proc'[servers'[k].block].phase = "none"
      BY <1>2, <1>4, <2>1, <2>3, <2>4 DEF Live
    <2>6. Fits(k)' /\ datadir'[k] = IF k \in test.loads THEN "loaded" ELSE "clean"
      BY <1>2, <1>3, <2>1, <2>2 DEF Fits
    <2> QED
      BY <1>2, <2>1, <2>5, <2>6 DEF Serves, Live
  <1>7. AllTended'
    BY <1>2, <1>5 DEF AllTended
  <1>8. AllServe'
    BY <1>6 DEF AllServe
  <1>9. Unread'
    BY <1>1 DEF JInv, Unread, tested, judged
  <1> QED
    BY <1>7, <1>8, <1>9 DEF JInv

\* The process is given the options of its server.
LEMMA LaunchServes == ASSUME IInv, JInv, Launch PROVE JInv'
  <1>1. /\ pc = "start" /\ i <= Len(servers) /\ servers[i].status = 0
        /\ servers' = [servers EXCEPT ![i].hasPid = FALSE]
        /\ pc' = "wait" /\ i' = i /\ UNCHANGED <<conf, tested, locked, datadir, judged>>
    BY DEF Launch, At, Goto
  <1> DEFINE b == servers[i].block
             new == [phase |-> "booting", place |-> i, opts |-> servers[i].opts,
                     home |-> TRUE, since |-> ran, missed |-> FALSE]
  <1>2. i \in DOMAIN servers /\ b \in Blocks
    BY <1>1, Listed DEF IInv, TypeOK, Server
  <1>3. proc' = [proc EXCEPT ![b] = new]
    BY <1>1, <1>2, IdleIsDead DEF Idle, Launch
  <1>4. \A c \in Blocks : proc'[c] = IF c = b THEN new ELSE proc[c]
    BY <1>2, <1>3 DEF IInv, TypeOK
  <1>5. /\ DOMAIN servers' = DOMAIN servers
        /\ \A k \in DOMAIN servers :
             /\ servers'[k].block = servers[k].block /\ servers'[k].failed = servers[k].failed
             /\ servers'[k].opts = servers[k].opts /\ servers'[k].needReset = servers[k].needReset
    BY <1>1, <1>2, Listed DEF IInv, Server
  <1>6. new.opts = servers[i].opts /\ new.since = ran
    OBVIOUS
  <1> HIDE DEF new
  <1>7. ASSUME NEW k \in DOMAIN servers
        PROVE  Tended(k)' /\ (Live(servers[k].block)' /\ k # i => Live(servers[k].block)
                             /\ proc'[servers[k].block] = proc[servers[k].block])
    <2>1. servers[k].block \in Blocks /\ Tended(k) /\ (servers[k].block = b => k = i)
      BY <1>2, Listed DEF IInv, Server, Apart, JInv, AllTended
    <2>2. CASE k = i
      <3>1. proc'[servers'[k].block] = new /\ servers'[k].opts = servers[i].opts
        BY <1>2, <1>4, <1>5, <2>2
      <3>2. RunsOwn(k)'
        BY <1>6, <3>1 DEF RunsOwn
      <3> QED
        BY <1>1, <1>5, <2>1, <2>2, <3>2 DEF Tended, Clean, Readied
    <2>3. CASE k # i
      <3>1. proc'[servers[k].block] = proc[servers[k].block]
        BY <1>4, <2>1, <2>3
      <3>2. RunsOwn(k)'
        BY <1>5, <2>1, <3>1 DEF Tended, RunsOwn, Live
      <3> QED
        BY <1>1, <1>5, <2>1, <3>1, <3>2 DEF Tended, Clean, Readied, Live
    <2> QED
      BY <2>2, <2>3
  <1>8. ASSUME NEW k \in DOMAIN test'.reqs
        PROVE  Serves(k)'
    <2>1. test' = test /\ ran' = ran /\ datadir' = datadir
      BY <1>1 DEF tested
    <2>2. Serves(k)
      BY <1>1, <1>8, <2>1 DEF JInv, AllServe
    <2>3. k \in DOMAIN servers /\ servers[k].block \in Blocks /\ (servers[k].block = b => k = i)
      BY <1>2, <2>2, Listed DEF IInv, Server, Apart, Serves
    <2>4. proc'[servers[k].block] = IF k = i THEN new ELSE proc[servers[k].block]
      BY <1>4, <2>3
    <2>5. servers'[k].block = servers[k].block /\ Fits(k)'
      BY <1>5, <2>1, <2>2, <2>3 DEF Serves, Fits
    <2>6. Restart \in test.reqs[k] /\ proc'[servers[k].block].phase # "none"
            => proc'[servers[k].block].since = ran
      BY <1>6, <2>2, <2>4 DEF Serves, Live
    <2> QED
      BY <1>5, <2>1, <2>2, <2>3, <2>5, <2>6 DEF Serves, Live
  <1>9. AllTended' /\ AllServe'
    BY <1>5, <1>7, <1>8 DEF AllTended, AllServe
  <1>10. Unread'
    BY <1>1 DEF JInv, Unread, tested, judged
  <1> QED
    BY <1>9, <1>10 DEF JInv

\* A step that changes what a server remembers of its process, or that it failed.
LEMMA NotedServes ==
  ASSUME IInv, JInv, UNCHANGED <<datadir, test, ran>>, DOMAIN servers' = DOMAIN servers,
         \A k \in DOMAIN servers :
           /\ servers'[k].block = servers[k].block /\ servers'[k].opts = servers[k].opts
           /\ servers'[k].needReset = servers[k].needReset
           /\ servers[k].failed => servers'[k].failed
           /\ pc' = "start" => servers'[k].failed = servers[k].failed,
         \A b \in Blocks : /\ proc'[b].phase = proc[b].phase /\ proc'[b].opts = proc[b].opts
                           /\ proc'[b].since = proc[b].since,
         pc \in {"start", "wait"}, pc' \in {"start", "ready"}
  PROVE  AllTended' /\ AllServe'
  <1>3. \A k \in DOMAIN servers : servers[k].block \in Blocks
    BY Listed DEF IInv, Server
  <1>1. ASSUME NEW k \in DOMAIN servers
        PROVE  Tended(k)'
    BY <1>3 DEF JInv, AllTended, Tended, Clean, RunsOwn, Readied, Live
  <1>2. ASSUME NEW k \in DOMAIN test.reqs
        PROVE  Serves(k)'
    BY <1>3 DEF JInv, AllServe, Serves, Fits, Live
  <1> QED
    BY <1>1, <1>2 DEF AllTended, AllServe

\* Waiting changes neither options nor data.
LEMMA AnsweredServes == ASSUME IInv, JInv, Answered PROVE JInv'
  <1>1. /\ pc = "wait" /\ pc' = "start"
        /\ servers' = [servers EXCEPT ![i].status = 1, ![i].hasPid = TRUE]
        /\ proc' = [proc EXCEPT ![servers[i].block].missed = FALSE]
        /\ UNCHANGED <<conf, tested, locked, datadir, judged>>
    BY DEF Answered, At, Goto
  <1>2. i \in DOMAIN servers /\ servers[i].block \in Blocks /\ proc \in [Blocks -> Process]
    BY <1>1, Listed DEF IInv, Counted, TypeOK, Server
  <1>6. \A b \in Blocks : /\ proc'[b].phase = proc[b].phase /\ proc'[b].opts = proc[b].opts
                          /\ proc'[b].since = proc[b].since
    BY <1>1, <1>2, OnlyMarked
  <1>3. /\ DOMAIN servers' = DOMAIN servers
        /\ \A k \in DOMAIN servers :
             /\ servers'[k].block = servers[k].block /\ servers'[k].opts = servers[k].opts
             /\ servers'[k].needReset = servers[k].needReset /\ servers'[k].failed = servers[k].failed
    BY <1>1, <1>2, Listed DEF IInv, Server
  <1>4. AllTended' /\ AllServe'
    BY <1>1, <1>3, <1>6, NotedServes DEF tested
  <1>5. Unread'
    BY <1>1 DEF JInv, Unread, tested, judged
  <1> QED
    BY <1>4, <1>5 DEF JInv

\* Nor does giving up.
LEMMA StartTimeoutServes == ASSUME IInv, JInv, StartTimeout PROVE JInv'
  <1>1. /\ pc = "wait" /\ pc' = "start" /\ proc' = Miss(servers[i].block)
        /\ UNCHANGED <<conf, tested, servers, datadir, locked, status>>
    BY DEF StartTimeout, GivesUp, At, Goto
  <1>2. i \in DOMAIN servers /\ servers[i].block \in Blocks /\ proc \in [Blocks -> Process]
    BY <1>1, Listed DEF IInv, Counted, TypeOK, Server
  <1>3. Live(servers[i].block) \in BOOLEAN
    BY DEF Live
  <1>4. \A b \in Blocks : /\ proc'[b].phase = proc[b].phase /\ proc'[b].opts = proc[b].opts
                          /\ proc'[b].since = proc[b].since
    BY <1>1, <1>2, <1>3, OnlyMarked DEF Miss
  <1>5. AllTended' /\ AllServe'
    BY <1>1, <1>4, NotedServes DEF tested
  <1>6. Unread'
    BY <1>1 DEF JInv, Unread, tested
  <1> QED
    BY <1>5, <1>6 DEF JInv

\* Marking changes nothing else.
LEMMA MarkingKeeps ==
  ASSUME TypeOK, NEW st, servers' = MarkFailed(servers, st)
  PROVE  \A k \in DOMAIN servers : /\ servers'[k].needReset = servers[k].needReset
                                   /\ servers[k].failed => servers'[k].failed
  <1>1. \A k \in DOMAIN servers :
          servers'[k] = IF st = "fail" THEN [servers[k] EXCEPT !.failed = TRUE] ELSE servers[k]
    BY DEF MarkFailed
  <1> QED
    BY <1>1, Listed DEF Server

\* Nor does the mark of a failed start.
LEMMA ServersStartedServes == ASSUME IInv, JInv, ServersStarted PROVE JInv'
  <1>1. /\ pc = "start" /\ pc' = "ready" /\ servers' = MarkFailed(servers, status')
        /\ UNCHANGED <<conf, tested, proc, datadir, locked, badStart>>
    BY DEF ServersStarted, At, Goto
  <1>2. /\ DOMAIN servers' = DOMAIN servers
        /\ \A k \in DOMAIN servers :
             /\ servers'[k].block = servers[k].block /\ servers'[k].opts = servers[k].opts
    BY <1>1, Marking DEF IInv
  <1>3. \A k \in DOMAIN servers : /\ servers'[k].needReset = servers[k].needReset
                                  /\ servers[k].failed => servers'[k].failed
    BY <1>1, MarkingKeeps DEF IInv
  <1>4. AllTended' /\ AllServe'
    BY <1>1, <1>2, <1>3, NotedServes DEF tested
  <1>5. Unread'
    BY <1>1 DEF JInv, Unread, tested
  <1> QED
    BY <1>4, <1>5 DEF JInv

\* A failed test leaves dirty data, and servers marked as failed.
LEMMA RunTestServes == ASSUME IInv, JInv, RunTest PROVE JInv'
  <1>1. pc' \in {"after", "record"} /\ UNCHANGED <<conf, tested, locked, badStart>>
    BY DEF RunTest, Goto
  <1>2. PICK st \in {"pass", "skipped", "fail"}, dead \in SUBSET {b \in Blocks : Live(b)} :
          /\ servers' = MarkFailed(servers, st)
          /\ proc' = [b \in Blocks |-> IF b \in dead THEN NoProc ELSE proc[b]]
          /\ datadir' = [k \in Places |-> IF st = "fail" /\ k \in DOMAIN servers
                                          THEN "dirty" ELSE datadir[k]]
    BY DEF RunTest
  <1>3. /\ DOMAIN servers' = DOMAIN servers
        /\ \A k \in DOMAIN servers :
             /\ servers'[k].block = servers[k].block /\ servers'[k].opts = servers[k].opts
             /\ st = "fail" => servers'[k].failed
    BY <1>2, Marking DEF IInv
  <1>4. \A k \in DOMAIN servers : /\ servers'[k].needReset = servers[k].needReset
                                  /\ servers[k].failed => servers'[k].failed
    BY <1>2, MarkingKeeps DEF IInv
  <1>5. \A b \in Blocks : proc'[b].phase # "none" => proc'[b] = proc[b]
    BY <1>2 DEF NoProc
  <1>6. \A k \in DOMAIN servers : datadir'[k] = IF st = "fail" THEN "dirty" ELSE datadir[k]
    BY <1>2, Listed DEF IInv
  <1>7. ASSUME NEW k \in DOMAIN servers
        PROVE  Tended(k)'
    <2>1. servers[k].block \in Blocks /\ Tended(k)
      BY Listed DEF IInv, Server, JInv, AllTended
    <2>2. RunsOwn(k)'
      BY <1>3, <1>5, <2>1 DEF Tended, RunsOwn, Live
    <2>3. Clean(k)' /\ Readied(k)'
      BY <1>1, <1>3, <1>4, <1>6, <2>1 DEF Tended, Clean, Readied
    <2> QED
      BY <2>2, <2>3 DEF Tended
  <1>9. AllTended' /\ AllServe' /\ Unread'
    BY <1>1, <1>3, <1>7 DEF JInv, AllTended, AllServe, Unread
  <1> QED
    BY <1>9 DEF JInv

\* The reset after a native test cleans up.
LEMMA ResetServersServes == ASSUME IInv, JInv, ResetServers PROVE JInv'
  <1>1. pc = "after" /\ UNCHANGED <<conf, tested, locked, judged>>
    BY DEF ResetServers, At
  <1>2. i \in Nat /\ i # 0 /\ Len(servers) \in Nat
    BY Listed DEF IInv, TypeOK
  <1>3. pc' \in {"after", "record"} => AllServe' /\ Unread'
    BY <1>1 DEF JInv, AllServe, Unread, tested, judged
  <1>4. CASE i > Len(servers)
    <2>1. pc' = "record" /\ UNCHANGED objects
      BY <1>2, <1>4 DEF ResetServers, Goto
    <2>2. AllTended'
      BY <2>1 DEF JInv, AllTended, Tended, Clean, RunsOwn, Readied, Live, objects
    <2> QED
      BY <1>3, <2>1, <2>2 DEF JInv
  <1>5. CASE i <= Len(servers)
    <2>1. ResetServer(servers[i], "after")
      BY <1>2, <1>5 DEF ResetServers
    <2>2. i \in DOMAIN servers /\ servers[i] \in Server /\ "after" \in Points
      BY <1>2, <1>5, Listed DEF IInv, Points
    <2>3. /\ pc' = "after" /\ DOMAIN servers' = DOMAIN servers /\ datadir'[i] = "clean"
          /\ \A k \in DOMAIN servers : k # i => servers'[k] = servers[k] /\ datadir'[k] = datadir[k]
          /\ \A k \in DOMAIN servers : RunsOwn(k)'
      BY <1>1, <2>1, <2>2, ResetTends
    <2>4. AllTended'
      BY <2>3 DEF JInv, AllTended, Tended, Clean, Readied
    <2> QED
      BY <1>3, <2>3, <2>4 DEF JInv
  <1> QED
    BY <1>2, <1>4, <1>5

\* The clean-up leaves the data alone.
LEMMA StopAllServersServes == ASSUME IInv, JInv, StopAllServers PROVE JInv'
  <1>1. pc = "cleanup" /\ UNCHANGED <<conf, tested, datadir, locked, judged>>
    BY DEF StopAllServers, At
  <1>2. CASE UNCHANGED <<servers, proc>> /\ (Goto("ended", 1) \/ Goto("free", 1))
    <2>1. pc' \in {"ended", "free"}
      BY <1>2 DEF Goto
    <2>2. AllTended'
      BY <1>1, <1>2, <2>1 DEF JInv, AllTended, Tended, Clean, RunsOwn, Readied, Live
    <2>3. AllServe' /\ Unread'
      BY <1>1, <2>1 DEF JInv, AllServe, Unread, tested, judged
    <2> QED
      BY <2>2, <2>3 DEF JInv
  <1>3. CASE i <= Len(servers) /\ Stop("cleanup")
    <2>1. i \in DOMAIN servers
      BY <1>3, Listed DEF IInv, TypeOK
    <2> QED
      BY <1>1, <1>3, <2>1, StopServes DEF tested, judged
  <1> QED
    BY <1>2, <1>3 DEF StopAllServers

\* A process that comes up keeps its options.
LEMMA BootServes == ASSUME IInv, JInv, NEW b \in Blocks, Boot(b) PROVE JInv'
  <1>1. /\ proc[b].phase = "booting"
        /\ proc' = [proc EXCEPT ![b].phase = "up"] \/ proc' = [proc EXCEPT ![b] = NoProc]
        /\ UNCHANGED <<conf, pc, i, tested, servers, datadir, locked, judged>>
    BY DEF Boot
  <1>2. \A c \in Blocks : proc'[c].phase # "none" =>
          proc[c].phase # "none" /\ proc'[c].opts = proc[c].opts /\ proc'[c].since = proc[c].since
    <2> DEFINE up == [proc[b] EXCEPT !.phase = "up"]
    <2>1. proc[b] \in Process /\ proc \in [Blocks -> Process]
      BY DEF IInv, TypeOK
    <2>2. up.opts = proc[b].opts /\ up.since = proc[b].since /\ NoProc.phase = "none"
      BY <2>1 DEF Process, NoProc
    <2>3. proc' = [proc EXCEPT ![b] = up] \/ proc' = [proc EXCEPT ![b] = NoProc]
      BY <1>1
    <2> HIDE DEF up
    <2>4. /\ \A c \in Blocks : c # b => proc'[c] = proc[c]
          /\ proc'[b] = up \/ proc'[b] = NoProc
      BY <2>1, <2>3
    <2> QED
      BY <1>1, <2>2, <2>4
  <1>3. \A k \in DOMAIN servers : servers[k].block \in Blocks
    BY Listed DEF IInv, Server
  <1>4. ASSUME NEW k \in DOMAIN servers
        PROVE  Tended(k)'
    BY <1>1, <1>2, <1>3 DEF JInv, AllTended, Tended, Clean, RunsOwn, Readied, Live, Fits, Idle, tested
  <1>5. AllServe'
    BY <1>1, <1>2, <1>3 DEF JInv, AllServe, Serves, Fits, Live, tested
  <1>6. AllTended' /\ Unread'
    BY <1>1, <1>4 DEF JInv, AllTended, Unread, tested, judged
  <1> QED
    BY <1>5, <1>6 DEF JInv

\* Every step keeps the second invariant.
LEMMA NextServes == ASSUME Once, IInv, JInv, [Next]_vars PROVE JInv'
  <1>1. CASE Runner
    <2>1. ~RepeatTest
      BY DEF Once, RepeatTest, IInv, TypeOK
    <2>2. CASE RetireServer
      <3>1. pc = "count" /\ i <= Len(servers) /\ Stop("count") /\ UNCHANGED <<conf, tested, datadir, locked, judged>>
        BY <2>2 DEF RetireServer, At
      <3>2. i \in DOMAIN servers
        BY <3>1, Listed DEF IInv, TypeOK
      <3> QED
        BY <3>1, <3>2, StopServes DEF tested, judged
    <2>3. \/ GetTestCase \/ CheckServerStatus \/ AllocateServer \/ RetireServer \/ ServersCounted
          \/ EvaluateServer \/ LoadDatadirs \/ Launch \/ Answered \/ StartTimeout \/ ServersStarted
          \/ ResetServers \/ StopAllServers \/ NoMoreTests \/ AlreadyRunning \/ Ready
          \/ RecordTestResult \/ CleanupAllServers \/ StartAndExit
      BY <1>1, <2>1 DEF Runner
    <2> QED
      BY <2>2, <2>3, GetTestCaseServes, CheckServes, AllocateServes, ServersCountedServes, EvaluateServes,
         LoadDatadirsServes, LaunchServes, AnsweredServes, StartTimeoutServes, ServersStartedServes,
         ResetServersServes, StopAllServersServes, RecordServes, QuietStepsServe
  <1>2. CASE Interrupt
    BY <1>2, QuietStepsServe
  <1>3. CASE \E b \in Blocks : Boot(b) \/ Hang(b)
    BY <1>3, BootServes DEF Hang, IInv
  <1>5. CASE RunTest
    BY <1>5, RunTestServes
  <1>4. CASE UNCHANGED vars
    BY <1>4 DEF vars, objects, tested, judged, JInv, AllTended, Tended, Clean, RunsOwn, Readied, Fits, Idle,
                AllServe, Serves, Unread, Live
  <1> QED
    BY <1>1, <1>2, <1>3, <1>4, <1>5 DEF Next

\* It holds at the start.
LEMMA InitServes == ASSUME Init PROVE JInv
  <1>1. PICK b \in Blocks : servers = <<NewServer(b)>>
    BY DEF Init
  <1>2. DOMAIN servers = {1} /\ servers[1] = NewServer(b) /\ 1 \in Places
    BY <1>1, ConstantsAssumption DEF Places
  <1>3. AllTended
    <2>1. servers[1].block \in Blocks /\ pc = "next"
      BY <1>2 DEF NewServer, Init
    <2>2. ~Live(servers[1].block)
      BY <2>1 DEF Init, Live, NoProc
    <2>3. datadir[1] = "clean"
      BY <1>2 DEF Init
    <2> QED
      BY <1>2, <2>1, <2>2, <2>3 DEF AllTended, Tended, Clean, RunsOwn, Readied
  <1>4. AllServe /\ Unread
    BY DEF Init, AllServe, Unread
  <1> QED
    BY <1>3, <1>4 DEF JInv

\* No test is run once the clean-up has begun.
LEMMA NoneAfter == ASSUME CleaningUp, [Next]_vars PROVE CleaningUp'
  <1>1. CASE StopAllServers
    BY <1>1 DEF StopAllServers, Stop, Lingers, Raise, At, Goto, CleaningUp
  <1>2. CASE CleanupAllServers
    BY <1>2 DEF CleanupAllServers, At, Goto, CleaningUp
  <1>3. CASE (\E b \in Blocks : Boot(b) \/ Hang(b)) \/ UNCHANGED vars
    BY <1>3 DEF Boot, Hang, vars, CleaningUp
  <1> QED
    BY <1>1, <1>2, <1>3
    DEF Next, Runner, GetTestCase, RepeatTest, NoMoreTests, CheckServerStatus, AllocateServer,
        RetireServer, ServersCounted, EvaluateServer, LoadDatadirs, Launch, AlreadyRunning,
        Answered, GivesUp, StartTimeout, ServersStarted, StartAndExit, Ready, RunTest, ResetServers,
        RecordTestResult, Interrupt, At, CleaningUp

\* Both invariants hold until then.
LEMMA AlwaysServes == ASSUME Outwaits, Once PROVE Spec => []((IInv /\ JInv) \/ CleaningUp)
  <1>1. Init => IInv /\ JInv
    BY InitIsRight, InitServes DEF Outwaits
  <1>2. IInv /\ JInv /\ [Next]_vars => (IInv' /\ JInv') \/ CleaningUp'
    <2>1. Interrupt => CleaningUp'
      BY DEF Interrupt, Goto, CleaningUp
    <2> QED
      BY <2>1, NextIsRight, NextServes
  <1>3. CleaningUp /\ [Next]_vars => CleaningUp'
    BY NoneAfter
  <1> QED
    BY <1>1, <1>2, <1>3, PTL DEF Spec

\* A test runs on servers with its options, less the runner's, on clean data
\* or the data it loads, restarted if it says so (request_servers).
THEOREM TestsRunAsAsked == ASSUME Outwaits, Once PROVE Spec => []RunsAsAsked
  <1>1. (IInv /\ JInv) \/ CleaningUp => RunsAsAsked
    <2>1. CleaningUp => pc # "run"
      BY DEF CleaningUp
    <2> SUFFICES ASSUME IInv, JInv, pc = "run", NEW k \in DOMAIN test.reqs,
                        proc[servers[k].block].phase # "none"
                 PROVE  /\ proc[servers[k].block].opts = test.reqs[k] \ RunnerOptions
                        /\ datadir[k] = IF k \in test.loads THEN "loaded" ELSE "clean"
                        /\ Restart \in test.reqs[k] => proc[servers[k].block].since = ran
      BY <2>1 DEF RunsAsAsked, At
    <2>2. Serves(k)
      BY DEF JInv, AllServe
    <2>3. RunsOwn(k)
      BY <2>2 DEF JInv, AllTended, Tended, Serves
    <2> QED
      BY <2>2, <2>3 DEF Serves, Fits, RunsOwn, Live
  <1> QED
    BY <1>1, AlwaysServes, PTL
-----------------------------------------------------------------------------
(* Which servers are left, whatever servers and interrupts do.  Once stop()  *)
(* has been called for a server, its process is gone or has missed a ping.   *)
Missed(b) == Live(b) => proc[b].missed
Swept(k) ==
  \/ pc = "count" /\ Len(test.reqs) < k /\ k < i
  \/ pc = "cleanup" /\ k < i
  \/ pc = "free"
Tracked ==
  \A b \in Blocks : Missed(b) \/ \E k \in DOMAIN servers : servers[k].block = b /\ ~Swept(k)
KInv ==
  /\ TypeOK /\ Apart /\ Held /\ Counted
  /\ pc # "ended" => Tracked
  /\ OnlyMissedAreLeft

\* A step that starts no server and takes no mark away.
NoneNew == \A b \in Blocks : Missed(b) => Missed(b)'
SameBlocks ==
  /\ DOMAIN servers' = DOMAIN servers
  /\ \A k \in DOMAIN servers : servers'[k].block = servers[k].block

\* Such a step keeps the invariant when it sweeps no server that still answers,
\* or ends the run with all port files in place.
LEMMA StepKeeps ==
  ASSUME KInv, pc # "ended", TypeOK', Counted', SameBlocks, NoneNew, locked' = locked,
         \/ pc' = "ended"
         \/ \A k \in DOMAIN servers : \A b \in Blocks :
              servers[k].block = b /\ Swept(k)' => Swept(k) \/ Missed(b)'
  PROVE  KInv'
  <1>1. Apart' /\ Held'
    BY DEF KInv, Apart, Held, SameBlocks
  <1>2. CASE pc' = "ended"
    <2>1. \A k \in DOMAIN servers' : servers'[k].block \in locked'
      BY DEF KInv, Held, SameBlocks
    <2> QED
      BY <1>1, <1>2, <2>1 DEF KInv, OnlyMissedAreLeft
  <1>3. CASE pc' # "ended"
    <2>1. ASSUME NEW b \in Blocks, ~Missed(b)'
          PROVE  \E k \in DOMAIN servers' : servers'[k].block = b /\ ~Swept(k)'
      <3>1. ~Missed(b)
        BY <2>1 DEF NoneNew
      <3>2. PICK k \in DOMAIN servers : servers[k].block = b /\ ~Swept(k)
        BY <3>1 DEF KInv, Tracked
      <3> QED
        BY <1>3, <2>1, <3>2 DEF SameBlocks
    <2>2. Tracked'
      BY <2>1 DEF Tracked
    <2> QED
      BY <1>1, <1>3, <2>2 DEF KInv, OnlyMissedAreLeft, At
  <1> QED
    BY <1>2, <1>3

\* stop() ends the process or finds that it does not answer.
LEMMA StopProcLeaves ==
  ASSUME TypeOK, NEW s, s.block \in Blocks
  PROVE  /\ StopProc(s) \in [Blocks -> Process]
         /\ \A b \in Blocks : (b = s.block \/ Missed(b)) /\ StopProc(s)[b].phase # "none"
                                => StopProc(s)[b].missed
  <1> DEFINE P == StopProc(s)
             d == s.block
  <1>1. proc \in [Blocks -> Process] /\ d \in Blocks
    BY DEF TypeOK
  <1>2. NoProc \in Process /\ NoProc.phase = "none"
    BY ConstantsAssumption DEF NoProc, Process, Places
  <1>3. CASE Answers(s)
    <2>1. P = [proc EXCEPT ![d] = NoProc]
      BY <1>3 DEF StopProc
    <2> QED
      BY <1>1, <1>2, <2>1 DEF Missed, Live
  <1>4. CASE ~Answers(s)
    <2> DEFINE m == Live(d)
    <2>1. m \in BOOLEAN
      BY DEF Live
    <2>2. P = [proc EXCEPT ![d].missed = m]
      BY <1>4 DEF StopProc, Miss
    <2> HIDE DEF P, m
    <2>3. /\ P \in [Blocks -> Process] /\ P[d].missed = m
          /\ \A c \in Blocks : c # d => P[c] = proc[c]
          /\ \A c \in Blocks : P[c].phase = proc[c].phase
      BY <1>1, <2>1, <2>2, OnlyMarked
    <2>4. P[d].phase # "none" => P[d].missed
      BY <1>1, <2>3 DEF m, Live
    <2>5. \A b \in Blocks : (b = d \/ Missed(b)) /\ P[b].phase # "none" => P[b].missed
      BY <2>3, <2>4 DEF Missed, Live
    <2> QED
      BY <2>3, <2>5 DEF P
  <1> QED
    BY <1>3, <1>4

\* A data directory that is taken from a process changes no mark.
LEMMA EvictedLeaves ==
  ASSUME NEW P \in [Blocks -> Process], NEW k
  PROVE  /\ Evicted(P, k) \in [Blocks -> Process]
         /\ \A b \in Blocks : /\ Evicted(P, k)[b].phase = P[b].phase
                              /\ Evicted(P, k)[b].missed = P[b].missed
  <1>1. \A b \in Blocks : /\ P[b] \in Process /\ [P[b] EXCEPT !.home = FALSE] \in Process
                           /\ [P[b] EXCEPT !.home = FALSE].phase = P[b].phase
                           /\ [P[b] EXCEPT !.home = FALSE].missed = P[b].missed
    <2>1. \A b \in Blocks : P[b] \in Process
      OBVIOUS
    <2> QED
      BY <2>1 DEF Process
  <1> QED
    BY <1>1 DEF Evicted

\* A shutdown that is not over when an exception ends it.
LEMMA LingersLeaves ==
  ASSUME TypeOK, NEW s, s.block \in Blocks, Lingers(s)
  PROVE  proc' \in [Blocks -> Process] /\ NoneNew /\ Raise
  <1> DEFINE q == [proc[s.block] EXCEPT !.phase = "mute"]
  <1>1. Raise /\ Answers(s) /\ (proc' = proc \/ proc' = [proc EXCEPT ![s.block] = q])
    BY DEF Lingers
  <1>2. proc \in [Blocks -> Process] /\ proc[s.block] \in Process
    BY DEF TypeOK
  <1>3. q \in Process /\ q.missed = proc[s.block].missed /\ proc[s.block].phase = "up"
    BY <1>1, <1>2 DEF Process, Answers
  <1> HIDE DEF q
  <1>4. CASE proc' = proc
    BY <1>1, <1>2, <1>4 DEF NoneNew, Missed, Live
  <1>5. CASE proc' = [proc EXCEPT ![s.block] = q]
    BY <1>1, <1>2, <1>3, <1>5 DEF NoneNew, Missed, Live
  <1> QED
    BY <1>1, <1>4, <1>5

\* So stop(), of the server at the runner's place, sweeps it or raises.
LEMMA StopLeaves ==
  ASSUME TypeOK, i \in DOMAIN servers, NEW p, Stop(p)
  PROVE  /\ proc' \in [Blocks -> Process] /\ NoneNew /\ SameBlocks
         /\ servers' \in Seq(Server) /\ Len(servers') = Len(servers)
         /\ \/ Raise
            \/ Goto(p, i + 1) /\ \A b \in Blocks : b = servers[i].block => Missed(b)'
  <1> DEFINE d == servers[i].block
             t == [servers[i] EXCEPT !.status = 0]
  <1>1. servers[i] \in Server /\ servers \in Seq(Server) /\ d \in Blocks
    <2>1. servers[i] \in Server /\ servers \in Seq(Server)
      BY Listed DEF TypeOK
    <2> QED
      BY <2>1 DEF Server
  <1>2. t \in Server /\ t.block = d
    BY <1>1 DEF Server
  <1>3. CASE Lingers(servers[i]) /\ UNCHANGED servers
    <2>1. proc' \in [Blocks -> Process] /\ NoneNew /\ Raise
      BY <1>1, <1>3, LingersLeaves
    <2> QED
      BY <1>1, <1>3, <2>1 DEF SameBlocks
  <1>4. CASE ~(Lingers(servers[i]) /\ UNCHANGED servers)
    <2>1. /\ proc' = StopProc(servers[i])
          /\ \/ Raise /\ UNCHANGED servers
             \/ Goto(p, i + 1) /\ servers' = [servers EXCEPT ![i] = t]
      BY <1>4 DEF Stop
    <2>2. /\ proc' \in [Blocks -> Process]
          /\ \A b \in Blocks : (b = d \/ Missed(b)) /\ proc'[b].phase # "none" => proc'[b].missed
      BY <1>1, <2>1, StopProcLeaves
    <2>3. NoneNew /\ \A b \in Blocks : b = d => Missed(b)'
      BY <2>2 DEF NoneNew, Missed, Live
    <2> HIDE DEF d, t
    <2>4. CASE Raise /\ UNCHANGED servers
      BY <1>1, <2>2, <2>3, <2>4 DEF SameBlocks
    <2>5. CASE Goto(p, i + 1) /\ servers' = [servers EXCEPT ![i] = t]
      <3>1. /\ servers' \in Seq(Server) /\ Len(servers') = Len(servers) /\ DOMAIN servers' = DOMAIN servers
            /\ \A j \in DOMAIN servers : servers'[j] = IF j = i THEN t ELSE servers[j]
        BY <1>1, <1>2, <2>5, OneChanged
      <3>2. SameBlocks
        BY <1>2, <3>1 DEF SameBlocks, d
      <3> QED
        BY <2>2, <2>3, <2>5, <3>1, <3>2 DEF d
    <2> QED
      BY <2>1, <2>4, <2>5
  <1> QED
    BY <1>3, <1>4

\* So does a reset.
LEMMA ResetLeaves ==
  ASSUME TypeOK, i \in DOMAIN servers, NEW s \in Server, s.block = servers[i].block,
         NEW p, ResetServer(s, p)
  PROVE  /\ proc' \in [Blocks -> Process] /\ NoneNew /\ SameBlocks
         /\ servers' \in Seq(Server) /\ Len(servers') = Len(servers)
         /\ datadir' \in [Places -> {"clean", "loaded", "dirty"}]
         /\ Raise \/ Goto(p, i + 1)
  <1> DEFINE t == [s EXCEPT !.status = 0, !.failed = FALSE, !.needReset = FALSE]
  <1>1. servers[i] \in Server /\ servers \in Seq(Server) /\ s.block \in Blocks
    <2>1. servers[i] \in Server /\ servers \in Seq(Server)
      BY Listed DEF TypeOK
    <2> QED
      BY <2>1 DEF Server
  <1>2. t \in Server /\ t.block = s.block
    BY DEF Server
  <1>3. datadir \in [Places -> {"clean", "loaded", "dirty"}]
    BY DEF TypeOK
  <1>4. CASE Lingers(s) /\ UNCHANGED <<servers, datadir>>
    <2>1. proc' \in [Blocks -> Process] /\ NoneNew /\ Raise
      BY <1>1, <1>4, LingersLeaves
    <2> QED
      BY <1>1, <1>3, <1>4, <2>1 DEF SameBlocks
  <1>5. CASE ~(Lingers(s) /\ UNCHANGED <<servers, datadir>>)
    <2> DEFINE P == StopProc(s)
    <2>1. \/ Raise /\ proc' = P /\ UNCHANGED <<servers, datadir>>
          \/ /\ Goto(p, i + 1) /\ proc' = Evicted(P, i)
             /\ datadir' = [datadir EXCEPT ![i] = "clean"] /\ servers' = [servers EXCEPT ![i] = t]
      BY <1>5 DEF ResetServer
    <2>2. /\ P \in [Blocks -> Process]
          /\ \A b \in Blocks : (b = s.block \/ Missed(b)) /\ P[b].phase # "none" => P[b].missed
      BY <1>1, StopProcLeaves
    <2> HIDE DEF P, t
    <2>3. CASE Raise /\ proc' = P /\ UNCHANGED <<servers, datadir>>
      <3>1. NoneNew
        BY <2>2, <2>3 DEF NoneNew, Missed, Live
      <3> QED
        BY <1>1, <1>3, <2>2, <2>3, <3>1 DEF SameBlocks
    <2>4. CASE /\ Goto(p, i + 1) /\ proc' = Evicted(P, i)
               /\ datadir' = [datadir EXCEPT ![i] = "clean"] /\ servers' = [servers EXCEPT ![i] = t]
      <3>1. /\ servers' \in Seq(Server) /\ Len(servers') = Len(servers) /\ DOMAIN servers' = DOMAIN servers
            /\ \A j \in DOMAIN servers : servers'[j] = IF j = i THEN t ELSE servers[j]
        BY <1>1, <1>2, <2>4, OneChanged
      <3>2. SameBlocks
        BY <1>2, <3>1 DEF SameBlocks
      <3>3. /\ proc' \in [Blocks -> Process]
            /\ \A b \in Blocks : proc'[b].phase = P[b].phase /\ proc'[b].missed = P[b].missed
        BY <2>2, <2>4, EvictedLeaves
      <3>4. NoneNew
        BY <2>2, <3>3 DEF NoneNew, Missed, Live
      <3>5. datadir' \in [Places -> {"clean", "loaded", "dirty"}]
        BY <1>3, <2>4
      <3> QED
        BY <2>4, <3>1, <3>2, <3>3, <3>4, <3>5
    <2> QED
      BY <2>1, <2>3, <2>4
  <1> QED
    BY <1>4, <1>5

\* An exception goes to the clean-up, or ends it.
LEMMA RaiseSweepsNone ==
  ASSUME TypeOK, Raise
  PROVE  /\ pc' \in {"cleanup", "ended"} /\ i' = 1
         /\ \/ pc' = "ended"
            \/ \A k \in DOMAIN servers : \A b \in Blocks :
                 servers[k].block = b /\ Swept(k)' => Swept(k) \/ Missed(b)'
  <1>1. pc' \in {"cleanup", "ended"} /\ i' = 1
    BY DEF Raise, Goto
  <1>2. \A k \in DOMAIN servers : ~(k < 1)
    BY Listed
  <1> QED
    BY <1>1, <1>2 DEF Swept

\* The steps that only move the runner on, and the interrupt.
LEMMA QuietStepsKeep ==
  ASSUME KInv,
         \/ RepeatTest \/ NoMoreTests \/ AlreadyRunning \/ Ready \/ RecordTestResult \/ Interrupt
  PROVE  KInv'
  <1>1. /\ UNCHANGED <<conf, test, want, ran, servers, proc, datadir, locked>>
        /\ pc # "ended" /\ i' \in {1, i + 1}
        /\ pc' \in {"ready", "check", "cleanup", "start", "record", "run", "next", "ended"}
        /\ pc' = "check" => test.reqs # <<>>
        /\ pc' = "start" => pc = "start"
        /\ pc' = "cleanup" => i' = 1
    <2>1. CASE RepeatTest
      <3>1. (pc' = "ready") \/ (pc' = "check" /\ test.reqs # <<>>)
        BY <2>1, Zenon DEF RepeatTest, Requested, Goto
      <3>2. /\ UNCHANGED <<conf, test, want, ran, servers, proc, datadir, locked>>
            /\ pc = "next"
        BY <2>1 DEF RepeatTest, At, objects
      <3>3. i' = 1
        BY <2>1 DEF RepeatTest, Requested, Goto
      <3> QED
        BY <3>1, <3>2, <3>3
    <2>2. CASE NoMoreTests \/ AlreadyRunning \/ Ready \/ RecordTestResult \/ Interrupt
      BY <2>2 DEF NoMoreTests, AlreadyRunning, Ready, RecordTestResult, Interrupt, At, Goto, tested, objects
    <2> QED
      BY <2>1, <2>2
  <1>2. rep' \in 1 .. Repeat /\ badStart' \in BOOLEAN /\ status' \in Outcomes
    <2>1. CASE RepeatTest
      <3>1. rep < Repeat /\ rep' = rep + 1 /\ badStart' = FALSE /\ status' = "none"
        BY <2>1 DEF RepeatTest
      <3>2. rep \in 1 .. Repeat /\ Repeat \in Nat \ {0}
        BY ConstantsAssumption DEF KInv, TypeOK
      <3>3. rep' \in 1 .. Repeat
        BY <3>1, <3>2
      <3> QED
        BY <3>1, <3>3 DEF Outcomes
    <2>2. CASE NoMoreTests \/ AlreadyRunning \/ Ready \/ RecordTestResult \/ Interrupt
      <3>1. UNCHANGED <<rep, judged>>
        BY <2>2 DEF NoMoreTests, AlreadyRunning, Ready, RecordTestResult, Interrupt, tested
      <3> QED
        BY <3>1 DEF KInv, TypeOK, judged
    <2> QED
      BY <2>1, <2>2
  <1>3. pc' \in Points /\ i' \in Nat \ {0}
    BY <1>1 DEF KInv, TypeOK, Points
  <1>4. TypeOK'
    BY <1>1, <1>2, <1>3 DEF KInv, TypeOK
  <1>5. Counted'
    BY <1>1 DEF KInv, Counted
  <1>6. SameBlocks /\ NoneNew /\ locked' = locked
    BY <1>1 DEF SameBlocks, NoneNew, Missed, Live
  <1>7. \A k \in DOMAIN servers : ~(k < 1)
    BY Listed DEF KInv
  <1>8. \A k \in DOMAIN servers : ~Swept(k)'
    BY <1>1, <1>7 DEF Swept
  <1> QED
    BY <1>1, <1>4, <1>5, <1>6, <1>8, StepKeeps

\* A test is fetched, and no server holds its lists.
LEMMA GetTestCaseKeeps == ASSUME KInv, GetTestCase PROVE KInv'
  <1>1. PICK t \in TestKinds : test' = t /\ want' = t.reqs /\ Requested(t)
    BY DEF GetTestCase
  <1>2. /\ pc = "next" /\ ran < MaxTests /\ ran' = ran + 1 /\ rep' = 1
        /\ status' = "none" /\ badStart' = FALSE
        /\ servers' = [k \in DOMAIN servers |-> [servers[k] EXCEPT !.sameList = FALSE]]
        /\ UNCHANGED <<conf, proc, datadir, locked>>
    BY DEF GetTestCase, At
  <1>3. t.reqs \in Seq(SUBSET Options) /\ Len(t.reqs) \in Nat
    BY <1>1, ConstantsAssumption
  <1>4. pc' \in {"ready", "check"} /\ i' = 1 /\ (pc' = "check" => t.reqs # <<>>)
    BY <1>1 DEF Requested, Goto
  <1>5. /\ servers' \in Seq(Server) /\ Len(servers') = Len(servers) /\ DOMAIN servers' = DOMAIN servers
        /\ \A k \in DOMAIN servers : servers'[k] = [servers[k] EXCEPT !.sameList = FALSE]
    <2>1. \A k \in DOMAIN servers : [servers[k] EXCEPT !.sameList = FALSE] \in Server
      BY Listed DEF KInv, Server
    <2> QED
      BY <1>2, <2>1, Listed DEF KInv
  <1>6. TypeOK'
    <2>1. ran' \in 0 .. MaxTests /\ rep' \in 1 .. Repeat
      BY <1>2, ConstantsAssumption DEF KInv, TypeOK
    <2>2. test' \in TestKinds /\ want' \in Seq(SUBSET Options) /\ Len(want') = Len(test'.reqs)
      BY <1>1, <1>3
    <2>3. pc' \in Points /\ i' \in Nat \ {0} /\ status' \in Outcomes
      BY <1>2, <1>4 DEF Points, Outcomes
    <2>5. badStart' \in BOOLEAN
      BY <1>2
    <2>4. servers' \in Seq(Server) /\ Len(servers') \in Places
      BY <1>5 DEF KInv, TypeOK
    <2> QED
      BY <1>2, <2>1, <2>2, <2>3, <2>4, <2>5 DEF KInv, TypeOK
  <1>7. SameBlocks
    BY <1>5, Listed DEF KInv, Server, SameBlocks
  <1>8. NoneNew /\ \A k \in DOMAIN servers : ~Swept(k)'
    BY <1>2, <1>4 DEF NoneNew, Missed, Live, Swept
  <1>9. Counted'
    BY <1>1, <1>4 DEF Counted
  <1> QED
    BY <1>2, <1>6, <1>7, <1>8, <1>9, StepKeeps

\* The loops that reset: of the servers that failed, and after a native test.
LEMMA ResettingKeeps ==
  ASSUME KInv, CheckServerStatus \/ ResetServers
  PROVE  KInv'
  <1>1. pc \in {"check", "after"} /\ UNCHANGED <<conf, tested, locked, judged>>
    BY DEF CheckServerStatus, ResetServers, At
  <1>2. i \in Nat /\ i # 0 /\ Len(servers) \in Nat /\ Len(test.reqs) \in Nat
    BY Listed, TestTyped DEF KInv, TypeOK
  <1>3. CASE /\ UNCHANGED objects
             /\ \/ pc = "check" /\ (Goto("count", Len(test.reqs) + 1) \/ Goto("check", i + 1))
                \/ Goto("record", 1)
    <2>1. /\ pc' \in {"count", "check", "record"} /\ i' \in Nat \ {0}
          /\ pc' = "count" => i' = Len(test.reqs) + 1
      BY <1>2, <1>3 DEF Goto
    <2>2. pc' \in {"count", "check"} => pc = "check"
      BY <1>3 DEF Goto
    <2>3. UNCHANGED <<servers, proc, datadir>>
      BY <1>3 DEF objects
    <2>4. TypeOK'
      BY <1>1, <2>1, <2>3 DEF KInv, TypeOK, Points, tested, judged
    <2>5. Counted'
      BY <1>1, <1>2, <2>1, <2>2, <2>3 DEF KInv, Counted, tested
    <2>6. SameBlocks /\ NoneNew
      BY <2>3 DEF SameBlocks, NoneNew, Missed, Live
    <2>7. \A k \in DOMAIN servers : ~(Len(test.reqs) < k /\ k < Len(test.reqs) + 1)
      BY <1>2, Listed DEF KInv
    <2>8. \A k \in DOMAIN servers : ~Swept(k)'
      BY <1>1, <2>1, <2>7 DEF Swept, tested
    <2> QED
      BY <1>1, <2>4, <2>5, <2>6, <2>8, StepKeeps
  <1>4. ASSUME NEW p \in {"check", "after"}, p = pc, i <= Len(servers), ResetServer(servers[i], p)
        PROVE  KInv'
    <2>1. i \in DOMAIN servers /\ servers[i] \in Server
      BY <1>2, <1>4, Listed DEF KInv
    <2>2. /\ proc' \in [Blocks -> Process] /\ NoneNew /\ SameBlocks
          /\ servers' \in Seq(Server) /\ Len(servers') = Len(servers)
          /\ datadir' \in [Places -> {"clean", "loaded", "dirty"}]
          /\ Raise \/ Goto(p, i + 1)
      BY <1>4, <2>1, ResetLeaves DEF KInv
    <2>3. pc' \in {"cleanup", "ended", p} /\ i' \in Nat \ {0}
      BY <1>2, <2>2 DEF Raise, Goto
    <2>4. TypeOK'
      <3>1. pc' \in Points /\ Len(servers') \in Places
        BY <1>4, <2>2, <2>3 DEF Points, KInv, TypeOK
      <3> QED
        BY <1>1, <2>2, <2>3, <3>1 DEF KInv, TypeOK, tested, judged
    <2>5. Counted'
      BY <1>1, <1>4, <2>3 DEF KInv, Counted, tested
    <2>6. CASE Raise
      BY <1>1, <2>2, <2>4, <2>5, <2>6, RaiseSweepsNone, StepKeeps DEF KInv
    <2>7. CASE Goto(p, i + 1)
      <3>1. \A k \in DOMAIN servers : ~Swept(k)'
        BY <1>4, <2>7 DEF Goto, Swept
      <3> QED
        BY <1>1, <2>2, <2>4, <2>5, <3>1, StepKeeps
    <2> QED
      BY <2>2, <2>6, <2>7
  <1>5. CASE CheckServerStatus
    BY <1>1, <1>3, <1>4, <1>5 DEF CheckServerStatus, At
  <1>6. CASE ResetServers
    BY <1>1, <1>3, <1>4, <1>6 DEF ResetServers, At
  <1> QED
    BY <1>5, <1>6

\* The loops that stop: of the retired servers, and of the clean-up.
LEMMA StoppingKeeps ==
  ASSUME KInv, RetireServer \/ StopAllServers
  PROVE  KInv'
  <1>1. pc \in {"count", "cleanup"} /\ UNCHANGED <<conf, tested, datadir, locked, judged>>
    BY DEF RetireServer, StopAllServers, At
  <1>2. i \in Nat /\ i # 0 /\ Len(servers) \in Nat
    BY Listed DEF KInv, TypeOK
  <1>3. ASSUME i <= Len(servers), Stop(pc)
        PROVE  KInv'
    <2>1. i \in DOMAIN servers
      BY <1>2, <1>3, Listed DEF KInv
    <2>2. /\ proc' \in [Blocks -> Process] /\ NoneNew /\ SameBlocks
          /\ servers' \in Seq(Server) /\ Len(servers') = Len(servers)
          /\ \/ Raise
             \/ Goto(pc, i + 1) /\ \A b \in Blocks : b = servers[i].block => Missed(b)'
      BY <1>3, <2>1, StopLeaves DEF KInv
    <2>3. pc' \in {"cleanup", "ended", pc} /\ i' \in Nat \ {0}
      BY <1>2, <2>2 DEF Raise, Goto
    <2>4. TypeOK'
      <3>1. pc' \in Points /\ Len(servers') \in Places
        BY <1>1, <2>2, <2>3 DEF Points, KInv, TypeOK
      <3> QED
        BY <1>1, <2>2, <2>3, <3>1 DEF KInv, TypeOK, tested, judged
    <2>5. CASE Raise
      <3>1. Counted'
        BY <1>1, <2>5 DEF Raise, Goto, KInv, Counted, tested
      <3> QED
        BY <1>1, <2>2, <2>4, <2>5, <3>1, RaiseSweepsNone, StepKeeps DEF KInv
    <2>6. CASE Goto(pc, i + 1) /\ \A b \in Blocks : b = servers[i].block => Missed(b)'
      <3>1. pc' = pc /\ i' = i + 1
        BY <2>6 DEF Goto
      <3>2. Counted'
        BY <1>1, <1>2, <3>1, TestTyped DEF KInv, Counted, tested
      <3>3. \A k \in DOMAIN servers : k < i + 1 => k < i \/ k = i
        BY <1>2, Listed DEF KInv
      <3>4. \A k \in DOMAIN servers : Swept(k)' => Swept(k) \/ k = i
        BY <1>1, <3>1, <3>3 DEF Swept, tested
      <3>5. \A k \in DOMAIN servers : \A b \in Blocks :
              servers[k].block = b /\ Swept(k)' => Swept(k) \/ Missed(b)'
        BY <2>6, <3>4
      <3> QED
        BY <1>1, <2>2, <2>4, <3>2, <3>5, StepKeeps
    <2> QED
      BY <2>2, <2>5, <2>6
  <1>4. CASE pc = "cleanup" /\ UNCHANGED <<servers, proc>> /\ (Goto("ended", 1) \/ (i > Len(servers) /\ Goto("free", 1)))
    <2>1. pc' \in {"ended", "free"} /\ i' = 1
      BY <1>4 DEF Goto
    <2>2. TypeOK'
      BY <1>1, <1>4, <2>1 DEF KInv, TypeOK, Points, tested, judged
    <2>3. Counted' /\ SameBlocks /\ NoneNew
      BY <1>4, <2>1 DEF Counted, SameBlocks, NoneNew, Missed, Live
    <2>4. pc' = "ended" \/ \A k \in DOMAIN servers : k < i
      BY <1>2, <1>4, <2>1, Listed DEF KInv, Goto
    <2>5. pc' = "ended" \/ \A k \in DOMAIN servers : Swept(k)
      BY <1>4, <2>4 DEF Swept
    <2> QED
      BY <1>1, <2>2, <2>3, <2>5, StepKeeps
  <1>5. CASE RetireServer
    BY <1>1, <1>3, <1>5 DEF RetireServer, At
  <1>6. CASE StopAllServers
    BY <1>1, <1>3, <1>4, <1>6 DEF StopAllServers, At
  <1> QED
    BY <1>5, <1>6

\* A new server has ports that no other holds; nothing is swept by it.
LEMMA AllocateServerKeeps == ASSUME KInv, AllocateServer PROVE KInv'
  <1>1. /\ pc = "count" /\ Len(servers) < Len(test.reqs)
        /\ proc' = Evicted(proc, Len(servers) + 1)
        /\ datadir' = [datadir EXCEPT ![Len(servers) + 1] = "clean"]
        /\ UNCHANGED <<conf, pc, i, tested, judged>>
    BY DEF AllocateServer, At
  <1>2. PICK b \in FreeBlocks : servers' = Append(servers, NewServer(b)) /\ locked' = locked \cup {b}
    BY DEF AllocateServer
  <1>3. b \in Blocks /\ b \notin locked
    BY <1>2 DEF FreeBlocks
  <1>4. NewServer(b) \in Server /\ NewServer(b).block = b
    BY <1>3 DEF NewServer, Server
  <1> DEFINE n == Len(servers) + 1
  <1>5. n \in Places /\ n \in Nat
    BY <1>1, Listed, TestTyped, ConstantsAssumption DEF KInv, Places
  <1>6. /\ servers' \in Seq(Server) /\ Len(servers') = n /\ DOMAIN servers' = 1 .. n
        /\ \A k \in DOMAIN servers : k # n /\ servers'[k] = servers[k]
        /\ servers'[n] = NewServer(b) /\ DOMAIN servers = 1 .. n - 1
    BY <1>2, <1>4, Listed DEF KInv, TypeOK
  <1>7. /\ proc' \in [Blocks -> Process]
        /\ \A c \in Blocks : proc'[c].phase = proc[c].phase /\ proc'[c].missed = proc[c].missed
    BY <1>1, EvictedLeaves DEF KInv, TypeOK
  <1>8. TypeOK'
    <2>1. datadir' \in [Places -> {"clean", "loaded", "dirty"}] /\ locked' \subseteq Blocks
      BY <1>1, <1>2, <1>3 DEF KInv, TypeOK
    <2> QED
      BY <1>1, <1>5, <1>6, <1>7, <2>1 DEF KInv, TypeOK, tested, judged
  <1> HIDE DEF n
  <1>9. \A k \in DOMAIN servers' : k = n \/ k \in DOMAIN servers
    BY <1>5, <1>6
  <1>10. \A k \in DOMAIN servers : servers[k].block \in locked
    BY <1>1 DEF KInv, Held
  <1>11. Apart' /\ Held'
    BY <1>2, <1>3, <1>4, <1>6, <1>9, <1>10 DEF KInv, Apart, Held
  <1>12. Counted'
    BY <1>1 DEF KInv, Counted, tested
  <1>13. Tracked'
    <2> SUFFICES ASSUME NEW c \in Blocks, ~Missed(c)'
                 PROVE  \E k \in DOMAIN servers' : servers'[k].block = c /\ ~Swept(k)'
      BY DEF Tracked
    <2>1. ~Missed(c)
      BY <1>7 DEF Missed, Live
    <2>2. PICK k \in DOMAIN servers : servers[k].block = c /\ ~Swept(k)
      BY <1>1, <2>1 DEF KInv, Tracked
    <2>3. k \in DOMAIN servers' /\ servers'[k].block = c
      BY <1>5, <1>6, <2>2
    <2> QED
      BY <1>1, <2>2, <2>3 DEF Swept, tested
  <1>14. OnlyMissedAreLeft'
    BY <1>1 DEF OnlyMissedAreLeft, At
  <1> QED
    BY <1>8, <1>11, <1>12, <1>13, <1>14 DEF KInv

\* Those that leave the list have been stopped.
LEMMA ServersCountedKeeps == ASSUME KInv, ServersCounted PROVE KInv'
  <1> DEFINE n == Len(test.reqs)
  <1>1. /\ pc = "count" /\ Len(servers) >= n /\ i > Len(servers)
        /\ servers' = SubSeq(servers, 1, n) /\ locked' = locked \ FreedByShrink
        /\ pc' = "evaluate" /\ i' = 1 /\ UNCHANGED <<conf, tested, proc, datadir, judged>>
    BY DEF ServersCounted, At, Settled, Goto
  <1>2. n \in Nat /\ n \in Places /\ test.reqs # <<>>
    <2>1. test.reqs # <<>> /\ test.reqs \in Seq(SUBSET Options) /\ n \in Nat /\ n <= MaxServers
      BY <1>1, TestTyped DEF KInv, Counted
    <2> QED
      BY <2>1, ConstantsAssumption DEF Places
  <1> HIDE DEF n
  <1>3. /\ servers' \in Seq(Server) /\ Len(servers') = n /\ DOMAIN servers' = 1 .. n
        /\ \A k \in 1 .. n : k \in DOMAIN servers /\ servers'[k] = servers[k]
    BY <1>1, <1>2, Listed DEF KInv, TypeOK
  <1>4. TypeOK'
    BY <1>1, <1>2, <1>3 DEF KInv, TypeOK, Points, tested, judged
  <1>5. Apart'
    BY <1>3 DEF KInv, Apart
  <1>6. Held'
    <2> SUFFICES ASSUME NEW k \in DOMAIN servers'
                 PROVE  servers'[k].block \in locked'
      BY DEF Held
    <2>1. k \in DOMAIN servers /\ servers'[k] = servers[k] /\ servers[k].block \in locked
      BY <1>1, <1>3 DEF KInv, Held
    <2>2. servers[k].block \notin FreedByShrink
      <3>1. CASE Len(servers) > n
        <4>1. FreedByShrink = {servers[Len(servers)].block}
          BY <3>1 DEF FreedByShrink, n
        <4>2. Len(servers) \in DOMAIN servers /\ k # Len(servers)
          BY <1>2, <1>3, <3>1, Listed DEF KInv
        <4> QED
          BY <2>1, <4>1, <4>2 DEF KInv, Apart
      <3>2. CASE ~(Len(servers) > n)
        BY <3>2 DEF FreedByShrink, n
      <3> QED
        BY <3>1, <3>2
    <2> QED
      BY <1>1, <2>1, <2>2
  <1>7. Counted'
    BY <1>1, <1>2, <1>3 DEF Counted, tested, n
  <1>8. Tracked'
    <2> SUFFICES ASSUME NEW b \in Blocks, ~Missed(b)'
                 PROVE  \E k \in DOMAIN servers' : servers'[k].block = b /\ ~Swept(k)'
      BY DEF Tracked
    <2>1. ~Missed(b)
      BY <1>1 DEF Missed, Live
    <2>2. PICK k \in DOMAIN servers : servers[k].block = b /\ ~Swept(k)
      BY <1>1, <2>1 DEF KInv, Tracked
    <2>3. ~(n < k /\ k < i)
      BY <1>1, <2>2 DEF Swept, n
    <2>4. k \in 1 .. n
      BY <1>1, <1>2, <2>3, Listed DEF KInv, TypeOK
    <2> QED
      BY <1>1, <1>3, <2>2, <2>4 DEF Swept
  <1>9. OnlyMissedAreLeft'
    BY <1>1 DEF OnlyMissedAreLeft, At
  <1> QED
    BY <1>4, <1>5, <1>6, <1>7, <1>8, <1>9 DEF KInv

\* A server whose options are compared is left as it is, or reset.
LEMMA EvaluateServerKeeps == ASSUME KInv, EvaluateServer PROVE KInv'
  <1> DEFINE kept    == [servers[i] EXCEPT !.opts = Current(i)]
             changed == [kept EXCEPT !.opts = Filtered(i), !.sameList = TRUE]
  <1>1. /\ pc = "evaluate" /\ i <= Len(servers) /\ UNCHANGED <<conf, test, ran, rep, locked, judged>>
        /\ \/ ResetServer(kept, "evaluate") \/ ResetServer(changed, "evaluate")
           \/ /\ Goto("evaluate", i + 1)
              /\ servers' = [servers EXCEPT ![i] = kept] /\ UNCHANGED <<proc, datadir>>
        /\ want' = [want EXCEPT ![i] = Marked(i)] \/ want' = [want EXCEPT ![i] = Filtered(i)]
    BY DEF EvaluateServer, At
  <1>2. i \in DOMAIN servers /\ i \in Nat \ {0} /\ servers[i] \in Server /\ servers \in Seq(Server)
    BY <1>1, Listed DEF KInv, TypeOK
  <1>3. Len(servers) = Len(test.reqs) /\ test.reqs # <<>> /\ DOMAIN want = DOMAIN servers
    BY <1>1, Listed, TestTyped DEF KInv, TypeOK, Counted
  <1>4. Marked(i) \subseteq Options /\ Filtered(i) \subseteq Options
    BY <1>2, <1>3, ListsTyped DEF KInv
  <1>5. kept \in Server /\ kept.block = servers[i].block
    <2>1. Current(i) \subseteq Options
      BY <1>2, <1>4 DEF Current, Server
    <2> QED
      BY <1>2, <2>1 DEF Server
  <1>6. changed \in Server /\ changed.block = servers[i].block
    BY <1>2, <1>4, <1>5 DEF Server
  <1> HIDE DEF kept, changed
  <1>7. want' \in Seq(SUBSET Options) /\ Len(want') = Len(test'.reqs)
    <2>1. PICK w \in SUBSET Options : want' = [want EXCEPT ![i] = w]
      BY <1>1, <1>4
    <2>2. want' \in Seq(SUBSET Options) /\ Len(want') = Len(want)
      BY <1>2, <1>3, <2>1 DEF KInv, TypeOK
    <2> QED
      BY <1>1, <2>2 DEF KInv, TypeOK
  <1>8. /\ proc' \in [Blocks -> Process] /\ NoneNew /\ SameBlocks
        /\ servers' \in Seq(Server) /\ Len(servers') = Len(servers)
        /\ datadir' \in [Places -> {"clean", "loaded", "dirty"}]
        /\ Raise \/ Goto("evaluate", i + 1)
    <2>1. CASE ResetServer(kept, "evaluate")
      BY <1>2, <1>5, <2>1, ResetLeaves DEF KInv
    <2>2. CASE ResetServer(changed, "evaluate")
      BY <1>2, <1>6, <2>2, ResetLeaves DEF KInv
    <2>3. CASE /\ Goto("evaluate", i + 1)
               /\ servers' = [servers EXCEPT ![i] = kept] /\ UNCHANGED <<proc, datadir>>
      <3>1. /\ servers' \in Seq(Server) /\ Len(servers') = Len(servers) /\ DOMAIN servers' = DOMAIN servers
            /\ \A k \in DOMAIN servers : servers'[k] = IF k = i THEN kept ELSE servers[k]
        BY <1>2, <1>5, <2>3, OneChanged
      <3>2. SameBlocks
        BY <1>5, <3>1 DEF SameBlocks
      <3>3. NoneNew
        BY <2>3 DEF NoneNew, Missed, Live
      <3> QED
        BY <2>3, <3>1, <3>2, <3>3 DEF KInv, TypeOK
    <2> QED
      BY <1>1, <2>1, <2>2, <2>3
  <1>9. pc' \in {"cleanup", "ended", "evaluate"} /\ i' \in Nat \ {0}
    BY <1>2, <1>8 DEF Raise, Goto
  <1>10. TypeOK'
    <2>1. pc' \in Points /\ Len(servers') \in Places
      BY <1>8, <1>9 DEF Points, KInv, TypeOK
    <2> QED
      BY <1>1, <1>7, <1>8, <1>9, <2>1 DEF KInv, TypeOK, judged
  <1>11. Counted'
    BY <1>1, <1>3, <1>8, <1>9 DEF Counted
  <1>12. \/ pc' = "ended"
         \/ \A k \in DOMAIN servers : \A b \in Blocks :
              servers[k].block = b /\ Swept(k)' => Swept(k) \/ Missed(b)'
    <2>1. CASE Raise
      BY <2>1, RaiseSweepsNone DEF KInv
    <2>2. CASE Goto("evaluate", i + 1)
      BY <2>2 DEF Goto, Swept
    <2> QED
      BY <1>8, <2>1, <2>2
  <1> QED
    BY <1>1, <1>8, <1>10, <1>11, <1>12, StepKeeps

\* Loading data takes directories away, but no process.
LEMMA LoadDatadirsKeeps == ASSUME KInv, LoadDatadirs PROVE KInv'
  <1>1. /\ pc = "evaluate" /\ pc' = "start" /\ i' = 1
        /\ proc' = [b \in Blocks |-> IF Live(b) /\ proc[b].place \in test.loads
                                     THEN [proc[b] EXCEPT !.home = FALSE] ELSE proc[b]]
        /\ datadir' = [k \in Places |-> IF k \in test.loads THEN "loaded" ELSE datadir[k]]
        /\ servers' = [k \in DOMAIN servers |->
                         IF k \in test.loads THEN [servers[k] EXCEPT !.needReset = TRUE] ELSE servers[k]]
        /\ UNCHANGED <<conf, tested, locked, judged>>
    BY DEF LoadDatadirs, At, Goto
  <1>2. /\ proc' \in [Blocks -> Process]
        /\ \A b \in Blocks : proc'[b].phase = proc[b].phase /\ proc'[b].missed = proc[b].missed
    <2>1. \A b \in Blocks : /\ proc[b] \in Process /\ [proc[b] EXCEPT !.home = FALSE] \in Process
                             /\ [proc[b] EXCEPT !.home = FALSE].phase = proc[b].phase
                             /\ [proc[b] EXCEPT !.home = FALSE].missed = proc[b].missed
      <3>1. \A b \in Blocks : proc[b] \in Process
        BY DEF KInv, TypeOK
      <3> QED
        BY <3>1 DEF Process
    <2> QED
      BY <1>1, <2>1
  <1>3. \A k \in DOMAIN servers : /\ [servers[k] EXCEPT !.needReset = TRUE] \in Server
                                  /\ [servers[k] EXCEPT !.needReset = TRUE].block = servers[k].block
    BY Listed DEF KInv, Server
  <1>4. servers' \in Seq(Server) /\ Len(servers') = Len(servers) /\ SameBlocks
    <2>1. servers' \in Seq(Server) /\ Len(servers') = Len(servers) /\ DOMAIN servers' = DOMAIN servers
      BY <1>1, <1>3, Listed DEF KInv
    <2> QED
      BY <1>1, <1>3, <2>1 DEF SameBlocks
  <1>5. TypeOK'
    <2>1. datadir' \in [Places -> {"clean", "loaded", "dirty"}]
      BY <1>1 DEF KInv, TypeOK
    <2>2. pc' \in Points /\ i' \in Nat \ {0} /\ Len(servers') \in Places
      BY <1>1, <1>4 DEF KInv, TypeOK, Points
    <2> QED
      BY <1>1, <1>2, <1>4, <2>1, <2>2 DEF KInv, TypeOK, tested, judged
  <1>6. Counted' /\ NoneNew
    BY <1>1, <1>2, <1>4 DEF KInv, Counted, tested, NoneNew, Missed, Live
  <1>7. \A k \in DOMAIN servers : ~Swept(k)'
    BY <1>1 DEF Swept
  <1> QED
    BY <1>1, <1>4, <1>5, <1>6, <1>7, StepKeeps

\* What start() starts, a server of the list answers for.
LEMMA LaunchKeeps == ASSUME KInv, Launch PROVE KInv'
  <1>1. /\ pc = "start" /\ i <= Len(servers)
        /\ servers' = [servers EXCEPT ![i].hasPid = FALSE]
        /\ pc' = "wait" /\ i' = i /\ UNCHANGED <<conf, tested, locked, datadir, judged>>
    BY DEF Launch, At, Goto
  <1> DEFINE b == servers[i].block
             new == [phase |-> "booting", place |-> i, opts |-> servers[i].opts,
                     home |-> TRUE, since |-> ran, missed |-> FALSE]
             t == [servers[i] EXCEPT !.hasPid = FALSE]
  <1>2. i \in DOMAIN servers /\ servers[i] \in Server /\ servers \in Seq(Server) /\ i \in Places /\ b \in Blocks
    <2>1. i \in DOMAIN servers /\ servers[i] \in Server /\ servers \in Seq(Server) /\ i \in Places
      BY <1>1, Listed DEF KInv, TypeOK
    <2> QED
      BY <2>1 DEF Server
  <1>3. proc' = proc \/ proc' = [proc EXCEPT ![b] = new]
    BY DEF Launch
  <1>4. new \in Process
    <2>1. servers[i].opts \in SUBSET Options
      BY <1>2 DEF Server
    <2>2. ran \in Nat
      BY ConstantsAssumption DEF KInv, TypeOK
    <2> QED
      BY <1>2, <2>1, <2>2 DEF Process
  <1>5. t \in Server /\ t.block = b
    BY <1>2 DEF Server
  <1>6. servers' = [servers EXCEPT ![i] = t]
    BY <1>1
  <1> HIDE DEF t, new
  <1>7. /\ servers' \in Seq(Server) /\ Len(servers') = Len(servers) /\ DOMAIN servers' = DOMAIN servers
        /\ \A j \in DOMAIN servers : servers'[j] = IF j = i THEN t ELSE servers[j]
    BY <1>2, <1>5, <1>6, OneChanged
  <1>8. proc' \in [Blocks -> Process] /\ \A c \in Blocks : c # b => proc'[c] = proc[c]
    BY <1>2, <1>3, <1>4 DEF KInv, TypeOK
  <1>9. TypeOK'
    <2>1. pc' \in Points /\ i' \in Nat \ {0} /\ Len(servers') \in Places
      BY <1>1, <1>7 DEF KInv, TypeOK, Points
    <2> QED
      BY <1>1, <1>7, <1>8, <2>1 DEF KInv, TypeOK, tested, judged
  <1>10. \A k \in DOMAIN servers : servers'[k].block = servers[k].block
    BY <1>5, <1>7
  <1>11. Apart' /\ Held'
    BY <1>1, <1>7, <1>10 DEF KInv, Apart, Held
  <1>12. Counted'
    BY <1>1, <1>2, <1>7 DEF KInv, Counted, tested
  <1>13. ASSUME NEW c \in Blocks, ~Missed(c)'
         PROVE  \E k \in DOMAIN servers' : servers'[k].block = c /\ ~Swept(k)'
    <2>1. PICK k \in DOMAIN servers : servers[k].block = c
      <3>1. CASE c = b
        BY <1>2, <3>1
      <3>2. CASE c # b
        <4>1. ~Missed(c)
          BY <1>8, <1>13, <3>2 DEF Missed, Live
        <4> QED
          BY <1>1, <4>1 DEF KInv, Tracked
      <3> QED
        BY <3>1, <3>2
    <2> QED
      BY <1>1, <1>7, <1>10, <2>1 DEF Swept
  <1>14. Tracked' /\ OnlyMissedAreLeft'
    BY <1>1, <1>13 DEF Tracked, OnlyMissedAreLeft, At
  <1> QED
    BY <1>9, <1>11, <1>12, <1>14 DEF KInv

\* The server that answers is the one that is waited for.
LEMMA AnsweredKeeps == ASSUME KInv, Answered PROVE KInv'
  <1>1. /\ pc = "wait" /\ pc' = "start" /\ i' = i + 1
        /\ servers' = [servers EXCEPT ![i].status = 1, ![i].hasPid = TRUE]
        /\ proc' = [proc EXCEPT ![servers[i].block].missed = FALSE]
        /\ UNCHANGED <<conf, tested, locked, datadir, judged>>
    BY DEF Answered, At, Goto
  <1> DEFINE b == servers[i].block
             t == [servers[i] EXCEPT !.status = 1, !.hasPid = TRUE]
             P == proc'
             m == FALSE
  <1>2. i \in DOMAIN servers /\ servers[i] \in Server /\ servers \in Seq(Server) /\ b \in Blocks
    <2>1. i \in DOMAIN servers /\ servers[i] \in Server /\ servers \in Seq(Server)
      BY <1>1, Listed DEF KInv, TypeOK, Counted
    <2> QED
      BY <2>1 DEF Server
  <1>3. t \in Server /\ t.block = b
    BY <1>2 DEF Server
  <1>4. servers' = [servers EXCEPT ![i] = t]
    BY <1>1, <1>2
  <1>5. P = [proc EXCEPT ![b].missed = m] /\ m \in BOOLEAN /\ proc \in [Blocks -> Process]
    BY <1>1 DEF KInv, TypeOK
  <1> HIDE DEF t, P, m
  <1>6. /\ servers' \in Seq(Server) /\ Len(servers') = Len(servers) /\ DOMAIN servers' = DOMAIN servers
        /\ \A j \in DOMAIN servers : servers'[j] = IF j = i THEN t ELSE servers[j]
    BY <1>2, <1>3, <1>4, OneChanged
  <1> HIDE DEF b
  <1>7. P \in [Blocks -> Process] /\ \A c \in Blocks : c # b => P[c] = proc[c]
    BY <1>2, <1>5, OnlyMarked
  <1>8. TypeOK'
    <2>1. pc' \in Points /\ i' \in Nat \ {0} /\ Len(servers') \in Places
      BY <1>1, <1>6 DEF KInv, TypeOK, Points
    <2>2. proc' \in [Blocks -> Process]
      BY <1>7 DEF P
    <2> QED
      BY <1>1, <1>6, <2>1, <2>2 DEF KInv, TypeOK, tested, judged
  <1>9. \A k \in DOMAIN servers : servers'[k].block = servers[k].block
    BY <1>3, <1>6 DEF b
  <1>10. Apart' /\ Held'
    BY <1>1, <1>6, <1>9 DEF KInv, Apart, Held
  <1>11. Counted'
    BY <1>1, <1>6 DEF KInv, Counted, tested
  <1>12. ASSUME NEW c \in Blocks, ~Missed(c)'
         PROVE  \E k \in DOMAIN servers' : servers'[k].block = c /\ ~Swept(k)'
    <2>1. PICK k \in DOMAIN servers : servers[k].block = c
      <3>1. CASE c = b
        BY <1>2, <3>1 DEF b
      <3>2. CASE c # b
        <4>1. ~Missed(c)
          BY <1>7, <1>12, <3>2 DEF Missed, Live, P
        <4> QED
          BY <1>1, <4>1 DEF KInv, Tracked
      <3> QED
        BY <3>1, <3>2
    <2> QED
      BY <1>1, <1>6, <1>9, <2>1 DEF Swept
  <1>13. Tracked' /\ OnlyMissedAreLeft'
    BY <1>1, <1>12 DEF Tracked, OnlyMissedAreLeft, At
  <1> QED
    BY <1>8, <1>10, <1>11, <1>13 DEF KInv

\* A start() that gives up marks what it gives up.
LEMMA StartTimeoutKeeps == ASSUME KInv, StartTimeout PROVE KInv'
  <1>1. /\ pc = "wait" /\ pc' = "start" /\ i' = i + 1 /\ badStart' = TRUE
        /\ proc' = Miss(servers[i].block)
        /\ UNCHANGED <<conf, tested, servers, datadir, locked, status>>
    BY DEF StartTimeout, GivesUp, At, Goto
  <1> DEFINE b == servers[i].block
             m == Live(b)
             P == proc'
  <1>2. b \in Blocks /\ proc \in [Blocks -> Process]
    BY <1>1, Listed DEF KInv, TypeOK, Counted, Server
  <1>3. P = [proc EXCEPT ![b].missed = m] /\ m \in BOOLEAN
    BY <1>1 DEF Miss, Live
  <1> HIDE DEF b, m, P
  <1>4. /\ P \in [Blocks -> Process] /\ P[b].missed = m /\ \A c \in Blocks : c # b => P[c] = proc[c]
        /\ \A c \in Blocks : P[c].phase = proc[c].phase
    BY <1>2, <1>3, OnlyMarked
  <1>5. NoneNew
    <2>1. \A c \in Blocks : Missed(c) /\ P[c].phase # "none" => P[c].missed
      BY <1>4 DEF Missed, Live, m
    <2> QED
      BY <2>1 DEF NoneNew, Missed, Live, P
  <1>6. TypeOK'
    <2>1. badStart' \in BOOLEAN
      BY <1>1
    <2>2. proc' \in [Blocks -> Process]
      BY <1>4 DEF P
    <2> QED
      BY <1>1, <2>1, <2>2 DEF KInv, TypeOK, Points, tested
  <1>7. Counted' /\ SameBlocks
    BY <1>1 DEF KInv, Counted, SameBlocks, tested
  <1>8. \A k \in DOMAIN servers : ~Swept(k)'
    BY <1>1 DEF Swept
  <1> QED
    BY <1>1, <1>5, <1>6, <1>7, <1>8, StepKeeps

\* The steps that mark the servers of a failed test, one of them with crashes.
LEMMA MarkingSteps ==
  ASSUME KInv, ServersStarted \/ RunTest
  PROVE  KInv'
  <1>1. /\ pc' \in {"ready", "after", "record"} /\ i' = 1 /\ pc # "ended"
        /\ UNCHANGED <<conf, tested, locked, badStart>>
    BY DEF ServersStarted, RunTest, At, Goto
  <1>2. /\ status' \in Outcomes /\ datadir' \in [Places -> {"clean", "loaded", "dirty"}]
        /\ \E st : servers' = MarkFailed(servers, st)
    BY DEF ServersStarted, RunTest, Outcomes, KInv, TypeOK
  <1>3. /\ servers' \in Seq(Server) /\ Len(servers') = Len(servers) /\ SameBlocks
    BY <1>2, Marking DEF KInv, SameBlocks
  <1>4. /\ proc' \in [Blocks -> Process]
        /\ \A b \in Blocks : proc'[b].phase # "none" => proc'[b] = proc[b]
    <2>1. CASE ServersStarted
      BY <2>1 DEF ServersStarted, KInv, TypeOK
    <2>2. CASE RunTest
      <3>1. PICK dead : proc' = [b \in Blocks |-> IF b \in dead THEN NoProc ELSE proc[b]]
        BY <2>2 DEF RunTest
      <3>2. NoProc \in Process /\ NoProc.phase = "none"
        BY ConstantsAssumption DEF NoProc, Process, Places
      <3> QED
        BY <3>1, <3>2 DEF KInv, TypeOK
    <2> QED
      BY <2>1, <2>2
  <1>5. NoneNew
    BY <1>4 DEF NoneNew, Missed, Live
  <1>6. TypeOK'
    <2>1. pc' \in Points /\ i' \in Nat \ {0} /\ Len(servers') \in Places
      BY <1>1, <1>3 DEF KInv, TypeOK, Points
    <2> QED
      BY <1>1, <1>2, <1>3, <1>4, <2>1 DEF KInv, TypeOK, tested
  <1>7. Counted' /\ \A k \in DOMAIN servers : ~Swept(k)'
    BY <1>1 DEF Counted, Swept
  <1> QED
    BY <1>1, <1>3, <1>5, <1>6, <1>7, StepKeeps

\* The port files go at the end, of servers that are stopped or meant to stay.
LEMMA EndingKeeps ==
  ASSUME KInv, StartAndExit \/ CleanupAllServers
  PROVE  KInv'
  <1>1. /\ pc \in {"ready", "free"} /\ pc' = "ended" /\ i' = 1 /\ locked' \subseteq locked
        /\ pc = "free" \/ conf.startandexit
        /\ UNCHANGED <<conf, tested, objects, judged>>
    BY DEF StartAndExit, CleanupAllServers, At, Goto
  <1>2. UNCHANGED <<servers, proc, datadir>>
    BY <1>1 DEF objects
  <1>3. TypeOK'
    BY <1>1, <1>2 DEF KInv, TypeOK, Points, tested, judged
  <1>4. Apart' /\ Held' /\ Counted'
    BY <1>1, <1>2 DEF KInv, Apart, Held, Counted
  <1>5. OnlyMissedAreLeft'
    <2>1. CASE pc = "free"
      <3>1. \A b \in Blocks : Missed(b)
        BY <2>1 DEF KInv, Tracked, Swept
      <3> QED
        BY <1>2, <3>1 DEF OnlyMissedAreLeft, Missed, Live
    <2>2. CASE conf.startandexit
      BY <1>1, <2>2 DEF OnlyMissedAreLeft
    <2> QED
      BY <1>1, <2>1, <2>2
  <1> QED
    BY <1>1, <1>3, <1>4, <1>5 DEF KInv

\* A process that comes up, ends or hangs is marked as before.
LEMMA ProcessKeeps ==
  ASSUME KInv, NEW b \in Blocks, Boot(b) \/ Hang(b)
  PROVE  KInv'
  <1>1. /\ proc[b].phase # "none" /\ UNCHANGED <<conf, pc, i, tested, servers, datadir, locked, judged>>
        /\ \/ \E ph \in {"up", "mute"} : proc' = [proc EXCEPT ![b].phase = ph]
           \/ proc' = [proc EXCEPT ![b] = NoProc]
    BY DEF Boot, Hang
  <1>2. proc \in [Blocks -> Process] /\ proc[b] \in Process
    BY DEF KInv, TypeOK
  <1>3. NoProc \in Process /\ NoProc.phase = "none"
    BY ConstantsAssumption DEF NoProc, Process, Places
  <1>4. /\ proc' \in [Blocks -> Process]
        /\ \A c \in Blocks : proc'[c].phase # "none" =>
             proc[c].phase # "none" /\ proc'[c].missed = proc[c].missed
    <2>1. CASE proc' = [proc EXCEPT ![b] = NoProc]
      BY <1>2, <1>3, <2>1
    <2>2. ASSUME NEW ph \in {"up", "mute"}, proc' = [proc EXCEPT ![b].phase = ph]
          PROVE  /\ proc' \in [Blocks -> Process]
                 /\ \A c \in Blocks : proc'[c].phase # "none" =>
                      proc[c].phase # "none" /\ proc'[c].missed = proc[c].missed
      <3> DEFINE q == [proc[b] EXCEPT !.phase = ph]
      <3>1. q \in Process /\ q.missed = proc[b].missed
        BY <1>2 DEF Process
      <3>2. proc' = [proc EXCEPT ![b] = q]
        BY <2>2
      <3> HIDE DEF q
      <3> QED
        BY <1>1, <1>2, <3>1, <3>2
    <2> QED
      BY <1>1, <2>1, <2>2
  <1>5. TypeOK'
    BY <1>1, <1>4 DEF KInv, TypeOK, tested, judged
  <1>6. Apart' /\ Held' /\ Counted'
    BY <1>1 DEF KInv, Apart, Held, Counted, tested
  <1>7. \A c \in Blocks : Missed(c) => Missed(c)'
    BY <1>4 DEF Missed, Live
  <1>8. pc' # "ended" => Tracked'
    BY <1>1, <1>7 DEF KInv, Tracked, Swept, tested
  <1>9. OnlyMissedAreLeft'
    BY <1>1, <1>4 DEF KInv, OnlyMissedAreLeft, At, Live
  <1> QED
    BY <1>5, <1>6, <1>8, <1>9 DEF KInv

\* Nothing else happens.
LEMMA NextKeeps == ASSUME KInv, [Next]_vars PROVE KInv'
  <1>1. CASE Runner
    BY <1>1, QuietStepsKeep, GetTestCaseKeeps, ResettingKeeps, StoppingKeeps, AllocateServerKeeps,
       ServersCountedKeeps, EvaluateServerKeeps, LoadDatadirsKeeps, LaunchKeeps, AnsweredKeeps,
       StartTimeoutKeeps, MarkingSteps, EndingKeeps DEF Runner
  <1>2. CASE RunTest \/ Interrupt
    BY <1>2, MarkingSteps, QuietStepsKeep
  <1>3. CASE \E b \in Blocks : Boot(b) \/ Hang(b)
    BY <1>3, ProcessKeeps
  <1>4. CASE UNCHANGED vars
    BY <1>4 DEF vars, objects, tested, judged, KInv, TypeOK, Apart, Held, Counted, Tracked, Swept,
                Missed, Live, OnlyMissedAreLeft, At
  <1> QED
    BY <1>1, <1>2, <1>3, <1>4 DEF Next

\* The server processes that kewpie.py leaves are those that did not answer the
\* last ping of a start() or stop(); only an exception in the clean-up leaves
\* others, with all port files (kewpie.py's "biggest concern": stop, reset,
\* stop_server_list, cleanup_all_servers).  Nothing is assumed: servers may come
\* up late, crash, hang and outlive their shutdown, and ctrl-C comes anywhere
\* before the clean-up.
THEOREM OnlyTheMissedAreLeft == Spec => []OnlyMissedAreLeft
  <1>1. Init => KInv
    <2> SUFFICES ASSUME Init
                 PROVE  KInv
      OBVIOUS
    <2>1. PICK b \in Blocks : servers = <<NewServer(b)>> /\ locked = {b}
      BY DEF Init
    <2>2. TypeOK
      BY InitTypes
    <2>3. Apart /\ Held
      BY <2>1 DEF Apart, Held, NewServer
    <2>4. Counted /\ Tracked /\ OnlyMissedAreLeft
      BY DEF Init, Counted, Tracked, Missed, Live, NoProc, OnlyMissedAreLeft, At
    <2> QED
      BY <2>2, <2>3, <2>4 DEF KInv
  <1>2. KInv /\ [Next]_vars => KInv'
    BY NextKeeps
  <1>3. KInv => OnlyMissedAreLeft
    BY DEF KInv
  <1> QED
    BY <1>1, <1>2, <1>3, PTL DEF Spec
=============================================================================
