-------------------------- MODULE StressTestProofs --------------------------
(***************************************************************************)
(* Proofs about StressTest, for any number of threads, any limits and any  *)
(* lists.  The properties speak of counters; what bounds a counter is how  *)
(* many threads stand between a check and a count, which IInv adds.        *)
(***************************************************************************)
EXTENDS StressTest, FiniteSetTheorems, TLAPS

Idle  == {"none", "done"}
Busy  == {"check", "count", "get", "save", "execute"}
Modes == {"seq", "random"}

Typed ==
  /\ conf \in [mode : Modes, edits : Edits, tests : Nat, loops : Nat]
  /\ removed \in BOOLEAN /\ (removed => conf.edits = "any" /\ stage # "init")
  /\ stage \in {"init", "run", "join", "end"} /\ created \in 0 .. Threads
  /\ loops \in Nat /\ tests \in Nat /\ executed \in Nat /\ listLen \in Lengths
  /\ th \in [Ids -> [pc : Idle \cup Busy, idx : Nat, mine : Nat, len : Nat]]

\* Who may be busy in which stage.
Stages ==
  /\ stage = "init" => created = 0
  /\ stage # "init" => th[Main].pc \in Idle
  /\ \A t \in 1 .. Threads : t > created => th[t].pc = "none"
  /\ stage = "end" => \A t \in Ids : th[t].pc \in Idle

\* Lists that have only grown are never read past their end.
Indices == ~removed => \A t \in Ids :
  th[t].len <= listLen /\ (th[t].pc # "none" => th[t].idx < th[t].len)

\* The threads at some place of their loop.
Inside(P) == {t \in Ids : th[t].pc \in P}
Limited == stage # "init" =>
  /\ conf.tests > 0 => tests + Cardinality(Inside({"count"})) <= conf.tests + (Threads - 1)
  /\ conf.loops > 0 => loops + Cardinality(Inside({"count", "get"})) <= conf.loops + (Threads - 1)
Pending ==
  /\ executed + Cardinality(Inside({"get", "save", "execute"})) <= tests
  /\ ~removed => tests = executed + Cardinality(Inside({"get", "save", "execute"}))
OwnIds  == \A t \in Ids : th[t].pc \in Busy =>
  th[t].mine <= tests /\ (th[t].pc \in {"get", "save"} => th[t].mine < tests)

IInv == Typed /\ Stages /\ Indices /\ Limited /\ Pending /\ OwnIds
-----------------------------------------------------------------------------
(* Counting threads.                                                        *)
LEMMA ThreadsType == Threads \in Nat \ {0} /\ Main \in Ids /\ \A l \in Lengths : l \in Nat /\ l > 0
  BY StressAssumption DEF Main, Ids

LEMMA AtMostThreads ==
  ASSUME NEW S \in SUBSET (1 .. Threads)
  PROVE  Cardinality(S) \in Nat /\ Cardinality(S) <= Threads
  <1>1. IsFiniteSet(1 .. Threads) /\ Cardinality(1 .. Threads) = Threads
    BY ThreadsType, FS_Interval
  <1>2. IsFiniteSet(S) /\ Cardinality(S) <= Cardinality(1 .. Threads)
    BY <1>1, FS_Subset
  <1> QED
    BY <1>1, <1>2, FS_CardinalityType

LEMMA InsideFinite == \A P : IsFiniteSet(Inside(P)) /\ Cardinality(Inside(P)) \in Nat
  <1> TAKE P
  <1>1. IsFiniteSet(Ids)
    BY ThreadsType, FS_Interval DEF Ids
  <1>2. Inside(P) \in SUBSET Ids
    BY DEF Inside
  <1>3. IsFiniteSet(Inside(P))
    BY <1>1, <1>2, FS_Subset
  <1> QED
    BY <1>3, FS_CardinalityType

LEMMA Moves ==
  ASSUME Typed, NEW t \in Ids, NEW r, Step(t, r), NEW P
  PROVE  /\ Cardinality(Inside(P)) \in Nat
         /\ (th[t].pc \in P <=> r.pc \in P) => Cardinality(Inside(P))' = Cardinality(Inside(P))
         /\ th[t].pc \in P /\ r.pc \notin P => Cardinality(Inside(P))' = Cardinality(Inside(P)) - 1
         /\ th[t].pc \notin P /\ r.pc \in P => Cardinality(Inside(P))' = Cardinality(Inside(P)) + 1
  <1>1. IsFiniteSet(Inside(P)) /\ Cardinality(Inside(P)) \in Nat
    BY InsideFinite
  <1>2. \A q \in Ids : th'[q] = IF q = t THEN r ELSE th[q]
    BY DEF Typed, Step
  <1>3. ASSUME th[t].pc \in P <=> r.pc \in P
        PROVE  Cardinality(Inside(P))' = Cardinality(Inside(P))
    <2>1. Inside(P)' = Inside(P)
      BY <1>2, <1>3 DEF Inside
    <2> QED
      BY <2>1
  <1>4. ASSUME th[t].pc \in P, r.pc \notin P
        PROVE  Cardinality(Inside(P))' = Cardinality(Inside(P)) - 1
    <2>1. Inside(P)' = Inside(P) \ {t} /\ t \in Inside(P)
      BY <1>2, <1>4 DEF Inside
    <2>2. Cardinality(Inside(P) \ {t}) = Cardinality(Inside(P)) - 1
      BY <1>1, <2>1, FS_RemoveElement
    <2> QED
      BY <2>1, <2>2
  <1>5. ASSUME th[t].pc \notin P, r.pc \in P
        PROVE  Cardinality(Inside(P))' = Cardinality(Inside(P)) + 1
    <2>1. Inside(P)' = Inside(P) \cup {t} /\ t \notin Inside(P)
      BY <1>2, <1>5 DEF Inside
    <2>2. Cardinality(Inside(P) \cup {t}) = Cardinality(Inside(P)) + 1
      BY <1>1, <2>1, FS_AddElement
    <2> QED
      BY <2>1, <2>2
  <1> QED
    BY <1>1, <1>3, <1>4, <1>5

(* While all are idle, nobody is inside.                                    *)
LEMMA NobodyInside ==
  ASSUME NEW P, P \cap Idle = {}, \A t \in Ids : th[t].pc \in Idle
  PROVE  Cardinality(Inside(P)) = 0
  <1>1. Inside(P) = {}
    BY DEF Inside
  <1> QED
    BY <1>1, FS_EmptySet

(* A busy thread is one that has been created, and it is not the end.       *)
LEMMA WhoIsBusy ==
  ASSUME Typed, Stages, NEW t \in Ids, th[t].pc \in Busy
  PROVE  stage # "end" /\ (stage # "init" => t \in 1 .. created) /\ (stage = "init" => t = Main)
  <1>1. th[t].pc \notin Idle
    BY DEF Idle, Busy
  <1>2. t \in 0 .. Threads /\ created \in 0 .. Threads
    BY DEF Typed, Ids
  <1>3. t # Main => t \in 1 .. Threads
    BY <1>2, ThreadsType DEF Main
  <1>4. t # Main => t <= created
    BY <1>1, <1>2, <1>3, ThreadsType DEF Stages, Idle
  <1> QED
    BY <1>1, <1>2, <1>3, <1>4, ThreadsType DEF Stages, Main
-----------------------------------------------------------------------------
LEMMA InitIsRight == Init => IInv
  <1> SUFFICES ASSUME Init
               PROVE  IInv
    OBVIOUS
  <1> USE ThreadsType, StressAssumption
  <1>1. listLen \in Lengths /\ listLen \in Nat /\ listLen > 0
    BY DEF Init
  <1>2. Client(listLen) \in [pc : Idle \cup Busy, idx : Nat, mine : Nat, len : Nat]
        /\ NoClient \in [pc : Idle \cup Busy, idx : Nat, mine : Nat, len : Nat]
    BY <1>1 DEF Client, NoClient, Idle, Busy
  <1>3. Typed
    <2>1. conf \in [mode : Modes, edits : Edits, tests : Nat, loops : Nat]
      BY DEF Init, Modes
    <2>2. th \in [Ids -> [pc : Idle \cup Busy, idx : Nat, mine : Nat, len : Nat]]
      BY <1>2 DEF Init
    <2>3. removed = FALSE
      BY DEF Init
    <2> QED
      <3>1. stage \in {"init", "run"} /\ created = 0 /\ loops = 0 /\ tests = 0 /\ executed = 0
        BY DEF Init
      <3>2. removed \in BOOLEAN /\ (removed => conf.edits = "any" /\ stage # "init")
        BY <2>3
      <3>3. created \in 0 .. Threads /\ loops \in Nat /\ tests \in Nat /\ executed \in Nat
        BY <3>1, ThreadsType
      <3>4. stage \in {"init", "run", "join", "end"}
        BY <3>1
      <3> QED
        BY <1>1, <2>1, <2>2, <3>2, <3>3, <3>4, Zenon DEF Typed
  <1>4. \A t \in Ids : th[t] = IF t = Main /\ stage = "init" THEN Client(listLen) ELSE NoClient
    BY DEF Init
  <1>5. \A t \in 1 .. Threads : t \in Ids /\ t # Main
    BY DEF Ids, Main
  <1>6. Stages
    BY <1>4, <1>5 DEF Init, Stages, NoClient, Idle
  <1>7. Indices
    BY <1>1, <1>4 DEF Indices, Client, NoClient
  <1>8. Limited /\ Pending
    <2>1. Inside({"count"}) = {} /\ Inside({"count", "get"}) = {} /\ Inside({"get", "save", "execute"}) = {}
      BY <1>4 DEF Inside, Client, NoClient
    <2>2. Cardinality({}) = 0
      BY FS_EmptySet
    <2>3. tests = 0 /\ loops = 0 /\ executed = 0 /\ conf.tests \in Nat /\ conf.loops \in Nat
      BY <1>3 DEF Init, Typed
    <2>4. Pending
      BY <2>1, <2>2, <2>3 DEF Pending
    <2>5. conf.tests > 0 => 0 + 0 <= conf.tests + (Threads - 1)
      BY <2>3
    <2>6. conf.loops > 0 => 0 + 0 <= conf.loops + (Threads - 1)
      BY <2>3
    <2>7. Limited
      BY <2>1, <2>2, <2>3, <2>5, <2>6 DEF Limited
    <2> QED
      BY <2>4, <2>7
  <1>9. OwnIds
    BY <1>4 DEF Init, OwnIds, Client, NoClient, Busy
  <1> QED
    BY <1>3, <1>6, <1>7, <1>8, <1>9 DEF IInv

(* A step of a busy thread leaves the others, and the stage, as they are.   *)
LEMMA ClientStages ==
  ASSUME Typed, Stages, NEW t \in Ids, NEW r, Step(t, r), th[t].pc \in Busy, UNCHANGED <<stage, created>>
  PROVE  Stages'
  <1>1. \A q \in Ids : th'[q] = IF q = t THEN r ELSE th[q]
    BY DEF Typed, Step
  <1>2. stage # "end" /\ (stage # "init" => t \in 1 .. created) /\ created \in 0 .. Threads
    BY WhoIsBusy DEF Typed
  <1>3. stage # "init" => t # Main
    BY <1>2 DEF Main
  <1>4. \A q \in 1 .. Threads : q \in Ids /\ (stage = "init" => created = 0)
    BY ThreadsType DEF Ids, Stages
  <1>5. ASSUME NEW q \in 1 .. Threads, q > created
        PROVE  th'[q].pc = "none"
    <2>1. th[q].pc = "none" /\ q \in Ids
      BY <1>4, <1>5 DEF Stages
    <2>2. q # t
      BY <2>1 DEF Busy
    <2> QED
      BY <1>1, <2>1, <2>2
  <1> QED
    BY <1>1, <1>2, <1>3, <1>5, ThreadsType DEF Stages

LEMMA CheckLimitsIsRight == ASSUME IInv, NEW t \in Ids, CheckLimits(t) PROVE IInv'
  <1> USE DEF IInv
  <1>1. PICK r : Step(t, r) /\ r.pc \in {"done", "count"} /\ r.idx = th[t].idx /\ r.mine = th[t].mine
                 /\ r \in [pc : Idle \cup Busy, idx : Nat, mine : Nat, len : Nat]
                 /\ (r.len = th[t].len \/ r.len = listLen) /\ (r.pc = "count" => ~Reached)
    <2>1. th[t] \in [pc : Idle \cup Busy, idx : Nat, mine : Nat, len : Nat] /\ listLen \in Nat
      BY ThreadsType DEF Typed
    <2>2. CASE exiting
      <3>1. Step(t, [th[t] EXCEPT !.pc = "done"])
        BY <2>2 DEF CheckLimits, list
      <3> QED
        BY <2>1, <3>1 DEF Idle
    <2>3. CASE ~exiting
      <3> DEFINE r == [th[t] EXCEPT !.pc = IF Reached THEN "done" ELSE "count",
                                    !.len = IF conf.edits # "none" THEN listLen ELSE @]
      <3>1. Step(t, r)
        BY <2>3 DEF CheckLimits, list
      <3>2. r.pc = (IF Reached THEN "done" ELSE "count")
            /\ r.idx = th[t].idx /\ r.mine = th[t].mine /\ (r.len = th[t].len \/ r.len = listLen)
            /\ r \in [pc : Idle \cup Busy, idx : Nat, mine : Nat, len : Nat]
        BY <2>1 DEF Idle, Busy
      <3> HIDE DEF r
      <3> QED
        BY <3>1, <3>2
    <2> QED
      BY <2>2, <2>3
  <1>2. th[t].pc = "check" /\ th[t].pc \in Busy
    BY DEF CheckLimits, At, Busy, list
  <1>3. UNCHANGED <<conf, stage, created, loops, tests, listLen, removed, executed>>
    BY DEF CheckLimits, counters, list
  <1>4. \A q \in Ids : th'[q] = IF q = t THEN r ELSE th[q]
    BY <1>1 DEF Typed, Step
  <1>5. Typed'
    BY <1>1, <1>3 DEF Typed, Step
  <1>6. Stages'
    BY <1>1, <1>2, <1>3, ClientStages
  <1>7. Indices'
    <2> SUFFICES ASSUME ~removed, NEW q \in Ids
                 PROVE  th'[q].len <= listLen /\ (th'[q].pc # "none" => th'[q].idx < th'[q].len)
      BY <1>3 DEF Indices
    <2>1. th[q].len <= listLen /\ (th[q].pc # "none" => th[q].idx < th[q].len) /\ listLen \in Nat
      BY ThreadsType DEF Indices, Typed
    <2>2. th[t].idx < th[t].len /\ th[t].len <= listLen /\ th[t].idx \in Nat /\ th[t].len \in Nat
      BY <1>2 DEF Indices, Typed
    <2> QED
      BY <1>1, <1>4, <2>1, <2>2
  <1>8. Pending'
    <2>1. Cardinality(Inside({"get", "save", "execute"}))' = Cardinality(Inside({"get", "save", "execute"}))
      BY <1>1, <1>2, Moves
    <2> QED
      BY <1>3, <2>1 DEF Pending
  <1>9. Limited'
    <2> SUFFICES ASSUME stage # "init"
                 PROVE  Limited'
      BY <1>3 DEF Limited
    <2>1. CASE r.pc = "done"
      <3>1. /\ Cardinality(Inside({"count"}))' = Cardinality(Inside({"count"}))
            /\ Cardinality(Inside({"count", "get"}))' = Cardinality(Inside({"count", "get"}))
        BY <1>1, <1>2, <2>1, Moves
      <3> QED
        BY <1>3, <3>1 DEF Limited
    <2>2. CASE r.pc = "count"
      <3>1. /\ conf.tests > 0 => tests < conf.tests
            /\ conf.loops > 0 => loops < conf.loops
        BY <1>1, <2>2 DEF Reached, Limit, Typed
      <3>2. /\ Inside({"count"})' \in SUBSET (1 .. Threads)
            /\ Inside({"count", "get"})' \in SUBSET (1 .. Threads)
        <4>1. th'[Main].pc \in Idle
          BY <1>3, <1>6 DEF Stages
        <4>2. \A q \in Ids : q # Main => q \in 1 .. Threads
          BY ThreadsType DEF Ids, Main
        <4> QED
          BY <4>1, <4>2 DEF Inside, Idle
      <3>3. /\ Cardinality(Inside({"count"})') \in Nat /\ Cardinality(Inside({"count"})') <= Threads
            /\ Cardinality(Inside({"count", "get"})') \in Nat
            /\ Cardinality(Inside({"count", "get"})') <= Threads
        BY <3>2, AtMostThreads
      <3>4. conf.tests \in Nat /\ conf.loops \in Nat /\ tests \in Nat /\ loops \in Nat
        BY DEF Typed
      <3>5. /\ conf.tests > 0 => tests + Cardinality(Inside({"count"})') <= conf.tests + (Threads - 1)
            /\ conf.loops > 0 => loops + Cardinality(Inside({"count", "get"})') <= conf.loops + (Threads - 1)
        BY <3>1, <3>3, <3>4, ThreadsType
      <3> QED
        BY <1>3, <3>5 DEF Limited
    <2> QED
      BY <1>1, <2>1, <2>2
  <1>10. OwnIds'
    BY <1>1, <1>2, <1>3, <1>4 DEF OwnIds, Busy
  <1> QED
    BY <1>5, <1>6, <1>7, <1>8, <1>9, <1>10

LEMMA CountTestIsRight == ASSUME IInv, NEW t \in Ids, CountTest(t) PROVE IInv'
  <1> USE DEF IInv
  <1> DEFINE r == [th[t] EXCEPT !.pc = "get"]
  <1>1. /\ th[t].pc = "count" /\ Step(t, r) /\ tests' = tests + 1
        /\ UNCHANGED <<conf, stage, created, loops, listLen, removed, executed>>
    BY DEF CountTest, At, list
  <1>2. th[t] \in [pc : Idle \cup Busy, idx : Nat, mine : Nat, len : Nat]
    BY DEF Typed
  <1>3. /\ r.pc = "get" /\ r.idx = th[t].idx /\ r.mine = th[t].mine /\ r.len = th[t].len
        /\ r \in [pc : Idle \cup Busy, idx : Nat, mine : Nat, len : Nat]
    BY <1>2 DEF Busy
  <1> HIDE DEF r
  <1>4. \A q \in Ids : th'[q] = IF q = t THEN r ELSE th[q]
    BY <1>1 DEF Typed, Step
  <1>5. Typed'
    BY <1>1, <1>3 DEF Typed, Step
  <1>6. Stages'
    BY <1>1, ClientStages DEF Busy
  <1>7. Indices'
    BY <1>1, <1>3, <1>4 DEF Indices
  <1>8. /\ Cardinality(Inside({"count"})) \in Nat
        /\ Cardinality(Inside({"count"}))' = Cardinality(Inside({"count"})) - 1
        /\ Cardinality(Inside({"count", "get"}))' = Cardinality(Inside({"count", "get"}))
        /\ Cardinality(Inside({"get", "save", "execute"})) \in Nat
        /\ Cardinality(Inside({"get", "save", "execute"}))' = Cardinality(Inside({"get", "save", "execute"})) + 1
    BY <1>1, <1>3, Moves
  <1>9. tests \in Nat /\ executed \in Nat
    BY DEF Typed
  <1>10. Pending'
    BY <1>1, <1>8, <1>9 DEF Pending
  <1>11. tests' + Cardinality(Inside({"count"}))' = tests + Cardinality(Inside({"count"}))
    BY <1>1, <1>8, <1>9
  <1>12. Limited'
    BY <1>1, <1>8, <1>11 DEF Limited
  <1>13. OwnIds'
    <2> SUFFICES ASSUME NEW q \in Ids, th'[q].pc \in Busy
                 PROVE  th'[q].mine < tests'
      BY <1>1, <1>4, <1>5 DEF OwnIds, Typed
    <2>1. th'[q].mine = th[q].mine /\ th[q].pc \in Busy /\ th[q].mine \in Nat
      BY <1>1, <1>3, <1>4 DEF Busy, Typed
    <2>2. th[q].mine <= tests
      BY <2>1 DEF OwnIds
    <2> QED
      BY <1>1, <1>9, <2>1, <2>2
  <1> QED
    BY <1>5, <1>6, <1>7, <1>10, <1>12, <1>13

LEMMA GetTestIsRight ==
  ASSUME IInv, NEW t \in Ids, GetNextTest(t) \/ GetRandomTest(t)
  PROVE  IInv'
  <1> USE DEF IInv
  <1>1. th[t] \in [pc : Idle \cup Busy, idx : Nat, mine : Nat, len : Nat] /\ loops \in Nat
    BY DEF Typed
  <1>2. th[t].pc = "get" /\ UNCHANGED <<conf, stage, created, tests, listLen, removed, executed>>
    BY DEF GetNextTest, GetRandomTest, At, counters, list
  <1>3. PICK r : /\ Step(t, r) /\ r.pc \in {"save", "check"} /\ r.mine = th[t].mine /\ r.len = th[t].len
                 /\ r.idx \in Nat /\ (th[t].idx < th[t].len => r.pc = "save" /\ r.idx < r.len)
                 /\ r \in [pc : Idle \cup Busy, idx : Nat, mine : Nat, len : Nat]
                 /\ loops' \in {loops, loops + 1}
    <2>1. CASE GetNextTest(t)
      <3> DEFINE r == [th[t] EXCEPT !.idx = NextIdx(t),
                                    !.pc = IF th[t].idx < th[t].len THEN "save" ELSE "check"]
      <3>1. Step(t, r) /\ loops' = NextLoops(t)
        BY <2>1 DEF GetNextTest, list
      <3>2. NextIdx(t) \in Nat /\ (th[t].idx < th[t].len => NextIdx(t) < th[t].len)
        BY <1>1 DEF NextIdx
      <3>3. loops' \in {loops, loops + 1}
        BY <3>1 DEF NextLoops
      <3>4. /\ r.pc = (IF th[t].idx < th[t].len THEN "save" ELSE "check") /\ r.idx = NextIdx(t)
            /\ r.mine = th[t].mine /\ r.len = th[t].len
            /\ r \in [pc : Idle \cup Busy, idx : Nat, mine : Nat, len : Nat]
        BY <1>1, <3>2 DEF Busy
      <3> HIDE DEF r
      <3> QED
        BY <3>1, <3>2, <3>3, <3>4
    <2>2. CASE GetRandomTest(t)
      <3> DEFINE r == [th[t] EXCEPT !.pc = "save"]
      <3>1. Step(t, r) /\ loops' = loops
        BY <2>2 DEF GetRandomTest, counters, list
      <3>2. /\ r.pc = "save" /\ r.idx = th[t].idx /\ r.mine = th[t].mine /\ r.len = th[t].len
            /\ r \in [pc : Idle \cup Busy, idx : Nat, mine : Nat, len : Nat]
        BY <1>1 DEF Busy
      <3> HIDE DEF r
      <3> QED
        BY <1>1, <3>1, <3>2
    <2> QED
      BY <2>1, <2>2
  <1>4. \A q \in Ids : th'[q] = IF q = t THEN r ELSE th[q]
    BY <1>3 DEF Typed, Step
  <1>5. Typed'
    BY <1>1, <1>2, <1>3 DEF Typed, Step
  <1>6. Stages'
    BY <1>2, <1>3, ClientStages DEF Busy
  <1>7. ~removed => r.idx < r.len /\ r.pc = "save"
    BY <1>2, <1>3 DEF Indices
  <1>8. Indices'
    BY <1>2, <1>3, <1>4, <1>7 DEF Indices
  <1>9. /\ Cardinality(Inside({"count"}))' = Cardinality(Inside({"count"}))
        /\ Cardinality(Inside({"count", "get"})) \in Nat
        /\ Cardinality(Inside({"count", "get"}))' = Cardinality(Inside({"count", "get"})) - 1
    BY <1>2, <1>3, Moves
  <1>10. loops' + Cardinality(Inside({"count", "get"}))' <= loops + Cardinality(Inside({"count", "get"}))
    BY <1>1, <1>3, <1>9
  <1>11. Limited'
    <2> SUFFICES ASSUME stage # "init"
                 PROVE  Limited'
      BY <1>2 DEF Limited
    <2>1. conf.tests > 0 => tests' + Cardinality(Inside({"count"}))' <= conf.tests + (Threads - 1)
      BY <1>2, <1>9 DEF Limited
    <2>2. loops' \in Nat /\ Cardinality(Inside({"count", "get"}))' \in Int /\ conf.loops \in Nat
      BY <1>1, <1>3, <1>9 DEF Typed
    <2>3. conf.loops > 0 => loops + Cardinality(Inside({"count", "get"})) <= conf.loops + (Threads - 1)
      BY DEF Limited
    <2>4. conf.loops > 0 => loops' + Cardinality(Inside({"count", "get"}))' <= conf.loops + (Threads - 1)
      BY <1>1, <1>9, <1>10, <2>2, <2>3, ThreadsType
    <2> QED
      BY <1>2, <2>1, <2>4 DEF Limited
  <1>12. Pending'
    <2> DEFINE n == Cardinality(Inside({"get", "save", "execute"}))
    <2>1. n \in Nat /\ tests \in Nat /\ executed \in Nat
      BY InsideFinite DEF Typed
    <2>2. CASE r.pc = "save"
      <3>1. n' = n
        BY <1>2, <1>3, <2>2, Moves
      <3> QED
        BY <1>2, <3>1 DEF Pending
    <2>3. CASE r.pc = "check"
      <3>1. n' = n - 1 /\ removed
        BY <1>2, <1>3, <1>7, <2>3, Moves
      <3>2. executed + n <= tests
        BY DEF Pending
      <3>3. executed + n' <= tests
        BY <2>1, <3>1, <3>2
      <3> QED
        BY <1>2, <3>1, <3>3 DEF Pending
    <2> QED
      BY <1>3, <2>2, <2>3
  <1>13. OwnIds'
    <2> SUFFICES ASSUME NEW q \in Ids, th'[q].pc \in Busy
                 PROVE  th'[q].mine <= tests /\ (th'[q].pc \in {"get", "save"} => th'[q].mine < tests)
      BY <1>2 DEF OwnIds
    <2>1. CASE q = t
      BY <1>2, <1>3, <1>4, <2>1 DEF OwnIds, Busy
    <2>2. CASE q # t
      BY <1>4, <2>2 DEF OwnIds
    <2> QED
      BY <2>1, <2>2
  <1> QED
    BY <1>5, <1>6, <1>8, <1>11, <1>12, <1>13

(* A thread that saves the counters or has executed its test.               *)
LEMMA ExecuteIsRight ==
  ASSUME IInv, NEW t \in Ids, SaveCounters(t) \/ TestExecute(t)
  PROVE  IInv'
  <1> USE DEF IInv
  <1>1. th[t] \in [pc : Idle \cup Busy, idx : Nat, mine : Nat, len : Nat] /\ tests \in Nat /\ executed \in Nat
    BY DEF Typed
  <1>2. UNCHANGED <<conf, stage, created, loops, tests, listLen, removed>> /\ th[t].pc \in {"save", "execute"}
    BY DEF SaveCounters, TestExecute, At, counters, list
  <1>3. PICK r : /\ Step(t, r) /\ r.idx = th[t].idx /\ r.len = th[t].len
                 /\ r \in [pc : Idle \cup Busy, idx : Nat, mine : Nat, len : Nat]
                 /\ r.mine \in {th[t].mine, tests}
                 /\ \/ th[t].pc = "save" /\ r.pc = "execute" /\ executed' = executed
                    \/ th[t].pc = "execute" /\ r.pc = "check" /\ executed' = executed + 1
    <2>1. CASE SaveCounters(t)
      <3> DEFINE r == [th[t] EXCEPT !.pc = "execute", !.mine = tests]
      <3>1. Step(t, r) /\ executed' = executed /\ th[t].pc = "save"
        BY <2>1 DEF SaveCounters, At, list
      <3>2. /\ r.pc = "execute" /\ r.idx = th[t].idx /\ r.mine = tests /\ r.len = th[t].len
            /\ r \in [pc : Idle \cup Busy, idx : Nat, mine : Nat, len : Nat]
        BY <1>1 DEF Busy
      <3> HIDE DEF r
      <3> QED
        BY <3>1, <3>2
    <2>2. CASE TestExecute(t)
      <3> DEFINE r == [th[t] EXCEPT !.pc = "check"]
      <3>1. Step(t, r) /\ executed' = executed + 1 /\ th[t].pc = "execute"
        BY <2>2 DEF TestExecute, At, list
      <3>2. /\ r.pc = "check" /\ r.idx = th[t].idx /\ r.mine = th[t].mine /\ r.len = th[t].len
            /\ r \in [pc : Idle \cup Busy, idx : Nat, mine : Nat, len : Nat]
        BY <1>1 DEF Busy
      <3> HIDE DEF r
      <3> QED
        BY <3>1, <3>2
    <2> QED
      BY <2>1, <2>2
  <1>4. \A q \in Ids : th'[q] = IF q = t THEN r ELSE th[q]
    BY <1>3 DEF Typed, Step
  <1>5. Typed'
    BY <1>1, <1>2, <1>3 DEF Typed, Step
  <1>6. Stages'
    BY <1>2, <1>3, ClientStages DEF Busy
  <1>7. Indices'
    BY <1>2, <1>3, <1>4 DEF Indices
  <1>8. /\ Cardinality(Inside({"count"}))' = Cardinality(Inside({"count"}))
        /\ Cardinality(Inside({"count", "get"}))' = Cardinality(Inside({"count", "get"}))
    BY <1>2, <1>3, Moves
  <1>9. Limited'
    BY <1>2, <1>8 DEF Limited
  <1>10. Pending'
    <2> DEFINE n == Cardinality(Inside({"get", "save", "execute"}))
    <2>1. CASE r.pc = "execute"
      <3>1. n' = n /\ executed' = executed
        BY <1>3, <2>1, Moves
      <3> QED
        BY <1>2, <3>1 DEF Pending
    <2>2. CASE r.pc = "check"
      <3>1. n \in Nat /\ n' = n - 1 /\ executed' = executed + 1
        BY <1>3, <2>2, Moves
      <3>2. executed' + n' = executed + n
        BY <1>1, <3>1
      <3> QED
        BY <1>2, <3>2 DEF Pending
    <2> QED
      BY <1>3, <2>1, <2>2
  <1>11. OwnIds'
    <2> SUFFICES ASSUME NEW q \in Ids, th'[q].pc \in Busy
                 PROVE  th'[q].mine <= tests /\ (th'[q].pc \in {"get", "save"} => th'[q].mine < tests)
      BY <1>2 DEF OwnIds
    <2>1. CASE q = t
      <3>1. th[t].mine <= tests /\ th[t].mine \in Nat
        BY <1>1, <1>2 DEF OwnIds, Busy
      <3> QED
        BY <1>1, <1>3, <1>4, <2>1, <3>1
    <2>2. CASE q # t
      BY <1>4, <2>2 DEF OwnIds
    <2> QED
      BY <2>1, <2>2
  <1> QED
    BY <1>5, <1>6, <1>7, <1>9, <1>10, <1>11
-----------------------------------------------------------------------------
LEMMA RunningStageIsRight == ASSUME IInv, RunningStage PROVE IInv'
  <1> USE DEF IInv
  <1>1. /\ stage = "init" /\ th[Main].pc = "done" /\ stage' = "run"
        /\ loops' = 0 /\ tests' = 0 /\ executed' = 0 /\ UNCHANGED <<conf, created, th, listLen, removed>>
    BY DEF RunningStage, At, list
  <1>2. \A t \in Ids : th[t].pc \in Idle
    <2>1. \A t \in Ids : t = Main \/ (t \in 1 .. Threads /\ t > 0)
      BY ThreadsType DEF Ids, Main
    <2>2. created = 0
      BY <1>1 DEF Stages
    <2> QED
      BY <1>1, <2>1, <2>2 DEF Stages, Idle
  <1>3. /\ Cardinality(Inside({"count"})) = 0 /\ Cardinality(Inside({"count", "get"})) = 0
        /\ Cardinality(Inside({"get", "save", "execute"})) = 0
    BY <1>2, NobodyInside DEF Idle
  <1>4. \A P : Cardinality(Inside(P))' = Cardinality(Inside(P))
    BY <1>1 DEF Inside
  <1>5. Typed'
    BY <1>1 DEF Typed
  <1>6. Stages'
    BY <1>1, <1>2, ThreadsType DEF Stages
  <1>7. Indices'
    BY <1>1 DEF Indices
  <1>8. Pending'
    BY <1>1, <1>3, <1>4 DEF Pending
  <1>9. conf.tests \in Nat /\ conf.loops \in Nat
    BY DEF Typed
  <1>10. /\ conf.tests > 0 => 0 + 0 <= conf.tests + (Threads - 1)
         /\ conf.loops > 0 => 0 + 0 <= conf.loops + (Threads - 1)
    BY <1>9, ThreadsType
  <1>11. Limited'
    BY <1>1, <1>3, <1>4, <1>10 DEF Limited
  <1>12. OwnIds'
    BY <1>1, <1>2 DEF OwnIds, Idle, Busy
  <1> QED
    BY <1>5, <1>6, <1>7, <1>8, <1>11, <1>12

LEMMA CreateThreadIsRight == ASSUME IInv, CreateThread PROVE IInv'
  <1> USE DEF IInv
  <1> DEFINE t == created + 1
             r == Client(listLen)
  <1>1. /\ stage = "run" /\ created < Threads /\ created' = t /\ Step(t, r)
        /\ UNCHANGED <<conf, stage, loops, tests, listLen, removed, executed>>
    BY DEF CreateThread, counters, list
  <1>2. created \in Nat /\ Threads \in Nat
    BY ThreadsType DEF Typed
  <1>3. t \in 1 .. Threads /\ t \in Ids /\ t > created /\ t # Main
    BY <1>1, <1>2 DEF Ids, Main
  <1>4. th[t].pc = "none"
    BY <1>3 DEF Stages
  <1>5. listLen \in Nat /\ listLen > 0
    BY ThreadsType DEF Typed
  <1>6. /\ r.pc = "check" /\ r.idx = 0 /\ r.mine = 0 /\ r.len = listLen
        /\ r \in [pc : Idle \cup Busy, idx : Nat, mine : Nat, len : Nat]
    BY <1>5 DEF Client, Busy
  <1>7. /\ Cardinality(Inside({"count"}))' = Cardinality(Inside({"count"}))
        /\ Cardinality(Inside({"count", "get"}))' = Cardinality(Inside({"count", "get"}))
        /\ Cardinality(Inside({"get", "save", "execute"}))' = Cardinality(Inside({"get", "save", "execute"}))
    BY <1>1, <1>3, <1>4, <1>6, Moves
  <1>8. created' \in 0 .. Threads /\ \A q \in 1 .. Threads : q \in Ids /\ (q > created' => q > created /\ q # t)
    BY <1>1, <1>2, <1>3 DEF Ids
  <1> HIDE DEF r, t
  <1>9. \A q \in Ids : th'[q] = IF q = t THEN r ELSE th[q]
    BY <1>1 DEF Typed, Step
  <1>10. Typed'
    BY <1>1, <1>6, <1>8 DEF Typed, Step
  <1>11. Stages'
    BY <1>1, <1>3, <1>8, <1>9, ThreadsType DEF Stages
  <1>12. Indices'
    BY <1>1, <1>5, <1>6, <1>9 DEF Indices
  <1>13. Limited' /\ Pending'
    BY <1>1, <1>7 DEF Limited, Pending
  <1>14. tests \in Nat
    BY DEF Typed
  <1>15. OwnIds'
    BY <1>1, <1>6, <1>9, <1>14 DEF OwnIds
  <1> QED
    BY <1>10, <1>11, <1>12, <1>13, <1>15

(* The main thread's other steps, the signal, and the user's edits.         *)
LEMMA OthersAreRight ==
  ASSUME IInv, StopCreating \/ JoinThreads \/ Interrupt \/ EditTestsFile \/ UNCHANGED vars
  PROVE  IInv'
  <1> USE DEF IInv
  <1>1. UNCHANGED <<conf, created, loops, tests, th, executed>> /\ listLen' \in Lengths
    BY DEF StopCreating, JoinThreads, Interrupt, EditTestsFile, vars, counters, Typed, list
  <1>2. stage' \in {"init", "run", "join", "end"} /\ (stage' = "init" <=> stage = "init")
    BY DEF StopCreating, JoinThreads, Interrupt, EditTestsFile, vars, Typed, list
  <1>3. /\ removed' \in BOOLEAN /\ (removed => removed')
        /\ removed' => conf.edits = "any" /\ stage # "init"
        /\ ~removed' => listLen' = listLen \/ listLen' > listLen
    <2>1. CASE EditTestsFile
      <3>1. removed' = (removed \/ listLen' < listLen) /\ removed \in BOOLEAN
        BY <2>1 DEF EditTestsFile, Typed
      <3>2. listLen' > listLen \/ (conf.edits = "any" /\ stage # "init")
        BY <2>1 DEF EditTestsFile
      <3>3. listLen \in Nat /\ listLen' \in Nat
        BY <1>1, ThreadsType DEF Typed
      <3>4. listLen' > listLen => ~(listLen' < listLen)
        BY <3>3
      <3>5. ~(listLen' < listLen) => listLen' = listLen \/ listLen' > listLen
        BY <3>3
      <3> DEFINE shorter == listLen' < listLen
      <3>6. shorter \in BOOLEAN /\ removed' = (removed \/ shorter)
        BY <3>1
      <3>7. removed' \in BOOLEAN /\ (removed => removed')
        BY <3>1, <3>6
      <3>8. removed' => conf.edits = "any" /\ stage # "init"
        BY <3>2, <3>4, <3>6 DEF Typed
      <3>9. ~removed' => listLen' = listLen \/ listLen' > listLen
        BY <3>5, <3>6
      <3> QED
        BY <3>7, <3>8, <3>9
    <2>2. CASE UNCHANGED <<listLen, removed>>
      BY <2>2 DEF Typed
    <2> QED
      BY <2>1, <2>2 DEF StopCreating, JoinThreads, Interrupt, vars, list
  <1>8. Typed'
    BY <1>1, <1>2, <1>3 DEF Typed
  <1>4. \A P : Cardinality(Inside(P))' = Cardinality(Inside(P))
    BY <1>1 DEF Inside
  <1>5. Limited' /\ Pending' /\ OwnIds'
    BY <1>1, <1>2, <1>3, <1>4 DEF Limited, Pending, OwnIds
  <1>6. Indices'
    <2> SUFFICES ASSUME ~removed', NEW t \in Ids
                 PROVE  th[t].len <= listLen' /\ (th[t].pc # "none" => th[t].idx < th[t].len)
      BY <1>1 DEF Indices
    <2>1. th[t].len <= listLen /\ th[t].len \in Nat /\ listLen \in Nat /\ listLen' \in Nat
      BY <1>1, <1>3, ThreadsType DEF Indices, Typed
    <2>2. th[t].len <= listLen'
      BY <1>3, <2>1
    <2> QED
      BY <1>3, <2>2 DEF Indices
  <1>7. Stages'
    <2>1. CASE JoinThreads
      <3>1. stage = "join" /\ \A t \in 1 .. created : th[t].pc = "done"
        BY <2>1 DEF JoinThreads, At
      <3>2. \A t \in Ids : t = Main \/ t \in 1 .. created \/ (t \in 1 .. Threads /\ t > created)
        BY ThreadsType DEF Typed, Ids, Main
      <3>3. \A t \in Ids : th[t].pc \in Idle
        BY <3>1, <3>2 DEF Stages, Idle
      <3> QED
        BY <1>1, <1>2, <3>1, <3>3 DEF Stages
    <2>2. CASE ~JoinThreads
      <3>1. stage' = "end" => stage = "end"
        BY <2>2 DEF StopCreating, Interrupt, EditTestsFile, vars, list
      <3> QED
        BY <1>1, <1>2, <3>1 DEF Stages
    <2> QED
      BY <2>1, <2>2
  <1> QED
    BY <1>5, <1>6, <1>7, <1>8

LEMMA StepIsRight == IInv /\ [Next]_vars => IInv'
  <1> SUFFICES ASSUME IInv, [Next]_vars
               PROVE  IInv'
    OBVIOUS
  <1>1. ASSUME NEW t \in Ids, ClientStep(t)
        PROVE  IInv'
    BY <1>1, CheckLimitsIsRight, CountTestIsRight, GetTestIsRight, ExecuteIsRight DEF ClientStep
  <1>2. CASE MainThread
    BY <1>2, RunningStageIsRight, CreateThreadIsRight, OthersAreRight DEF MainThread
  <1>3. CASE Interrupt \/ EditTestsFile \/ UNCHANGED vars
    BY <1>3, OthersAreRight
  <1> QED
    BY <1>1, <1>2, <1>3 DEF Next

(* A limit is overshot by less than the number of threads, though each limit *)
(* is checked under one lock and counted under another (stress-test.pl, the  *)
(* head of the loop and get_test).                                           *)
THEOREM LimitsHold == Spec => []Overshoot
  <1>1. ASSUME IInv
        PROVE  Overshoot
    <2> SUFFICES ASSUME stage # "init"
                 PROVE  /\ conf.tests > 0 => tests <= conf.tests + Threads - 1
                        /\ conf.loops > 0 => loops <= conf.loops + Threads - 1
      BY DEF Overshoot
    <2>1. /\ conf.tests > 0 => tests + Cardinality(Inside({"count"})) <= conf.tests + (Threads - 1)
          /\ conf.loops > 0 => loops + Cardinality(Inside({"count", "get"})) <= conf.loops + (Threads - 1)
      BY <1>1 DEF IInv, Limited
    <2>2. Cardinality(Inside({"count"})) \in Nat /\ Cardinality(Inside({"count", "get"})) \in Nat
      BY InsideFinite
    <2>3. conf.tests \in Nat /\ conf.loops \in Nat /\ tests \in Nat /\ loops \in Nat
      BY <1>1 DEF IInv, Typed
    <2> QED
      BY <2>1, <2>2, <2>3, ThreadsType
  <1>2. IInv => Overshoot
    BY <1>1
  <1> QED
    BY <1>2, InitIsRight, StepIsRight, PTL DEF Spec

(* At the end every counted test was executed and logged, whoever set        *)
(* exiting; none is missed before tests are removed from the list           *)
(* (test_loop).                                                              *)
THEOREM CountedTestsAreRun == Spec => []CountedAreRun
  <1>1. ASSUME IInv, stage = "end"
        PROVE  executed <= tests /\ (removed \/ executed = tests)
    <2>1. \A t \in Ids : th[t].pc \in Idle
      BY <1>1 DEF IInv, Stages
    <2>2. Cardinality(Inside({"get", "save", "execute"})) = 0
      BY <2>1, NobodyInside DEF Idle
    <2>3. tests \in Nat /\ executed \in Nat
      BY <1>1 DEF IInv, Typed
    <2> QED
      BY <1>1, <2>2, <2>3 DEF IInv, Pending
  <1>2. IInv => CountedAreRun
    BY <1>1 DEF CountedAreRun
  <1> QED
    BY <1>2, InitIsRight, StepIsRight, PTL DEF Spec

(* A thread logs its tests under increasing TestIDs, though the id is read   *)
(* under another lock than the one the test was counted under (test_loop).   *)
THEOREM IdsIncrease == Spec => OwnIdsIncrease
  <1>1. ASSUME IInv, [Next]_vars, NEW t \in Ids, At(t, "save"), th'[t].pc = "execute"
        PROVE  th'[t].mine > th[t].mine
    <2>1. th[t].mine < tests /\ th[t].pc = "save"
      BY <1>1 DEF IInv, OwnIds, At, Busy
    <2>2. th \in [Ids -> [pc : Idle \cup Busy, idx : Nat, mine : Nat, len : Nat]] /\ tests \in Nat
      BY <1>1 DEF IInv, Typed
    <2>3. ASSUME NEW q \in Ids, ClientStep(q)
          PROVE  q = t
      <3>1. PICK r : th' = [th EXCEPT ![q] = r]
        BY <2>3 DEF ClientStep, CheckLimits, CountTest, GetNextTest, GetRandomTest, SaveCounters,
                    TestExecute, Step, list
      <3> QED
        BY <1>1, <2>1, <2>2, <3>1
    <2>4. CASE ClientStep(t)
      <3>1. SaveCounters(t)
        BY <2>1, <2>4 DEF ClientStep, CheckLimits, CountTest, GetNextTest, GetRandomTest, TestExecute, At, list
      <3>2. th'[t].mine = tests
        BY <2>2, <3>1 DEF SaveCounters, Step, list
      <3> QED
        BY <2>1, <2>2, <3>2
    <2>5. CASE th' = th
      BY <1>1, <2>1, <2>5
    <2>6. CASE CreateThread
      <3>1. th' = [th EXCEPT ![created + 1] = Client(listLen)]
        BY <2>6 DEF CreateThread, Step, list
      <3> QED
        BY <1>1, <2>1, <2>2, <3>1 DEF Client
    <2>7. (\E q \in Ids : ClientStep(q)) \/ CreateThread \/ th' = th
      BY <1>1 DEF Next, MainThread, RunningStage, StopCreating, JoinThreads, Interrupt, EditTestsFile, vars, list
    <2> QED
      BY <2>3, <2>4, <2>5, <2>6, <2>7
  <1>2. IInv /\ [Next]_vars =>
          [\A t \in Ids : At(t, "save") /\ th'[t].pc = "execute" => th'[t].mine > th[t].mine]_vars
    BY <1>1
  <1> QED
    BY <1>2, InitIsRight, StepIsRight, PTL DEF Spec, OwnIdsIncrease
-----------------------------------------------------------------------------
(* The bounds of the counters.  In a run that only limits the loops, a       *)
(* thread's place in its list says how many tests it has counted since it    *)
(* last closed a loop: Got has one element for each of them.  Through are    *)
(* the threads that have closed a loop and not passed the limits since.      *)
Actors  == IF stage = "init" THEN {Main} ELSE 1 .. Threads
Got     == {w \in Actors \X (0 .. MaxLen - 1) :
              w[2] < th[w[1]].idx \/ (w[2] = th[w[1]].idx /\ th[w[1]].pc = "get")}
Through == {t \in Actors : th[t].idx = 0 /\ th[t].pc \in {"save", "execute", "check", "done"}}

Unborn   == \A t \in Ids : th[t].pc = "none" => th[t].idx = 0 /\ th[t].len = 0 /\ th[t].mine = 0
Progress == Limit.mode = "seq" => tests <= loops * MaxLen + Cardinality(Got)
Overrun  == Limit.loops > 0 /\ Limit.loops <= loops =>
  loops + 1 <= Limit.loops + Cardinality(Through)
Closing  == loops + Cardinality(Inside({"get"})) <= tests
Flags    == /\ exiting \in BOOLEAN /\ cancelled \in BOOLEAN /\ Bounded(conf)
            /\ conf.tests <= MaxLimit /\ conf.loops <= MaxLimit

Room == Unborn /\ Closing /\ Flags /\ (~removed => Progress /\ Overrun)

LEMMA LongestList == MaxLen \in Nat /\ MaxLen > 0 /\ \A l \in Lengths : l <= MaxLen
  <1>1. MaxLen \in Lengths /\ \A l \in Lengths : l <= MaxLen
    BY LongestAssumption DEF MaxLen
  <1> QED
    BY <1>1, ThreadsType

LEMMA ActorsFinite ==
  /\ Actors \subseteq Ids
  /\ IsFiniteSet(Actors) /\ Cardinality(Actors) \in Nat /\ Cardinality(Actors) <= Threads
  /\ IsFiniteSet(Through) /\ Cardinality(Through) \in Nat
  /\ IsFiniteSet(Got) /\ Cardinality(Got) \in Nat
  <1>1. Actors \subseteq Ids
    BY ThreadsType DEF Actors, Ids, Main
  <1>2. IsFiniteSet(Actors) /\ Cardinality(Actors) <= Threads
    <2>1. IsFiniteSet({Main}) /\ Cardinality({Main}) = 1
      BY FS_Singleton
    <2>2. IsFiniteSet(1 .. Threads) /\ Cardinality(1 .. Threads) = Threads
      BY ThreadsType, FS_Interval
    <2> QED
      BY <2>1, <2>2, ThreadsType DEF Actors
  <1>3. IsFiniteSet(0 .. MaxLen - 1)
    BY LongestList, FS_Interval
  <1>4. IsFiniteSet(Actors \X (0 .. MaxLen - 1))
    BY <1>2, <1>3, FS_Product
  <1>5. IsFiniteSet(Through) /\ IsFiniteSet(Got)
    <2>1. Through \in SUBSET Actors /\ Got \in SUBSET (Actors \X (0 .. MaxLen - 1))
      BY DEF Through, Got
    <2> QED
      BY <1>2, <1>4, <2>1, FS_Subset
  <1> QED
    BY <1>1, <1>2, <1>5, FS_CardinalityType

LEMMA SameStage ==
  ASSUME UNCHANGED <<conf, stage>>
  PROVE  Actors' = Actors /\ Limit' = Limit
  BY DEF Actors, Limit

(* A thread reads inside its list, and its list is no longer than the longest. *)
LEMMA InsideList ==
  ASSUME ~removed, IInv, Unborn, NEW t \in Ids
  PROVE  /\ th[t].idx \in 0 .. MaxLen - 1 /\ th[t].len \in 0 .. MaxLen
         /\ th[t].pc # "none" => th[t].idx < th[t].len
  <1>1. th[t].idx \in Nat /\ th[t].len \in Nat /\ listLen \in Nat /\ listLen <= MaxLen
    BY LongestList, ThreadsType DEF IInv, Typed
  <1>2. th[t].len <= listLen /\ (th[t].pc # "none" => th[t].idx < th[t].len)
    BY DEF IInv, Indices
  <1>3. th[t].pc = "none" => th[t].idx = 0
    BY DEF Unborn
  <1> QED
    BY <1>1, <1>2, <1>3, LongestList

LEMMA InitHasRoom == Init => Room
  <1> SUFFICES ASSUME Init
               PROVE  Room
    OBVIOUS
  <1> USE ThreadsType
  <1>1. \A t \in Ids : th[t] = IF t = Main /\ stage = "init" THEN Client(listLen) ELSE NoClient
    BY DEF Init
  <1>2. Unborn
    BY <1>1 DEF Unborn, Client, NoClient
  <1>3. loops = 0 /\ tests = 0
    BY DEF Init
  <1>4. Inside({"get"}) = {}
    BY <1>1 DEF Inside, Client, NoClient
  <1>5. Closing
    BY <1>3, <1>4, FS_EmptySet DEF Closing
  <1>6. Flags
    <2>1. conf \in [mode : {"seq", "random"}, edits : Edits, tests : 0 .. MaxLimit, loops : 0 .. MaxLimit] /\ Bounded(conf)
      BY DEF Init
    <2>2. conf.tests <= MaxLimit /\ conf.loops <= MaxLimit
      BY <2>1, StressAssumption
    <2>3. exiting \in BOOLEAN /\ cancelled \in BOOLEAN
      BY DEF Init
    <2> QED
      BY <2>1, <2>2, <2>3 DEF Flags
  <1>7. Progress
    <2>1. 0 * MaxLen = 0
      BY LongestList
    <2> QED
      BY <1>3, <2>1, ActorsFinite DEF Progress
  <1>8. Overrun
    <2>1. Limit.loops \in Nat
      BY DEF Init, Limit
    <2> QED
      BY <1>3, <2>1 DEF Overrun
  <1> QED
    BY <1>2, <1>5, <1>6, <1>7, <1>8 DEF Room

(* A step that moves a thread between places where it counts the same.      *)
LEMMA QuietStep ==
  ASSUME IInv, Room, NEW t \in Ids, NEW r, Step(t, r),
         UNCHANGED <<conf, stage, loops, tests>>, r.idx = th[t].idx,
         th[t].pc # "none", r.pc # "none", th[t].pc # "get", r.pc # "get",
         \/ r.pc = "count" /\ ~Reached
         \/ th[t].pc \in {"save", "execute", "check"} /\ r.pc \in {"save", "execute", "check", "done"}
  PROVE  Unborn' /\ Closing' /\ (~removed => Progress' /\ Overrun')
  <1>1. \A q \in Ids : th'[q] = IF q = t THEN r ELSE th[q]
    BY DEF IInv, Typed, Step
  <1>2. Actors' = Actors /\ Limit' = Limit /\ Actors \subseteq Ids
    BY SameStage, ActorsFinite
  <1>3. Unborn'
    BY <1>1 DEF Room, Unborn
  <1>4. Got' = Got
    BY <1>1, <1>2 DEF Got
  <1>5. ~removed => Progress'
    BY <1>2, <1>4 DEF Room, Progress
  <1>6. Inside({"get"})' = Inside({"get"})
    BY <1>1 DEF Inside
  <1>7. Closing'
    BY <1>6 DEF Room, Closing
  <1>8. ~removed => Overrun'
    <2>1. CASE r.pc = "count" /\ ~Reached
      BY <1>2, <2>1 DEF Overrun, Reached
    <2>2. CASE th[t].pc \in {"save", "execute", "check"} /\ r.pc \in {"save", "execute", "check", "done"}
      <3>1. Through' = Through
        BY <1>1, <1>2, <2>2 DEF Through
      <3> QED
        BY <1>2, <3>1 DEF Room, Overrun
    <2> QED
      BY <2>1, <2>2
  <1> QED
    BY <1>3, <1>5, <1>7, <1>8

LEMMA CountHasRoom ==
  ASSUME IInv, Room, NEW t \in Ids, CountTest(t)
  PROVE  Unborn' /\ Closing' /\ (~removed => Progress' /\ Overrun')
  <1> DEFINE r == [th[t] EXCEPT !.pc = "get"]
             w == <<t, th[t].idx>>
  <1>1. /\ th[t].pc = "count" /\ Step(t, r) /\ tests' = tests + 1 /\ tests \in Nat /\ loops \in Nat
        /\ UNCHANGED <<conf, stage, loops>>
    BY DEF CountTest, At, IInv, Typed, list
  <1>2. r.pc = "get" /\ r.idx = th[t].idx /\ r.mine = th[t].mine /\ r.len = th[t].len
    BY DEF IInv, Typed
  <1> HIDE DEF r
  <1>3. \A q \in Ids : th'[q] = IF q = t THEN r ELSE th[q]
    BY <1>1 DEF IInv, Typed, Step
  <1>4. Actors' = Actors /\ Limit' = Limit /\ Actors \subseteq Ids
    BY <1>1, SameStage, ActorsFinite
  <1>5. t \in Actors
    <2>1. (stage # "init" => t \in 1 .. created) /\ (stage = "init" => t = Main)
      BY <1>1, WhoIsBusy DEF IInv, Busy
    <2> QED
      BY <2>1, ThreadsType DEF Actors, IInv, Typed
  <1>6. ~removed => th[t].idx \in 0 .. MaxLen - 1
    BY InsideList DEF Room
  <1>7. Unborn'
    BY <1>2, <1>3 DEF Room, Unborn
  <1>8. ASSUME ~removed
        PROVE  Cardinality(Got)' = Cardinality(Got) + 1
    <2>1. w \notin Got
      BY <1>1, <1>6, <1>8 DEF Got
    <2>2. Got' = Got \cup {w}
      <3>1. \A q \in Actors, i \in 0 .. MaxLen - 1 :
              i < th'[q].idx \/ (i = th'[q].idx /\ th'[q].pc = "get") <=>
              i < th[q].idx \/ (i = th[q].idx /\ th[q].pc = "get") \/ (q = t /\ i = th[t].idx)
        BY <1>1, <1>2, <1>3, <1>4
      <3>2. w \in Actors \X (0 .. MaxLen - 1)
        BY <1>5, <1>6, <1>8
      <3> QED
        BY <1>4, <3>1, <3>2 DEF Got
    <2> QED
      BY <2>1, <2>2, ActorsFinite, FS_AddElement
  <1>9. ~removed => Progress'
    <2> SUFFICES ASSUME ~removed, Limit.mode = "seq"
                 PROVE  tests + 1 <= loops * MaxLen + Cardinality(Got)'
      BY <1>1, <1>4 DEF Progress
    <2>1. tests <= loops * MaxLen + Cardinality(Got)
      BY DEF Room, Progress
    <2>2. loops * MaxLen \in Nat /\ Cardinality(Got) \in Nat
      BY <1>1, LongestList, ActorsFinite
    <2> QED
      BY <1>1, <1>8, <2>1, <2>2
  <1>10. Through' = Through
    BY <1>1, <1>2, <1>3, <1>4 DEF Through
  <1>11. ~removed => Overrun'
    BY <1>1, <1>4, <1>10 DEF Room, Overrun
  <1>12. Closing'
    <2>1. Cardinality(Inside({"get"})) \in Nat
          /\ Cardinality(Inside({"get"}))' = Cardinality(Inside({"get"})) + 1
      BY <1>1, <1>2, Moves DEF IInv
    <2> QED
      BY <1>1, <2>1 DEF Room, Closing
  <1> QED
    BY <1>7, <1>9, <1>11, <1>12

(* A thread that closes a loop gives back as many elements as its list is    *)
(* long, which is at most what a loop adds to the bound.                     *)
LEMMA NextTestHasRoom ==
  ASSUME IInv, Room, NEW t \in Ids, GetNextTest(t)
  PROVE  Unborn' /\ Closing' /\ (~removed => Progress' /\ Overrun')
  <1> DEFINE r == [th[t] EXCEPT !.idx = NextIdx(t),
                                !.pc = IF th[t].idx < th[t].len THEN "save" ELSE "check"]
             closed == {<<t, i>> : i \in 0 .. th[t].idx}
  <1>1. /\ th[t].pc = "get" /\ Step(t, r) /\ loops' = NextLoops(t) /\ UNCHANGED <<conf, stage, tests>>
        /\ tests \in Nat /\ loops \in Nat
    BY DEF GetNextTest, At, IInv, Typed, list
  <1>2. ~removed =>
          /\ th[t].idx \in 0 .. MaxLen - 1 /\ th[t].len \in 0 .. MaxLen /\ th[t].idx < th[t].len
    BY <1>1, InsideList DEF Room
  <1>3. r.pc \in {"save", "check"} /\ r.idx = NextIdx(t) /\ (~removed => r.pc = "save")
    BY <1>2 DEF IInv, Typed
  <1> HIDE DEF r
  <1>4. \A q \in Ids : th'[q] = IF q = t THEN r ELSE th[q]
    BY <1>1 DEF IInv, Typed, Step
  <1>5. Actors' = Actors /\ Limit' = Limit /\ Actors \subseteq Ids
    BY <1>1, SameStage, ActorsFinite
  <1>6. t \in Actors
    <2>1. (stage # "init" => t \in 1 .. created) /\ (stage = "init" => t = Main)
      BY <1>1, WhoIsBusy DEF IInv, Busy
    <2> QED
      BY <2>1, ThreadsType DEF Actors, IInv, Typed
  <1>7. Unborn'
    BY <1>3, <1>4 DEF Room, Unborn
  <1>8. MaxLen \in Nat /\ Cardinality(Got) \in Nat /\ loops * MaxLen \in Nat /\ Cardinality(Through) \in Nat
    BY <1>1, LongestList, ActorsFinite
  <1>9. ASSUME ~removed, th[t].idx + 1 # th[t].len
        PROVE  Progress' /\ Overrun'
    <2>1. r.idx = th[t].idx + 1 /\ loops' = loops
      BY <1>1, <1>3, <1>9 DEF NextIdx, NextLoops
    <2>2. Got' = Got
      <3>1. \A q \in Actors, i \in 0 .. MaxLen - 1 :
              i < th'[q].idx \/ (i = th'[q].idx /\ th'[q].pc = "get") <=>
              i < th[q].idx \/ (i = th[q].idx /\ th[q].pc = "get")
        BY <1>1, <1>2, <1>3, <1>9, <1>4, <1>5, <2>1
      <3> QED
        BY <1>5, <3>1 DEF Got
    <2>3. Progress'
      BY <1>1, <1>5, <1>9, <2>1, <2>2 DEF Room, Progress
    <2>4. Through' = Through
      BY <1>1, <1>2, <1>3, <1>9, <1>4, <1>5, <2>1 DEF Through
    <2>5. Overrun'
      BY <1>5, <1>9, <2>1, <2>4 DEF Room, Overrun
    <2> QED
      BY <2>3, <2>5
  <1>10. ASSUME ~removed, th[t].idx + 1 = th[t].len
         PROVE  Progress' /\ Overrun'
    <2>1. r.idx = 0 /\ loops' = loops + 1
      BY <1>1, <1>3, <1>10 DEF NextIdx, NextLoops
    <2>2. Got' = Got \ closed /\ closed \subseteq Got
      <3>1. \A q \in Actors, i \in 0 .. MaxLen - 1 :
              i < th'[q].idx \/ (i = th'[q].idx /\ th'[q].pc = "get") <=>
              /\ i < th[q].idx \/ (i = th[q].idx /\ th[q].pc = "get")
              /\ ~(q = t /\ i \in 0 .. th[t].idx)
        BY <1>1, <1>2, <1>3, <1>10, <1>4, <1>5, <2>1
      <3>2. closed \subseteq Got
        <4>1. \A i \in 0 .. th[t].idx : i \in 0 .. MaxLen - 1 /\ (i < th[t].idx \/ i = th[t].idx)
          BY <1>2, <1>8, <1>10
        <4> QED
          BY <1>1, <1>6, <4>1 DEF Got
      <3> QED
        BY <1>5, <3>1, <3>2 DEF Got
    <2>3. Cardinality(closed) = th[t].idx + 1
      <3> DEFINE f == [i \in 0 .. th[t].idx |-> <<t, i>>]
      <3>1. IsFiniteSet(0 .. th[t].idx) /\ Cardinality(0 .. th[t].idx) = th[t].idx + 1
        <4>1. th[t].idx \in Int /\ 0 \in Int /\ ~(0 > th[t].idx) /\ th[t].idx - 0 + 1 = th[t].idx + 1
          BY <1>2, <1>10
        <4> QED
          BY <4>1, FS_Interval
      <3>2. f \in Bijection(0 .. th[t].idx, closed)
        BY DEF Bijection, Injection, Surjection, IsInjective
      <3> QED
        <4> HIDE DEF f, closed
        <4>1. Cardinality(0 .. th[t].idx) = Cardinality(closed)
          BY <3>1, <3>2, FS_Bijection DEF ExistsBijection
        <4> QED
          BY <3>1, <4>1
    <2>4. Cardinality(Got)' = Cardinality(Got) - th[t].len
      <3>1. Cardinality(Got \ closed) = Cardinality(Got) - Cardinality(Got \cap closed)
        BY ActorsFinite, FS_Difference
      <3>2. Got \cap closed = closed
        BY <2>2
      <3> QED
        BY <1>10, <2>2, <2>3, <3>1, <3>2
    <2>5. Progress'
      <3> SUFFICES ASSUME Limit.mode = "seq"
                   PROVE  tests <= (loops + 1) * MaxLen + Cardinality(Got)'
        BY <1>1, <1>5, <2>1 DEF Progress
      <3>1. tests <= loops * MaxLen + Cardinality(Got)
        BY <1>10 DEF Room, Progress
      <3>2. (loops + 1) * MaxLen = loops * MaxLen + MaxLen
        BY <1>1, <1>8
      <3> QED
        BY <1>1, <1>2, <1>8, <1>10, <2>4, <3>1, <3>2
    <2>6. Cardinality(Through)' = Cardinality(Through) + 1
      <3>1. Through' = Through \cup {t} /\ t \notin Through
        BY <1>1, <1>3, <1>4, <1>5, <1>6, <1>10, <2>1 DEF Through
      <3> QED
        BY <3>1, ActorsFinite, FS_AddElement
    <2>7. Overrun'
      <3> SUFFICES ASSUME Limit.loops > 0, Limit.loops <= loops + 1
                   PROVE  loops + 2 <= Limit.loops + (Cardinality(Through) + 1)
        BY <1>1, <1>5, <1>8, <2>1, <2>6 DEF Overrun
      <3>1. Limit.loops \in Nat
        BY DEF Limit, IInv, Typed
      <3>2. Limit.loops <= loops => loops + 1 <= Limit.loops + Cardinality(Through)
        BY <1>10 DEF Room, Overrun
      <3> QED
        BY <1>1, <1>8, <3>1, <3>2
    <2> QED
      BY <2>5, <2>7
  <1>11. Closing'
    <2>1. Cardinality(Inside({"get"})) \in Nat
          /\ Cardinality(Inside({"get"}))' = Cardinality(Inside({"get"})) - 1
      BY <1>1, <1>3, Moves DEF IInv
    <2>2. loops' <= loops + 1 /\ loops' \in Nat
      BY <1>1 DEF NextLoops
    <2> QED
      BY <1>1, <2>1, <2>2 DEF Room, Closing
  <1> QED
    BY <1>7, <1>9, <1>10, <1>11

LEMMA RandomTestHasRoom ==
  ASSUME IInv, Room, NEW t \in Ids, GetRandomTest(t)
  PROVE  Unborn' /\ Closing' /\ (~removed => Progress' /\ Overrun')
  <1> DEFINE r == [th[t] EXCEPT !.pc = "save"]
  <1>1. /\ th[t].pc = "get" /\ Step(t, r) /\ Limit.mode = "random"
        /\ UNCHANGED <<conf, stage, tests, loops>> /\ tests \in Nat /\ loops \in Nat
    BY DEF GetRandomTest, At, counters, IInv, Typed, list
  <1>2. r.pc = "save" /\ r.idx = th[t].idx
    BY DEF IInv, Typed
  <1> HIDE DEF r
  <1>3. \A q \in Ids : th'[q] = IF q = t THEN r ELSE th[q]
    BY <1>1 DEF IInv, Typed, Step
  <1>4. Actors' = Actors /\ Limit' = Limit /\ Actors \subseteq Ids
    BY <1>1, SameStage, ActorsFinite
  <1>5. Unborn'
    BY <1>2, <1>3 DEF Room, Unborn
  <1>6. Progress'
    BY <1>1, <1>4 DEF Progress
  <1>7. ~removed => Overrun'
    <2>1. Through \subseteq Through' /\ IsFiniteSet(Through')
      <3>1. Through \subseteq Through' /\ Through' \subseteq Actors
        BY <1>1, <1>3, <1>4 DEF Through
      <3> QED
        BY <3>1, ActorsFinite, FS_Subset
    <2>2. Cardinality(Through) <= Cardinality(Through') /\ Cardinality(Through') \in Nat
      BY <2>1, FS_Subset, FS_CardinalityType
    <2>3. Limit.loops \in Nat /\ Cardinality(Through) \in Nat
      BY ActorsFinite DEF Limit, IInv, Typed
    <2>4. ~removed /\ Limit.loops > 0 /\ Limit.loops <= loops => loops + 1 <= Limit.loops + Cardinality(Through')
      BY <1>1, <2>2, <2>3 DEF Room, Overrun
    <2> QED
      BY <1>1, <1>4, <2>4 DEF Overrun
  <1>8. Closing'
    <2>1. Cardinality(Inside({"get"})) \in Nat
          /\ Cardinality(Inside({"get"}))' = Cardinality(Inside({"get"})) - 1
      BY <1>1, <1>2, Moves DEF IInv
    <2> QED
      BY <1>1, <2>1 DEF Room, Closing
  <1> QED
    BY <1>5, <1>6, <1>7, <1>8

LEMMA CreateHasRoom ==
  ASSUME IInv, Room, CreateThread
  PROVE  Unborn' /\ Closing' /\ (~removed => Progress' /\ Overrun')
  <1> DEFINE t == created + 1
             r == Client(listLen)
  <1>1. /\ stage = "run" /\ created < Threads /\ Step(t, r) /\ UNCHANGED <<conf, stage, loops, tests>>
        /\ created \in Nat /\ Threads \in Nat /\ loops \in Nat
    BY ThreadsType DEF CreateThread, counters, IInv, Typed, list
  <1>2. t \in 1 .. Threads /\ t > created
    BY <1>1
  <1>3. t \in Actors /\ t \in Ids
    BY <1>1, <1>2 DEF Actors, Ids
  <1>4. th[t].pc = "none" /\ th[t].idx = 0
    BY <1>2, <1>3 DEF IInv, Stages, Room, Unborn
  <1>5. r.pc = "check" /\ r.idx = 0
    BY DEF Client
  <1> HIDE DEF r, t
  <1>6. \A q \in Ids : th'[q] = IF q = t THEN r ELSE th[q]
    BY <1>1 DEF IInv, Typed, Step
  <1>7. Actors' = Actors /\ Limit' = Limit /\ Actors \subseteq Ids
    BY <1>1, SameStage, ActorsFinite
  <1>8. Unborn'
    BY <1>5, <1>6 DEF Room, Unborn
  <1>9. Got' = Got
    BY <1>3, <1>4, <1>5, <1>6, <1>7 DEF Got
  <1>10. ~removed => Progress'
    BY <1>1, <1>7, <1>9 DEF Room, Progress
  <1>11. Cardinality(Through)' = Cardinality(Through) + 1 /\ Cardinality(Through) \in Nat
    <2>1. Through' = Through \cup {t} /\ t \notin Through
      BY <1>3, <1>4, <1>5, <1>6, <1>7 DEF Through
    <2> QED
      BY <2>1, ActorsFinite, FS_AddElement
  <1>12. ~removed => Overrun'
    <2>1. Limit.loops \in Nat
      BY DEF Limit, IInv, Typed
    <2>2. ~removed /\ Limit.loops > 0 /\ Limit.loops <= loops => loops + 1 <= Limit.loops + (Cardinality(Through) + 1)
      BY <1>1, <1>11, <2>1 DEF Room, Overrun
    <2> QED
      BY <1>1, <1>7, <1>11, <2>2 DEF Overrun
  <1>13. Closing'
    <2>1. Cardinality(Inside({"get"}))' = Cardinality(Inside({"get"}))
      BY <1>1, <1>3, <1>4, <1>5, Moves DEF IInv
    <2> QED
      BY <1>1, <2>1 DEF Room, Closing
  <1> QED
    BY <1>8, <1>10, <1>12, <1>13

LEMMA RunningStageHasRoom ==
  ASSUME IInv, Room, RunningStage
  PROVE  Unborn' /\ Closing' /\ (~removed => Progress' /\ Overrun')
  <1>1. /\ stage = "init" /\ th[Main].pc = "done" /\ stage' = "run" /\ loops' = 0 /\ tests' = 0
        /\ UNCHANGED <<conf, created, th>>
    BY DEF RunningStage, At, list
  <1>2. \A q \in 1 .. Threads : q \in Ids /\ th[q].pc = "none"
    BY <1>1, ThreadsType DEF IInv, Stages, Ids
  <1>3. Unborn'
    BY <1>1 DEF Room, Unborn
  <1>4. Progress'
    <2>1. (0 * MaxLen) = 0 /\ Cardinality(Got)' \in Nat
      <3>1. Got' = {}
        BY <1>1, <1>2 DEF Got, Actors, Room, Unborn
      <3> QED
        BY <3>1, LongestList, FS_EmptySet
    <2> QED
      BY <1>1, <2>1 DEF Progress
  <1>5. Overrun'
    <2>1. conf.loops \in Nat
      BY DEF IInv, Typed
    <2> QED
      BY <1>1, <2>1 DEF Overrun, Limit
  <1>6. Closing'
    <2>1. Inside({"get"})' = {}
      BY <1>1, <1>2, ThreadsType DEF Inside, Ids, Main
    <2> QED
      BY <1>1, <2>1, FS_EmptySet DEF Closing
  <1> QED
    BY <1>3, <1>4, <1>5, <1>6

LEMMA FlagsStep == Typed /\ Flags /\ [Next]_vars => Flags'
  <1> SUFFICES ASSUME Typed, Flags, [Next]_vars
               PROVE  Flags'
    OBVIOUS
  <1>1. conf' = conf
    BY DEF Next, MainThread, RunningStage, CreateThread, StopCreating, JoinThreads, Interrupt, EditTestsFile,
           ClientStep, CheckLimits, CountTest, GetNextTest, GetRandomTest, SaveCounters, TestExecute, vars, list
  <1>2. exiting' \in BOOLEAN /\ cancelled' \in BOOLEAN
    <2>1. Reached \in BOOLEAN
      BY DEF Reached
    <2> QED
      BY <2>1 DEF Next, MainThread, RunningStage, CreateThread, StopCreating, JoinThreads, Interrupt,
                  EditTestsFile, ClientStep, CheckLimits, CountTest, GetNextTest, GetRandomTest, SaveCounters,
                  TestExecute, vars, Flags, list
  <1> QED
    BY <1>1, <1>2 DEF Flags, Bounded

LEMMA RemovedStays == Typed /\ [Next]_vars => (removed => removed')
  BY DEF Next, MainThread, RunningStage, CreateThread, StopCreating, JoinThreads, Interrupt, EditTestsFile,
         ClientStep, CheckLimits, CountTest, GetNextTest, GetRandomTest, SaveCounters, TestExecute, vars, list,
         Typed

LEMMA RoomStep == IInv /\ Room /\ [Next]_vars => Room'
  <1> SUFFICES ASSUME IInv, Room, [Next]_vars
               PROVE  Unborn' /\ Closing' /\ (~removed => Progress' /\ Overrun')
    BY FlagsStep, RemovedStays DEF Room, IInv
  <1>1. ASSUME NEW t \in Ids, CheckLimits(t)
        PROVE  Unborn' /\ Closing' /\ (~removed => Progress' /\ Overrun')
    <2>1. th[t] \in [pc : Idle \cup Busy, idx : Nat, mine : Nat, len : Nat] /\ th[t].pc = "check"
          /\ UNCHANGED <<conf, stage, loops, tests>>
      BY <1>1 DEF IInv, Typed, CheckLimits, At, counters, list
    <2>2. PICK r : Step(t, r) /\ r.idx = th[t].idx /\ (r.pc = "done" \/ (r.pc = "count" /\ ~Reached))
      <3>1. CASE exiting
        <4> DEFINE d == [th[t] EXCEPT !.pc = "done"]
        <4>1. Step(t, d) /\ d.idx = th[t].idx /\ d.pc = "done"
          BY <1>1, <2>1, <3>1 DEF CheckLimits, list
        <4> QED
          BY <4>1
      <3>2. CASE ~exiting
        <4> DEFINE d == [th[t] EXCEPT !.pc = IF Reached THEN "done" ELSE "count",
                                      !.len = IF conf.edits # "none" THEN listLen ELSE @]
        <4>1. Step(t, d) /\ d.idx = th[t].idx /\ d.pc = IF Reached THEN "done" ELSE "count"
          BY <1>1, <2>1, <3>2 DEF CheckLimits, list
        <4> HIDE DEF d
        <4> QED
          BY <4>1
      <3> QED
        BY <3>1, <3>2
    <2> QED
      BY <2>1, <2>2, QuietStep
  <1>2. ASSUME NEW t \in Ids, SaveCounters(t) \/ TestExecute(t)
        PROVE  Unborn' /\ Closing' /\ (~removed => Progress' /\ Overrun')
    <2>1. th[t] \in [pc : Idle \cup Busy, idx : Nat, mine : Nat, len : Nat]
          /\ th[t].pc \in {"save", "execute"} /\ UNCHANGED <<conf, stage, loops, tests>>
      BY <1>2 DEF IInv, Typed, SaveCounters, TestExecute, At, counters, list
    <2>2. PICK r : Step(t, r) /\ r.idx = th[t].idx /\ r.pc \in {"execute", "check"}
      <3> DEFINE d == [th[t] EXCEPT !.pc = "execute", !.mine = tests]
                 e == [th[t] EXCEPT !.pc = "check"]
      <3>1. d.idx = th[t].idx /\ d.pc = "execute" /\ e.idx = th[t].idx /\ e.pc = "check"
        BY <2>1
      <3>2. Step(t, d) \/ Step(t, e)
        BY <1>2 DEF SaveCounters, TestExecute, list
      <3> HIDE DEF d, e
      <3> QED
        BY <3>1, <3>2
    <2> QED
      BY <2>1, <2>2, QuietStep
  <1>3. CASE StopCreating \/ JoinThreads \/ Interrupt \/ EditTestsFile \/ UNCHANGED vars
    <2>1. UNCHANGED <<conf, loops, tests, th>> /\ (stage' = "init" <=> stage = "init")
      BY <1>3 DEF StopCreating, JoinThreads, Interrupt, EditTestsFile, vars, counters, list
    <2>2. Actors' = Actors /\ Limit' = Limit
      BY <2>1 DEF Actors, Limit
    <2>3. Got' = Got /\ Through' = Through /\ Inside({"get"})' = Inside({"get"})
      BY <2>1, <2>2 DEF Got, Through, Inside
    <2> QED
      BY <2>1, <2>2, <2>3 DEF Room, Unborn, Progress, Overrun, Closing
  <1> QED
    BY <1>1, <1>2, <1>3, CountHasRoom, NextTestHasRoom, RandomTestHasRoom, CreateHasRoom, RunningStageHasRoom
       DEF Next, MainThread, ClientStep

(* How many tests a run can count: those of a limit on tests, or as many     *)
(* loops over the longest list as a limit on loops allows.                   *)
LEMMA TestsFit ==
  ASSUME IInv, Room
  PROVE  tests <= MaxLimit * MaxLen * Threads + Threads
  <1> DEFINE M == MaxLen
             L == Limit.loops
             k == Cardinality(Through)
  <1>1. /\ M \in Nat /\ M > 0 /\ Threads \in Nat /\ Threads > 0 /\ MaxLimit \in Nat /\ MaxLimit > 0
        /\ tests \in Nat /\ loops \in Nat /\ conf.tests \in Nat /\ conf.loops \in Nat /\ k \in Nat
        /\ conf.tests <= MaxLimit /\ conf.loops <= MaxLimit
    BY LongestList, ThreadsType, ActorsFinite, StressAssumption DEF IInv, Typed, Room, Flags
  <1>2. MaxLimit * M * Threads \in Nat /\ MaxLimit <= MaxLimit * M * Threads
    <2>1. MaxLimit * M \in Nat /\ MaxLimit <= MaxLimit * M
      BY <1>1
    <2>2. MaxLimit * M <= (MaxLimit * M) * Threads /\ (MaxLimit * M) * Threads \in Nat
      <3> DEFINE x == MaxLimit * M
      <3>1. x \in Nat /\ x <= x * Threads /\ x * Threads \in Nat
        <4> HIDE DEF x
        <4> QED
          BY <1>1, <2>1 DEF x
      <3> QED
        BY <3>1
    <2> QED
      BY <1>1, <2>1, <2>2
  <1> HIDE DEF M
  <1>3. CASE stage # "init" /\ conf.tests > 0
    <2>1. tests + Cardinality(Inside({"count"})) <= conf.tests + (Threads - 1)
          /\ Cardinality(Inside({"count"})) \in Nat
      BY <1>3, InsideFinite DEF IInv, Limited
    <2> QED
      BY <1>1, <1>2, <2>1 DEF M
  <1>4. CASE stage = "init" \/ conf.tests = 0
    <2>1. Limit.mode = "seq" /\ L \in Nat /\ L > 0 /\ L <= MaxLimit
      BY <1>1, <1>4 DEF Limit, Room, Flags, Bounded
    <2>2. tests <= loops * M + Cardinality(Got) /\ (L <= loops => loops + 1 <= L + k)
      <3>1. ~removed
        BY <1>1, <1>4 DEF IInv, Typed, Room, Flags, Bounded
      <3> QED
        BY <2>1, <3>1 DEF Room, Progress, Overrun, M
    <2>3. k <= Threads /\ Cardinality(Got) <= (Threads - k) * M
      <3> DEFINE rest == Actors \ Through
      <3>1. IsFiniteSet(rest) /\ Cardinality(rest) = Cardinality(Actors) - k
        <4>1. Through \subseteq Actors /\ Actors \cap Through = Through
          BY DEF Through
        <4> QED
          BY <4>1, ActorsFinite, FS_Difference
      <3>2. IsFiniteSet(0 .. M - 1) /\ Cardinality(0 .. M - 1) = M
        <4>1. M \in Nat /\ M - 1 \in Int /\ 0 <= M - 1 /\ (M - 1) - 0 + 1 = M
          BY <1>1
        <4> QED
          BY <4>1, FS_Interval
      <3>3. IsFiniteSet(rest \X (0 .. M - 1)) /\ Cardinality(rest \X (0 .. M - 1)) = Cardinality(rest) * M
        BY <3>1, <3>2, FS_Product
      <3>4. Got \subseteq rest \X (0 .. M - 1)
        BY DEF Got, Through, M
      <3>5. Cardinality(Got) <= Cardinality(rest) * M
        BY <3>3, <3>4, FS_Subset
      <3>6. Cardinality(rest) \in Nat /\ Cardinality(rest) <= Threads - k
        BY <1>1, <3>1, ActorsFinite, FS_CardinalityType
      <3>7. Cardinality(rest) * M <= (Threads - k) * M
        BY <1>1, <3>6
      <3>8. Cardinality(rest) * M \in Nat /\ (Threads - k) * M \in Int /\ Cardinality(Got) \in Nat
        BY <1>1, <3>6, ActorsFinite
      <3> QED
        BY <1>1, <3>5, <3>6, <3>7, <3>8
    <2>4. tests <= (L + (Threads - 1)) * M
      <3>1. loops + (Threads - k) <= L + (Threads - 1)
        BY <1>1, <2>1, <2>2, <2>3
      <3>2. (loops + (Threads - k)) * M <= (L + (Threads - 1)) * M
        <4> DEFINE a == loops + (Threads - k)
                   b == L + (Threads - 1)
        <4>1. a \in Nat /\ b \in Nat /\ a <= b
          BY <1>1, <2>1, <2>3, <3>1
        <4> HIDE DEF a, b
        <4>2. a * M <= b * M
          BY <1>1, <4>1
        <4> QED
          BY <4>2 DEF a, b
      <3>3. (loops + (Threads - k)) * M = loops * M + (Threads - k) * M
        BY <1>1, <2>3
      <3>4. loops * M \in Nat /\ (Threads - k) * M \in Int /\ Cardinality(Got) \in Nat
            /\ (L + (Threads - 1)) * M \in Int
        BY <1>1, <2>1, <2>3, ActorsFinite
      <3> HIDE DEF L, k
      <3> QED
        BY <1>1, <2>2, <2>3, <3>2, <3>3, <3>4
    <2>5. (L + (Threads - 1)) * M <= MaxLimit * M * Threads
      <3>1. L + (Threads - 1) <= L * Threads
        <4>1. (L - 1) * (Threads - 1) >= 0
          BY <1>1, <2>1
        <4>2. (L - 1) * (Threads - 1) = L * Threads - L - (Threads - 1)
          BY <1>1, <2>1
        <4> QED
          BY <1>1, <2>1, <4>1, <4>2
      <3>2. L * Threads <= MaxLimit * Threads /\ MaxLimit * Threads \in Nat /\ L * Threads \in Nat
        BY <1>1, <2>1
      <3> DEFINE a == L + (Threads - 1)
                 b == MaxLimit * Threads
      <3>3. a \in Nat /\ b \in Nat /\ a <= b
        BY <1>1, <2>1, <3>1, <3>2
      <3>4. b * M = MaxLimit * M * Threads
        BY <1>1
      <3> HIDE DEF a, b
      <3>5. a * M <= b * M
        BY <1>1, <3>3
      <3> QED
        BY <3>4, <3>5 DEF a, b
    <2>6. (L + (Threads - 1)) * M \in Nat
      BY <1>1, <2>1
    <2> HIDE DEF L
    <2> QED
      BY <1>1, <1>2, <2>4, <2>5, <2>6 DEF M
  <1> QED
    BY <1>1, <1>3, <1>4

LEMMA CountType == MaxLimit * MaxLen * Threads + Threads \in Nat
  <1>1. MaxLimit * MaxLen \in Nat
    BY StressAssumption, LongestList
  <1>2. MaxLimit * MaxLen * Threads \in Nat
    BY <1>1, ThreadsType
  <1> QED
    BY <1>2, ThreadsType

LEMMA CountersFit ==
  ASSUME IInv, Room
  PROVE  loops \in Count /\ tests \in Count /\ executed \in Count
  <1>1. MaxLimit * MaxLen * Threads + Threads \in Nat
    BY CountType
  <1>2. tests \in Nat /\ loops \in Nat /\ executed \in Nat
    BY DEF IInv, Typed
  <1>3. loops <= tests
    BY <1>2, InsideFinite DEF Room, Closing
  <1>4. executed <= tests
    BY <1>2, InsideFinite DEF IInv, Pending
  <1>5. tests <= MaxLimit * MaxLen * Threads + Threads
    BY TestsFit
  <1> HIDE DEF IInv
  <1> QED
    BY <1>1, <1>2, <1>3, <1>4, <1>5 DEF Count

(* An id that a thread has saved was a value of the counter, and its list is *)
(* one the tests file has had.                                               *)
Saved == \A t \in Ids : th[t].mine \in Count /\ th[t].len \in {0} \cup Lengths

LEMMA SavedStep ==
  ASSUME IInv, Room, Saved, [Next]_vars
  PROVE  Saved'
  <1>1. tests \in Count /\ 0 \in Count
    <2>1. tests \in Count
      BY CountersFit
    <2>2. 0 \in Count
      BY CountType DEF Count
    <2> QED
      BY <2>1, <2>2
  <1>2. \A t \in Ids : th'[t].mine \in {th[t].mine, tests, 0} /\ th'[t].len \in {th[t].len, listLen}
    <2>1. ASSUME NEW t \in Ids, NEW r, th' = [th EXCEPT ![t] = r], r.mine \in {th[t].mine, tests, 0},
                 r.len \in {th[t].len, listLen}
          PROVE  \A q \in Ids : /\ th'[q].mine \in {th[q].mine, tests, 0}
                                /\ th'[q].len \in {th[q].len, listLen}
      BY <2>1 DEF IInv, Typed
    <2>2. ASSUME NEW t \in Ids, ClientStep(t)
          PROVE  \E r : /\ th' = [th EXCEPT ![t] = r] /\ r.mine \in {th[t].mine, tests, 0}
                        /\ r.len \in {th[t].len, listLen}
      <3>1. th[t] \in [pc : Idle \cup Busy, idx : Nat, mine : Nat, len : Nat]
        BY DEF IInv, Typed
      <3> DEFINE a == [th[t] EXCEPT !.pc = "done"]
                 b == [th[t] EXCEPT !.pc = IF Reached THEN "done" ELSE "count",
                                    !.len = IF conf.edits # "none" THEN listLen ELSE @]
                 c == [th[t] EXCEPT !.pc = "get"]
                 d == [th[t] EXCEPT !.idx = NextIdx(t), !.pc = IF th[t].idx < th[t].len THEN "save" ELSE "check"]
                 e == [th[t] EXCEPT !.pc = "save"]
                 f == [th[t] EXCEPT !.pc = "execute", !.mine = tests]
                 g == [th[t] EXCEPT !.pc = "check"]
      <3>2. /\ a.mine = th[t].mine /\ b.mine = th[t].mine /\ c.mine = th[t].mine /\ d.mine = th[t].mine
            /\ e.mine = th[t].mine /\ f.mine = tests /\ g.mine = th[t].mine
        BY <3>1
      <3>4. /\ a.len = th[t].len /\ b.len \in {th[t].len, listLen} /\ c.len = th[t].len
            /\ d.len = th[t].len /\ e.len = th[t].len /\ f.len = th[t].len /\ g.len = th[t].len
        BY <3>1
      <3>3. \E r \in {a, b, c, d, e, f, g} : th' = [th EXCEPT ![t] = r]
        <4>1. CASE CheckLimits(t)
          BY <4>1 DEF CheckLimits, Step, list
        <4>2. CASE CountTest(t) \/ GetNextTest(t) \/ GetRandomTest(t)
          BY <4>2 DEF CountTest, GetNextTest, GetRandomTest, Step, list
        <4>3. CASE SaveCounters(t) \/ TestExecute(t)
          BY <4>3 DEF SaveCounters, TestExecute, Step, list
        <4> QED
          BY <2>2, <4>1, <4>2, <4>3 DEF ClientStep
      <3> HIDE DEF a, b, c, d, e, f, g
      <3> QED
        BY <3>2, <3>3, <3>4
    <2>3. CASE CreateThread
      <3>1. created + 1 \in Ids /\ th' = [th EXCEPT ![created + 1] = Client(listLen)]
        BY <2>3, ThreadsType DEF CreateThread, Step, Ids, IInv, Typed, list
      <3> QED
        BY <2>1, <3>1 DEF Client
    <2>4. CASE th' = th
      BY <2>4
    <2> QED
      BY <2>1, <2>2, <2>3, <2>4 DEF Next, MainThread, RunningStage, StopCreating, JoinThreads, Interrupt,
                                    EditTestsFile, vars, list
  <1>3. listLen \in Lengths
    BY DEF IInv, Typed
  <1>4. ASSUME NEW t \in Ids
        PROVE  th'[t].mine \in Count /\ th'[t].len \in {0} \cup Lengths
    <2>1. th[t].mine \in Count /\ th[t].len \in {0} \cup Lengths
      BY DEF Saved
    <2> HIDE DEF Saved
    <2> QED
      BY <1>1, <1>2, <1>3, <2>1
  <1>5. Count' = Count
    OBVIOUS
  <1> QED
    BY <1>4, <1>5 DEF Saved

(* Whatever is done to the list of tests, what limits the loops also limits   *)
(* the tests, where loops alone are limited, and a limit on the tests limits *)
(* the loops; no index leaves its list before a test is removed (test_loop,  *)
(* get_next_test).                                                           *)
THEOREM CountersBounded == Spec => []TypeOK
  <1> DEFINE J == IInv /\ Room /\ Saved
  <1>1. Init => J
    <2> SUFFICES ASSUME Init
                 PROVE  Saved
      BY InitIsRight, InitHasRoom
    <2>1. 0 \in Count /\ listLen \in Lengths
      BY CountType DEF Count, Init
    <2>2. Client(listLen).mine = 0 /\ Client(listLen).len = listLen
          /\ NoClient.mine = 0 /\ NoClient.len = 0
      BY DEF Client, NoClient
    <2>3. \A t \in Ids : th[t] = Client(listLen) \/ th[t] = NoClient
      BY DEF Init
    <2> HIDE DEF Client, NoClient
    <2> QED
      BY <2>1, <2>2, <2>3 DEF Saved
  <1>2. J /\ [Next]_vars => J'
    BY StepIsRight, RoomStep, SavedStep
  <1>3. J => TypeOK
    <2> SUFFICES ASSUME J
                 PROVE  TypeOK
      OBVIOUS
    <2>1. loops \in Count /\ tests \in Count /\ executed \in Count
      BY CountersFit
    <2>2. ASSUME NEW t \in Ids
          PROVE  /\ th[t] \in [pc : {"none", "check", "count", "get", "save", "execute", "done"},
                               idx : Nat, mine : Count, len : {0} \cup Lengths]
                 /\ removed \/ th[t].len = 0 \/ th[t].idx < th[t].len
      <3>2. removed \/ th[t].len = 0 \/ th[t].idx < th[t].len
        BY InsideList DEF Room, Unborn
      <3>3. th[t].mine \in Count /\ th[t].len \in {0} \cup Lengths
        BY DEF Saved
      <3>4. th[t] \in [pc : Idle \cup Busy, idx : Nat, mine : Nat, len : Nat]
        BY DEF IInv, Typed
      <3>5. Idle \cup Busy = {"none", "check", "count", "get", "save", "execute", "done"}
        BY DEF Idle, Busy
      <3> QED
        BY <3>2, <3>3, <3>4, <3>5
    <2>3. th \in [Ids -> [pc : {"none", "check", "count", "get", "save", "execute", "done"},
                          idx : Nat, mine : Count, len : {0} \cup Lengths]]
      BY <2>2 DEF IInv, Typed
    <2> QED
      BY <2>1, <2>2, <2>3 DEF TypeOK, IInv, Typed, Room, Flags
  <1> HIDE DEF J
  <1> QED
    BY <1>1, <1>2, <1>3, PTL DEF Spec
=============================================================================
