-------------------------- MODULE SandboxesProofs ---------------------------
(***************************************************************************)
(* RightRevision for any number of runs, any command lines, any branches   *)
(* and any history.  By itself it is not inductive: that a run works in    *)
(* the right sandbox rests on what the root branch and the command branch  *)
(* held when it was made, and on there being one maker of each directory.  *)
(***************************************************************************)
EXTENDS Sandboxes, SequenceTheorems, WellFoundedInduction, TLAPS

Numbers     == Revs \cup {LastOne, HeadWord}
Jobs        == [command : ValidCommands, branch : Branches, from : Numbers, to : Numbers,
                single : BOOLEAN, step : Nat \ {0}, noPull : BOOLEAN, useRoot : BOOLEAN]
Logs        == {log \in Seq(Nat) : Len(log) <= MaxRev}
Directories == [state : {"absent", "partial", "whole"}, log : Logs]

Typed ==
  /\ pc \in [Runs -> Labels] /\ cli \in [Runs -> Clis] /\ job \in [Runs -> Jobs]
  /\ DOMAIN rev = Runs /\ DOMAIN seen = Runs
  /\ dirs \in [Dirs -> Directories]
  /\ upstream.log \in Logs /\ upstream.commits \in Nat
  /\ 1 <= Len(upstream.log) /\ Len(upstream.log) <= upstream.commits /\ upstream.commits <= MaxRev

\* A run that has started has seen what its root branch holds.
Under(r)  == pc[r] \notin Ended \cup {"start"}
RootSeen  == \A r \in Runs : Under(r) /\ IsWhole(RootOf(r)) => dirs[RootOf(r)].log \in seen[r]
\* From the moment that it has made or pulled the command branch, what that one
\* holds too.
Made(r)   ==
  \/ pc[r] \in {"look revision", "pull revision", "branch revision", "branching revision"}
  \/ pc[r] = "execute" /\ ~job[r].useRoot
MadeSeen  == \A r \in Runs : Made(r) /\ IsWhole(CommandOf(r)) => dirs[CommandOf(r)].log \in seen[r]
\* A sandbox that is being made is partial, and one run makes it.
Making(r) == pc[r] = "branching revision"
OneMaker  == \A r \in Runs : Making(r) =>
  /\ SandboxOf(r) \in Dirs /\ dirs[SandboxOf(r)].state = "partial"
  /\ \A q \in Runs : Making(q) /\ SandboxOf(q) = SandboxOf(r) => q = r
\* RightRevision, and the sandbox is one of the directories.
Working(r) == pc[r] = "execute" /\ ~job[r].useRoot
Right     == \A r \in Runs : Working(r) =>
  /\ SandboxOf(r) \in Dirs /\ IsWhole(SandboxOf(r))
  /\ Holds(dirs[SandboxOf(r)].log, rev[r], seen[r])

IInv == Typed /\ RootSeen /\ MadeSeen /\ OneMaker /\ Right
-----------------------------------------------------------------------------
(* The names of the directories of different levels, and of different       *)
(* branches, commands and revisions, differ.                                *)
LEMMA Levels ==
  \A b, c, n, b2, c2, n2 :
    /\ RootDir(b) # CommandDir(b2, c2) /\ RootDir(b) # RevisionDir(b2, c2, n2)
    /\ CommandDir(b, c) # RevisionDir(b2, c2, n2)
    /\ RootDir(b) = RootDir(b2) => b = b2
    /\ CommandDir(b, c) = CommandDir(b2, c2) => b = b2 /\ c = c2
    /\ RevisionDir(b, c, n) = RevisionDir(b2, c2, n2) => b = b2 /\ c = c2 /\ n = n2
  BY DEF RootDir, CommandDir, RevisionDir

LEMMA Located ==
  ASSUME Typed, NEW r \in Runs
  PROVE  /\ job[r] \in Jobs /\ job[r].branch.dir \in Names
         /\ RootOf(r) \in Dirs /\ CommandOf(r) \in Dirs
         /\ rev[r] \in Revs => SandboxOf(r) \in Dirs
  <1>1. job[r] \in Jobs
    BY DEF Typed
  <1>2. job[r].branch \in Branches /\ job[r].command \in ValidCommands
    BY <1>1 DEF Jobs
  <1>3. job[r].branch.dir \in Names
    BY <1>2 DEF Names
  <1> QED
    BY <1>1, <1>2, <1>3 DEF RootOf, CommandOf, SandboxOf, Dirs

(* The first revisions of a history are a history, no longer than it.       *)
LEMMA Cut ==
  ASSUME NEW log \in Logs, NEW n \in 0 .. Len(log)
  PROVE  At(log, n) \in Logs /\ Len(At(log, n)) = n
  <1>1. log \in Seq(Nat) /\ MaxRev \in Nat /\ Len(log) \in Nat /\ Len(log) <= MaxRev
    BY SandboxAssumption DEF Logs
  <1>2. SubSeq(log, 1, n) \in Seq(Nat) /\ Len(SubSeq(log, 1, n)) = n
    <2>1. CASE n = 0
      <3>1. SubSeq(log, 1, n) = << >>
        BY <1>1, <2>1, SubSeqProperties
      <3> QED
        BY <2>1, <3>1
    <2>2. CASE n # 0
      BY <1>1, <2>2, SubSeqProperties
    <2> QED
      BY <2>1, <2>2
  <1> QED
    BY <1>1, <1>2 DEF At, Logs

(* A revision that a branch has is one of the revision numbers.             *)
LEMMA HasRevision ==
  ASSUME Typed, NEW d \in Dirs, NEW n, Has(d, n)
  PROVE  n \in Revs /\ n \in 1 .. Len(dirs[d].log) /\ dirs[d].log \in Logs
  <1>1. dirs[d] \in Directories
    BY DEF Typed
  <1>2. dirs[d].log \in Seq(Nat) /\ Len(dirs[d].log) <= MaxRev
    BY <1>1 DEF Directories, Logs
  <1>3. Len(dirs[d].log) \in Nat /\ MaxRev \in Nat
    BY <1>2, SandboxAssumption
  <1>4. n \in 1 .. Len(dirs[d].log)
    BY DEF Has
  <1> QED
    BY <1>1, <1>2, <1>3, <1>4 DEF Revs, Directories

LEMMA EmptyLog == <<>> \in Logs
  BY SandboxAssumption DEF Logs
LEMMA FirstLog == <<1>> \in Logs /\ Len(<<1>>) = 1
  BY SandboxAssumption DEF Logs

(* The command line and the configuration files make a job.                 *)
LEMMA JobIsTyped ==
  ASSUME NEW c \in Clis, NEW b \in Branches
  PROVE  Job(c, b) \in Jobs
  <1>1. c \in CommandLines(ValidCommands, Branches, Revs)
    BY SandboxAssumption
  <1>2. /\ c.command \in ValidCommands /\ c.plain \in PlainOptions
        /\ c.bzr \in BzrOptions(Branches, Revs)
    BY <1>1 DEF CommandLines
  <1>3. c.plain.noPull \in BOOLEAN /\ c.plain.useRoot \in BOOLEAN
    BY <1>2 DEF PlainOptions
  <1>4. /\ c.bzr.single \in BOOLEAN /\ c.bzr.step \in (Nat \ {0}) \cup {None}
        /\ c.bzr.from \in Numbers \cup {None} /\ c.bzr.to \in Numbers \cup {None}
    BY <1>2 DEF BzrOptions, Or, Numbers
  <1>5. Default(c.bzr.from, LastOne) \in Numbers /\ Default(c.bzr.to, LastOne) \in Numbers
    BY <1>4 DEF Default, Numbers
  <1>6. Default(c.bzr.step, 1) \in Nat \ {0}
    BY <1>4 DEF Default
  <1> QED
    BY <1>2, <1>3, <1>4, <1>5, <1>6 DEF Job, Jobs

LEMMA BranchIsKnown ==
  ASSUME NEW c \in Clis, NEW b \in Lookup(c.bzr.branch, BranchKeys, Merged(Files, c.command))
  PROVE  b \in Branches
  <1>1. c.bzr \in BzrOptions(Branches, Revs)
    BY SandboxAssumption DEF CommandLines
  <1>2. c.bzr.branch \in Branches \cup {None}
    BY <1>1 DEF BzrOptions, Or
  <1>3. CASE c.bzr.branch = None
    <2>1. c.command \in ValidCommands
      BY SandboxAssumption DEF CommandLines
    <2> QED
      BY <1>3, <2>1, SandboxAssumption
  <1>4. CASE c.bzr.branch # None
    BY <1>2, <1>4 DEF Lookup
  <1> QED
    BY <1>3, <1>4
-----------------------------------------------------------------------------
(* What is true at the start.                                               *)
LEMMA InitIsRight == Init => IInv
  <1> SUFFICES ASSUME Init
               PROVE  IInv
    OBVIOUS
  <1>1. \A r \in Runs : pc[r] = "start"
    BY DEF Init
  <1>2. RootSeen /\ MadeSeen /\ OneMaker /\ Right
    BY <1>1 DEF RootSeen, MadeSeen, OneMaker, Right, Under, Made, Making, Working
  <1>3. pc \in [Runs -> Labels] /\ cli \in [Runs -> Clis] /\ DOMAIN rev = Runs /\ DOMAIN seen = Runs
    BY DEF Init, Labels
  <1>4. job \in [Runs -> Jobs]
    <2>1. (CHOOSE b \in Branches : TRUE) \in Branches
      BY SandboxAssumption
    <2>2. \A r \in Runs : Job(cli[r], CHOOSE b \in Branches : TRUE) \in Jobs
      BY <1>3, <2>1, JobIsTyped
    <2> QED
      BY <2>2 DEF Init
  <1>5. Whole(<<1>>) \in Directories /\ Absent \in Directories
    BY FirstLog, EmptyLog DEF Whole, Absent, Directories
  <1>6. dirs \in [Dirs -> Directories]
    BY <1>5 DEF Init
  <1>7. upstream.log = <<1>> /\ upstream.commits = 1
    BY DEF Init
  <1>8. 1 <= MaxRev
    BY SandboxAssumption
  <1>9. Typed
    BY <1>3, <1>4, <1>6, <1>7, <1>8, FirstLog DEF Typed
  <1> QED
    BY <1>2, <1>9 DEF IInv

(* A step of a run that touches no directory.                               *)
LEMMA Quiet ==
  ASSUME IInv, NEW r \in Runs, NEW l \in Labels,
         pc' = [pc EXCEPT ![r] = l], UNCHANGED <<cli, job, rev, dirs, upstream, seen>>,
         l \in Ended \/ Under(r),
         l \in {"look revision", "pull revision", "branch revision"} => Made(r),
         l = "execute" => job[r].useRoot,
         l # "branching revision"
  PROVE  IInv'
  <1> USE DEF IInv
  <1>1. Typed'
    BY DEF Typed
  <1>2. \A q \in Runs : pc'[q] = IF q = r THEN l ELSE pc[q]
    BY DEF Typed
  <1>3. \A q \in Runs : /\ RootOf(q)' = RootOf(q) /\ CommandOf(q)' = CommandOf(q)
                        /\ SandboxOf(q)' = SandboxOf(q)
    BY DEF RootOf, CommandOf, SandboxOf
  <1>4. \A d : IsWhole(d)' = IsWhole(d)
    BY DEF IsWhole
  <1>5. RootSeen'
    BY <1>2, <1>3, <1>4 DEF RootSeen, Under
  <1>6. \A q \in Runs : Made(q)' => Made(q)
    BY <1>2 DEF Made
  <1>7. MadeSeen'
    BY <1>3, <1>4, <1>6 DEF MadeSeen
  <1>8. \A q \in Runs : (Making(q)' => Making(q)) /\ (Working(q)' => Working(q))
    BY <1>2 DEF Making, Working
  <1>9. OneMaker'
    BY <1>3, <1>8 DEF OneMaker
  <1>10. Right'
    BY <1>3, <1>4, <1>8 DEF Right
  <1> QED
    BY <1>1, <1>5, <1>7, <1>9, <1>10

(* A step that puts something in place of a run's root branch: a whole one  *)
(* is seen by all runs on that branch.                                      *)
LEMMA RootStep ==
  ASSUME IInv, NEW r \in Runs, NEW l \in Labels, NEW what \in Directories,
         pc' = [pc EXCEPT ![r] = l], UNCHANGED <<cli, job, rev, upstream>>,
         Put(RootOf(r), what), Under(r), ~Made(r),
         l \notin {"look revision", "pull revision", "branch revision", "branching revision",
                   "execute", "start"},
         \/ what.state # "whole" /\ seen' = seen
         \/ See(job[r].branch.dir, what.log, r)
  PROVE  IInv'
  <1> USE DEF IInv
  <1>1. \A q \in Runs : pc'[q] = IF q = r THEN l ELSE pc[q]
    BY DEF Typed
  <1>2. \A q \in Runs : /\ RootOf(q)' = RootOf(q) /\ CommandOf(q)' = CommandOf(q)
                        /\ SandboxOf(q)' = SandboxOf(q)
    BY DEF RootOf, CommandOf, SandboxOf
  <1>3. ASSUME NEW q \in Runs
        PROVE  /\ RootOf(r) # CommandOf(q) /\ RootOf(r) # SandboxOf(q)
               /\ RootOf(q) = RootOf(r) => job[q].branch.dir = job[r].branch.dir
    <2>1. RootOf(r) # CommandOf(q) /\ RootOf(r) # SandboxOf(q)
      BY DEF RootOf, CommandOf, SandboxOf, RootDir, CommandDir, RevisionDir
    <2>2. RootOf(q) = RootOf(r) => job[q].branch.dir = job[r].branch.dir
      BY DEF RootOf, RootDir
    <2> QED
      BY <2>1, <2>2
  <1>4. \A d \in Dirs : dirs'[d] = IF d = RootOf(r) THEN what ELSE dirs[d]
    BY DEF Typed, Put
  <1>5. Typed'
    <2>1. DOMAIN seen' = Runs
      BY DEF Typed, See
    <2> QED
      BY <2>1 DEF Typed, Put
  <1>6. \A q \in Runs : q # r /\ Under(q) => seen[q] \subseteq seen'[q]
    BY DEF See, Under
  <1>7. RootSeen'
    <2> SUFFICES ASSUME NEW q \in Runs, Under(q)', IsWhole(RootOf(q))'
                 PROVE  dirs'[RootOf(q)] .log \in seen'[q]
      BY <1>2 DEF RootSeen
    <2>1. RootOf(q) \in Dirs
      BY Located
    <2>2. CASE RootOf(q) = RootOf(r)
      <3>1. dirs'[RootOf(q)] = what
        BY <1>4, <2>1, <2>2
      <3>2. what.state = "whole"
        BY <1>2, <3>1 DEF IsWhole
      <3>3. See(job[r].branch.dir, what.log, r)
        BY <3>2
      <3>4. job[q].branch.dir = job[r].branch.dir
        BY <1>3, <2>2
      <3>5. q # r => Under(q)
        BY <1>1 DEF Under
      <3>6. what.log \in seen'[q]
        BY <3>3, <3>4, <3>5 DEF See, Under
      <3> QED
        BY <3>1, <3>6
    <2>3. CASE RootOf(q) # RootOf(r)
      <3>1. dirs'[RootOf(q)] = dirs[RootOf(q)]
        BY <1>4, <2>1, <2>3
      <3>2. Under(q) /\ q # r
        BY <1>1, <2>3 DEF Under
      <3>3. dirs[RootOf(q)].log \in seen[q]
        BY <1>2, <3>1, <3>2 DEF RootSeen, IsWhole
      <3> QED
        BY <1>6, <3>1, <3>2, <3>3
    <2> QED
      BY <2>2, <2>3
  <1>8. \A q \in Runs : Made(q)' => Made(q) /\ Under(q) /\ q # r
    BY <1>1 DEF Made, Under, Ended
  <1>9. MadeSeen'
    <2> SUFFICES ASSUME NEW q \in Runs, Made(q)', IsWhole(CommandOf(q))'
                 PROVE  dirs'[CommandOf(q)] .log \in seen'[q]
      BY <1>2 DEF MadeSeen
    <2>1. dirs'[CommandOf(q)] = dirs[CommandOf(q)]
      BY <1>3, <1>4, Located
    <2>2. dirs[CommandOf(q)].log \in seen[q]
      BY <1>2, <1>8, <2>1 DEF MadeSeen, IsWhole
    <2> QED
      BY <1>6, <1>8, <2>1, <2>2
  <1>10. \A q \in Runs : Making(q)' => Making(q)
    BY <1>1 DEF Making
  <1>11. \A q \in Runs : SandboxOf(q) \in Dirs => dirs'[SandboxOf(q)] = dirs[SandboxOf(q)]
    BY <1>3, <1>4
  <1>12. OneMaker'
    <2>1. ASSUME NEW q \in Runs, Making(q)'
          PROVE  /\ (SandboxOf(q) \in Dirs)' /\ (dirs[SandboxOf(q)].state = "partial")'
                 /\ \A p \in Runs : (Making(p) /\ SandboxOf(p) = SandboxOf(q))' => p = q
      <3>1. Making(q)
        BY <1>10, <2>1
      <3>2. \A p \in Runs : Making(p) /\ SandboxOf(p) = SandboxOf(q) => p = q
        BY <3>1 DEF OneMaker
      <3>3. SandboxOf(q) \in Dirs /\ dirs'[SandboxOf(q)].state = "partial"
        BY <1>11, <3>1 DEF OneMaker
      <3> QED
        BY <1>2, <1>10, <3>2, <3>3
    <2> QED
      BY <2>1 DEF OneMaker
  <1>13. Right'
    <2> SUFFICES ASSUME NEW q \in Runs, Working(q)'
                 PROVE  (/\ SandboxOf(q) \in Dirs /\ IsWhole(SandboxOf(q))
                         /\ Holds(dirs[SandboxOf(q)].log, rev[q], seen[q]))'
      BY DEF Right
    <2> SUFFICES /\ SandboxOf(q) \in Dirs /\ IsWhole(SandboxOf(q))'
                 /\ Holds(dirs'[SandboxOf(q)].log, rev[q], seen'[q])
      BY <1>2
    <2>1. Working(q) /\ Under(q) /\ q # r
      BY <1>1 DEF Working, Under, Ended
    <2>2. /\ SandboxOf(q) \in Dirs /\ IsWhole(SandboxOf(q))
          /\ Holds(dirs[SandboxOf(q)].log, rev[q], seen[q])
      BY <2>1 DEF Right
    <2>3. dirs'[SandboxOf(q)] = dirs[SandboxOf(q)]
      BY <1>11, <2>2
    <2>4. seen[q] \subseteq seen'[q]
      BY <1>6, <2>1
    <2>5. IsWhole(SandboxOf(q))'
      BY <1>2, <2>2, <2>3 DEF IsWhole
    <2> QED
      BY <2>2, <2>3, <2>4, <2>5 DEF Holds
  <1> QED
    BY <1>5, <1>7, <1>9, <1>12, <1>13

(* A step that puts something in place of a run's command branch: if it is a *)
(* whole one it is what the root branch holds.                               *)
LEMMA CommandStep ==
  ASSUME IInv, NEW r \in Runs, NEW l \in Labels, NEW what \in Directories,
         pc' = [pc EXCEPT ![r] = l], UNCHANGED <<cli, job, rev, upstream, seen>>,
         Put(CommandOf(r), what), Under(r),
         l \notin {"branching revision", "execute", "start"},
         what.state = "whole" => IsWhole(RootOf(r)) /\ what.log = dirs[RootOf(r)].log
  PROVE  IInv'
  <1> USE DEF IInv
  <1>1. \A q \in Runs : pc'[q] = IF q = r THEN l ELSE pc[q]
    BY DEF Typed
  <1>2. \A q \in Runs : /\ RootOf(q)' = RootOf(q) /\ CommandOf(q)' = CommandOf(q)
                        /\ SandboxOf(q)' = SandboxOf(q)
    BY DEF RootOf, CommandOf, SandboxOf
  <1>3. ASSUME NEW q \in Runs
        PROVE  /\ CommandOf(r) # RootOf(q) /\ CommandOf(r) # SandboxOf(q)
               /\ CommandOf(q) = CommandOf(r) => RootOf(q) = RootOf(r)
    <2>1. CommandOf(r) # RootOf(q) /\ CommandOf(r) # SandboxOf(q)
      BY DEF RootOf, CommandOf, SandboxOf, RootDir, CommandDir, RevisionDir
    <2>2. CommandOf(q) = CommandOf(r) => RootOf(q) = RootOf(r)
      BY DEF CommandOf, CommandDir, RootOf
    <2> QED
      BY <2>1, <2>2
  <1>4. \A d \in Dirs : dirs'[d] = IF d = CommandOf(r) THEN what ELSE dirs[d]
    BY DEF Typed, Put
  <1>5. Typed'
    BY DEF Typed, Put
  <1>6. \A q \in Runs : dirs'[RootOf(q)] = dirs[RootOf(q)]
    BY <1>3, <1>4, Located
  <1>7. \A q \in Runs : Under(q)' => Under(q)
    BY <1>1 DEF Under
  <1>8. RootSeen'
    BY <1>2, <1>6, <1>7 DEF RootSeen, IsWhole
  <1>9. \A q \in Runs : Made(q)' => Under(q)
    BY <1>1 DEF Made, Under, Ended
  <1>10. MadeSeen'
    <2> SUFFICES ASSUME NEW q \in Runs, Made(q)', IsWhole(CommandOf(q))'
                 PROVE  dirs'[CommandOf(q)] .log \in seen[q]
      BY <1>2 DEF MadeSeen
    <2>1. CASE CommandOf(q) = CommandOf(r)
      <3>1. dirs'[CommandOf(q)] = what
        BY <1>4, <2>1, Located
      <3>2. IsWhole(RootOf(r)) /\ what.log = dirs[RootOf(r)].log
        BY <1>2, <3>1 DEF IsWhole
      <3>3. RootOf(q) = RootOf(r)
        BY <1>3, <2>1
      <3>4. what.log \in seen[q]
        BY <1>9, <3>2, <3>3 DEF RootSeen
      <3> QED
        BY <3>1, <3>4
    <2>2. CASE CommandOf(q) # CommandOf(r)
      <3>1. dirs'[CommandOf(q)] = dirs[CommandOf(q)]
        BY <1>4, <2>2, Located
      <3>2. Made(q)
        BY <1>1, <2>2 DEF Made
      <3> QED
        BY <1>2, <3>1, <3>2 DEF MadeSeen, IsWhole
    <2> QED
      BY <2>1, <2>2
  <1>11. \A q \in Runs : SandboxOf(q) \in Dirs => dirs'[SandboxOf(q)] = dirs[SandboxOf(q)]
    BY <1>3, <1>4
  <1>12. \A q \in Runs : Making(q)' => Making(q)
    BY <1>1 DEF Making
  <1>13. OneMaker'
    BY <1>2, <1>11, <1>12 DEF OneMaker
  <1>14. Right'
    <2> SUFFICES ASSUME NEW q \in Runs, Working(q)'
                 PROVE  (/\ SandboxOf(q) \in Dirs /\ IsWhole(SandboxOf(q))
                         /\ Holds(dirs[SandboxOf(q)].log, rev[q], seen[q]))'
      BY DEF Right
    <2> SUFFICES /\ SandboxOf(q) \in Dirs /\ IsWhole(SandboxOf(q))'
                 /\ Holds(dirs'[SandboxOf(q)].log, rev[q], seen[q])
      BY <1>2
    <2>1. /\ SandboxOf(q) \in Dirs /\ IsWhole(SandboxOf(q))
          /\ Holds(dirs[SandboxOf(q)].log, rev[q], seen[q])
      BY <1>1 DEF Right, Working
    <2>2. dirs'[SandboxOf(q)] = dirs[SandboxOf(q)]
      BY <1>11, <2>1
    <2>3. IsWhole(SandboxOf(q))'
      BY <1>2, <2>1, <2>2 DEF IsWhole
    <2> QED
      BY <2>1, <2>2, <2>3
  <1> QED
    BY <1>5, <1>8, <1>10, <1>13, <1>14

(* A step that puts something in place of a run's sandbox: something partial *)
(* where nothing was, when its making begins; something else when it ends;   *)
(* or, where there is a whole one, what it pulls.  To work in it, it must be *)
(* the run's revision of its command branch.                                 *)
LEMMA RevisionStep ==
  ASSUME IInv, NEW r \in Runs, NEW l \in Labels, NEW what \in Directories,
         pc' = [pc EXCEPT ![r] = l], UNCHANGED <<cli, job, rev, upstream, seen>>,
         Put(SandboxOf(r), what), Made(r), ~Working(r), SandboxOf(r) \in Dirs,
         \/ l = "branching revision" /\ ~Exists(SandboxOf(r)) /\ what.state = "partial"
         \/ l = "quit" /\ Making(r)
         \/ /\ l = "execute" /\ (Making(r) \/ IsWhole(SandboxOf(r)))
            /\ Has(CommandOf(r), rev[r])
            /\ what = Whole(At(dirs[CommandOf(r)].log, rev[r]))
  PROVE  IInv'
  <1> USE DEF IInv
  <1>1. \A q \in Runs : pc'[q] = IF q = r THEN l ELSE pc[q]
    BY DEF Typed
  <1>2. \A q \in Runs : /\ RootOf(q)' = RootOf(q) /\ CommandOf(q)' = CommandOf(q)
                        /\ SandboxOf(q)' = SandboxOf(q)
    BY DEF RootOf, CommandOf, SandboxOf
  <1>3. ASSUME NEW q \in Runs
        PROVE  /\ SandboxOf(r) # RootOf(q) /\ SandboxOf(r) # CommandOf(q)
               /\ SandboxOf(q) = SandboxOf(r) => CommandOf(q) = CommandOf(r) /\ rev[q] = rev[r]
    <2>1. SandboxOf(r) # RootOf(q) /\ SandboxOf(r) # CommandOf(q)
      BY DEF RootOf, CommandOf, SandboxOf, RootDir, CommandDir, RevisionDir
    <2>2. SandboxOf(q) = SandboxOf(r) => CommandOf(q) = CommandOf(r) /\ rev[q] = rev[r]
      BY DEF CommandOf, CommandDir, SandboxOf, RevisionDir
    <2> QED
      BY <2>1, <2>2
  <1>4. \A d \in Dirs : dirs'[d] = IF d = SandboxOf(r) THEN what ELSE dirs[d]
    BY DEF Typed, Put
  <1>5. Typed'
    BY DEF Typed, Put
  <1>6. \A q \in Runs : dirs'[RootOf(q)] = dirs[RootOf(q)] /\ dirs'[CommandOf(q)] = dirs[CommandOf(q)]
    BY <1>3, <1>4, Located
  <1>7. \A q \in Runs : Under(q)' => Under(q)
    BY <1>1 DEF Under, Made, Ended
  <1>8. RootSeen'
    BY <1>2, <1>6, <1>7 DEF RootSeen, IsWhole
  <1>9. \A q \in Runs : Made(q)' => Made(q)
    BY <1>1 DEF Made
  <1>10. MadeSeen'
    BY <1>2, <1>6, <1>9 DEF MadeSeen, IsWhole
  <1>11. OneMaker'
    <2> SUFFICES ASSUME NEW q \in Runs, Making(q)'
                 PROVE  (/\ SandboxOf(q) \in Dirs /\ dirs[SandboxOf(q)].state = "partial"
                         /\ \A p \in Runs : Making(p) /\ SandboxOf(p) = SandboxOf(q) => p = q)'
      BY DEF OneMaker
    <2> SUFFICES /\ SandboxOf(q) \in Dirs /\ dirs'[SandboxOf(q)].state = "partial"
                 /\ \A p \in Runs : Making(p)' /\ SandboxOf(p) = SandboxOf(q) => p = q
      BY <1>2
    <2>1. \A p \in Runs : Making(p)' /\ ~(p = r /\ l = "branching revision") => Making(p)
      BY <1>1 DEF Making
    <2>2. \A p \in Runs : Making(p) => SandboxOf(p) \in Dirs /\ dirs[SandboxOf(p)].state = "partial"
      BY DEF OneMaker
    <2>3. CASE l = "branching revision"
      <3>1. \A p \in Runs : Making(p) => SandboxOf(p) # SandboxOf(r)
        BY <2>2, <2>3 DEF Exists
      <3>2. ~Making(r)
        BY <3>1
      <3>3. dirs'[SandboxOf(r)].state = "partial"
        BY <1>4, <2>3
      <3>4. q # r => Making(q) /\ dirs'[SandboxOf(q)].state = "partial" /\ SandboxOf(q) \in Dirs
        BY <1>4, <2>1, <2>2, <3>1
      <3> QED
        BY <2>1, <3>1, <3>3, <3>4 DEF OneMaker
    <2>4. CASE l # "branching revision"
      <3>1. \A p \in Runs : Making(p)' => Making(p) /\ p # r
        BY <1>1, <2>4 DEF Making
      <3>2. SandboxOf(q) # SandboxOf(r)
        BY <2>2, <2>4, <3>1 DEF OneMaker, IsWhole
      <3> QED
        BY <1>4, <2>2, <3>1, <3>2 DEF OneMaker
    <2> QED
      BY <2>3, <2>4
  <1>12. Right'
    <2> SUFFICES ASSUME NEW q \in Runs, Working(q)'
                 PROVE  (/\ SandboxOf(q) \in Dirs /\ IsWhole(SandboxOf(q))
                         /\ Holds(dirs[SandboxOf(q)].log, rev[q], seen[q]))'
      BY DEF Right
    <2> SUFFICES /\ SandboxOf(q) \in Dirs /\ IsWhole(SandboxOf(q))'
                 /\ Holds(dirs'[SandboxOf(q)].log, rev[q], seen[q])
      BY <1>2
    <2>1. ~(q = r /\ l = "execute") => Working(q)
      BY <1>1 DEF Working
    <2>2. CASE SandboxOf(q) # SandboxOf(r)
      <3>1. Working(q)
        BY <2>1, <2>2
      <3>2. /\ SandboxOf(q) \in Dirs /\ IsWhole(SandboxOf(q))
            /\ Holds(dirs[SandboxOf(q)].log, rev[q], seen[q])
        BY <3>1 DEF Right
      <3>3. dirs'[SandboxOf(q)] = dirs[SandboxOf(q)]
        BY <1>4, <2>2, <3>2
      <3> QED
        BY <1>2, <3>2, <3>3 DEF IsWhole
    <2>3. CASE SandboxOf(q) = SandboxOf(r)
      <3>1. Working(q) => IsWhole(SandboxOf(r))
        BY <2>3 DEF Right
      <3>2. Making(r) => ~IsWhole(SandboxOf(r))
        BY DEF OneMaker, IsWhole
      <3>3. l = "execute"
        BY <2>1, <3>1, <3>2 DEF Exists, IsWhole
      <3>4. Has(CommandOf(r), rev[r]) /\ what = Whole(At(dirs[CommandOf(r)].log, rev[r]))
        BY <3>3
      <3>5. Made(q)
        BY <1>1, <1>9 DEF Working, Made
      <3>6. CommandOf(q) = CommandOf(r) /\ rev[q] = rev[r]
        BY <1>3, <2>3
      <3>7. dirs[CommandOf(r)].log \in seen[q]
        BY <3>4, <3>5, <3>6 DEF MadeSeen, Has
      <3>8. dirs'[SandboxOf(q)] = what
        BY <1>4, <2>3
      <3>9. IsWhole(SandboxOf(q))'
        BY <1>2, <3>4, <3>8 DEF IsWhole, Whole
      <3>10. dirs'[SandboxOf(q)].log = At(dirs[CommandOf(r)].log, rev[q])
        BY <3>4, <3>6, <3>8 DEF Whole
      <3>11. rev[q] \in 1 .. Len(dirs[CommandOf(r)].log)
        BY <3>4, <3>6 DEF Has
      <3> QED
        BY <2>3, <3>7, <3>9, <3>10, <3>11 DEF Holds
    <2> QED
      BY <2>2, <2>3
  <1> QED
    BY <1>5, <1>8, <1>10, <1>11, <1>12
-----------------------------------------------------------------------------
LEMMA ConfigureIsRight == ASSUME IInv, NEW r \in Runs, Configure(r) PROVE IInv'
  <1> USE DEF IInv
  <1>1. CASE Quit(r)
    BY <1>1, Quiet DEF Quit, Goto, run, Labels, Ended
  <1>2. CASE ~Quit(r)
    <2>1. PICK b \in Lookup(cli[r].bzr.branch, BranchKeys, Merged(Files, cli[r].command)) :
            /\ job' = [job EXCEPT ![r] = Job(cli[r], b)]
            /\ seen' = [seen EXCEPT ![r] =
                 IF IsWhole(RootDir(b.dir)) THEN {dirs[RootDir(b.dir)].log} ELSE {}]
      BY <1>2 DEF Configure
    <2>2. pc[r] = "start" /\ pc' = [pc EXCEPT ![r] = "root"] /\ UNCHANGED <<cli, rev, dirs, upstream>>
      BY <1>2 DEF Configure, Goto
    <2>3. cli[r] \in Clis
      BY DEF Typed
    <2>4. Job(cli[r], b) \in Jobs
      BY <2>3, BranchIsKnown, JobIsTyped
    <2>5. Typed'
      BY <2>1, <2>2, <2>4 DEF Typed, Labels
    <2>6. \A q \in Runs \ {r} :
            pc'[q] = pc[q] /\ job'[q] = job[q] /\ seen'[q] = seen[q] /\ rev'[q] = rev[q]
      BY <2>1, <2>2 DEF Typed
    <2>7. pc'[r] = "root" /\ job'[r] = Job(cli[r], b)
      BY <2>1, <2>2 DEF Typed
    <2>8. \A q \in Runs \ {r} : /\ RootOf(q)' = RootOf(q) /\ CommandOf(q)' = CommandOf(q)
                                /\ SandboxOf(q)' = SandboxOf(q)
      BY <2>6 DEF RootOf, CommandOf, SandboxOf
    <2>9. \A d : IsWhole(d)' = IsWhole(d)
      BY <2>2 DEF IsWhole
    <2>10. RootSeen'
      <3> SUFFICES ASSUME NEW q \in Runs, Under(q)', IsWhole(RootOf(q))'
                   PROVE  dirs[RootOf(q)'] .log \in seen'[q]
        BY <2>2 DEF RootSeen
      <3>1. CASE q = r
        <4>1. RootOf(r)' = RootDir(b.dir)
          BY <2>7 DEF RootOf, Job
        <4>2. IsWhole(RootDir(b.dir))
          BY <2>2, <3>1, <4>1 DEF IsWhole
        <4>3. seen'[r] = {dirs[RootDir(b.dir)].log}
          BY <2>1, <4>2 DEF Typed
        <4> QED
          BY <3>1, <4>1, <4>3
      <3>2. CASE q # r
        BY <2>6, <2>8, <2>9, <3>2 DEF RootSeen, Under
      <3> QED
        BY <3>1, <3>2
    <2>11. \A q \in Runs : Made(q)' => q # r /\ Made(q)
      BY <2>6, <2>7 DEF Made
    <2>12. MadeSeen'
      BY <2>2, <2>6, <2>8, <2>9, <2>11 DEF MadeSeen
    <2>13. \A q \in Runs : Making(q)' => q # r /\ Making(q)
      BY <2>6, <2>7 DEF Making
    <2>14. OneMaker'
      BY <2>2, <2>8, <2>13 DEF OneMaker
    <2>15. \A q \in Runs : Working(q)' => q # r /\ Working(q)
      BY <2>6, <2>7 DEF Working
    <2>16. Right'
      BY <2>2, <2>6, <2>8, <2>9, <2>15 DEF Right
    <2> QED
      BY <2>5, <2>10, <2>12, <2>14, <2>16
  <1> QED
    BY <1>1, <1>2

(* The root branch: what is put there is partial, absent or upstream's.      *)
LEMMA RootIsRight ==
  ASSUME IInv, NEW r \in Runs, EnterRoot(r) \/ RootBranched(r) \/ PullRoot(r)
  PROVE  IInv'
  <1>1. Partial \in Directories /\ Absent \in Directories /\ Whole(upstream.log) \in Directories
    BY EmptyLog DEF Partial, Absent, Whole, Directories, IInv, Typed
  <1>2. Partial.state # "whole" /\ Absent.state # "whole"
    BY DEF Partial, Absent
  <1>3. {"pull root", "revno", "branching root", "quit"} \subseteq Labels
    BY DEF Labels, Ended
  <1>4. pc[r] \in {"root", "branching root", "pull root"}
    BY DEF EnterRoot, RootBranched, PullRoot
  <1>5. Under(r) /\ ~Made(r)
    BY <1>4 DEF Under, Made, Ended
  <1>6. CASE Quit(r) \/ Look(r, "revno") \/ Look(r, "pull root")
    <2>1. PICK l \in {"quit", "revno", "pull root"} :
            pc' = [pc EXCEPT ![r] = l] /\ UNCHANGED <<run, dirs, upstream, seen>>
      BY <1>6 DEF Quit, Look, Goto
    <2> QED
      BY <1>3, <1>5, <2>1, Quiet DEF run
  <1>7. CASE Put(RootOf(r), Partial) /\ Goto(r, "branching root") /\ UNCHANGED <<run, upstream, seen>>
    BY <1>1, <1>2, <1>3, <1>5, <1>7, RootStep DEF Goto, run
  <1>8. CASE Put(RootOf(r), Absent) /\ Goto(r, "quit") /\ UNCHANGED <<run, upstream, seen>>
    BY <1>1, <1>2, <1>3, <1>5, <1>8, RootStep DEF Goto, run
  <1>9. CASE /\ PutRoot(r, upstream.log) /\ UNCHANGED <<run, upstream>>
             /\ Goto(r, "revno") \/ Goto(r, "pull root")
    <2>1. PICK l \in {"revno", "pull root"} : pc' = [pc EXCEPT ![r] = l]
      BY <1>9 DEF Goto
    <2>2. See(job[r].branch.dir, Whole(upstream.log).log, r)
      BY <1>9 DEF PutRoot, Whole
    <2>3. Put(RootOf(r), Whole(upstream.log))
      BY <1>9 DEF PutRoot
    <2> QED
      BY <1>1, <1>3, <1>5, <1>9, <2>1, <2>2, <2>3, RootStep DEF run
  <1> QED
    BY <1>6, <1>7, <1>8, <1>9 DEF EnterRoot, RootBranched, PullRoot

(* The range of revisions.                                                   *)
LEMMA NextIsRight == ASSUME IInv, NEW r \in Runs, NextRevision(r) PROVE IInv'
  <1> USE DEF IInv
  <1>1. PICK l \in {"done", "execute", "sandbox"} :
          pc' = [pc EXCEPT ![r] = l] /\ (l = "execute" => job[r].useRoot)
    BY DEF NextRevision, Goto
  <1>2. UNCHANGED <<cli, job, dirs, upstream, seen>> /\ pc[r] = "next"
    BY DEF NextRevision
  <1>3. DOMAIN rev' = Runs /\ \A q \in Runs \ {r} : rev'[q] = rev[q]
    BY DEF NextRevision, Typed
  <1>4. \A q \in Runs : pc'[q] = IF q = r THEN l ELSE pc[q]
    BY <1>1 DEF Typed
  <1>5. Typed'
    BY <1>1, <1>2, <1>3 DEF Typed, Labels, Ended
  <1>6. \A q \in Runs : /\ RootOf(q)' = RootOf(q) /\ CommandOf(q)' = CommandOf(q)
                        /\ q # r => SandboxOf(q)' = SandboxOf(q)
    BY <1>2, <1>3 DEF RootOf, CommandOf, SandboxOf
  <1>7. \A d : IsWhole(d)' = IsWhole(d)
    BY <1>2 DEF IsWhole
  <1>8. \A q \in Runs : Under(q)' => Under(q)
    BY <1>2, <1>4 DEF Under, Ended
  <1>9. RootSeen'
    BY <1>2, <1>6, <1>7, <1>8 DEF RootSeen
  <1>10. \A q \in Runs : Made(q)' => Made(q)
    BY <1>1, <1>2, <1>4 DEF Made
  <1>11. MadeSeen'
    BY <1>2, <1>6, <1>7, <1>10 DEF MadeSeen
  <1>12. \A q \in Runs : Making(q)' => q # r /\ Making(q)
    BY <1>4 DEF Making
  <1>13. OneMaker'
    BY <1>2, <1>6, <1>12 DEF OneMaker
  <1>14. \A q \in Runs : Working(q)' => q # r /\ Working(q)
    BY <1>1, <1>2, <1>4 DEF Working
  <1>15. Right'
    BY <1>2, <1>3, <1>6, <1>7, <1>14 DEF Right
  <1> QED
    BY <1>5, <1>9, <1>11, <1>13, <1>15

(* The command branch: what is put there is partial, absent or the root's.   *)
LEMMA CommandIsRight ==
  ASSUME IInv, NEW r \in Runs, PullCommand(r) \/ BranchCommand(r) \/ CommandBranched(r)
  PROVE  IInv'
  <1>1. Partial \in Directories /\ Absent \in Directories
    BY EmptyLog DEF Partial, Absent, Directories
  <1>2. dirs[RootOf(r)] \in Directories
    BY Located DEF IInv, Typed
  <1>3. {"look revision", "branching command", "branch revision", "quit"} \subseteq Labels
    BY DEF Labels, Ended
  <1>4. pc[r] \in {"pull command", "branch command", "branching command"}
    BY DEF PullCommand, BranchCommand, CommandBranched
  <1>5. Under(r)
    BY <1>4 DEF Under, Ended
  <1>6. CASE Quit(r)
    BY <1>3, <1>5, <1>6, Quiet DEF Quit, Goto, run, Ended
  <1>7. CASE ~Quit(r)
    <2>1. PICK l \in {"look revision", "branching command", "branch revision", "quit"},
               what \in {Partial, Absent, dirs[RootOf(r)]} :
            /\ pc' = [pc EXCEPT ![r] = l] /\ Put(CommandOf(r), what)
            /\ UNCHANGED <<run, upstream, seen>>
      BY <1>7 DEF PullCommand, BranchCommand, CommandBranched, Branch, Branched, Goto
    <2>2. what \in Directories
      BY <1>1, <1>2, <2>1
    <2>3. ASSUME what.state = "whole"
          PROVE  IsWhole(RootOf(r)) /\ what.log = dirs[RootOf(r)].log
      <3>1. Partial.state # "whole" /\ Absent.state # "whole"
        BY DEF Partial, Absent
      <3>2. what = dirs[RootOf(r)]
        BY <2>1, <2>3, <3>1
      <3> QED
        BY <2>3, <3>2 DEF IsWhole
    <2> QED
      BY <1>3, <1>5, <2>1, <2>2, <2>3, CommandStep DEF run
  <1> QED
    BY <1>6, <1>7

(* The sandbox.                                                              *)
LEMMA RevisionIsRight ==
  ASSUME IInv, NEW r \in Runs, PullRevision(r) \/ BranchRevision(r) \/ RevisionBranched(r)
  PROVE  IInv'
  <1>1. Typed /\ CommandOf(r) \in Dirs
    BY Located DEF IInv
  <1>2. Partial \in Directories /\ Absent \in Directories
    BY EmptyLog DEF Partial, Absent, Directories
  <1>3. {"branching revision", "execute", "quit"} \subseteq Labels
    BY DEF Labels, Ended
  <1>4. pc[r] \in {"pull revision", "branch revision", "branching revision"}
    BY DEF PullRevision, BranchRevision, RevisionBranched
  <1>5. Under(r) /\ Made(r) /\ ~Working(r)
    BY <1>4 DEF Under, Made, Working, Ended
  <1>6. ASSUME Has(CommandOf(r), rev[r])
        PROVE  SandboxOf(r) \in Dirs /\ Whole(At(dirs[CommandOf(r)].log, rev[r])) \in Directories
    <2>1. rev[r] \in Revs /\ rev[r] \in 1 .. Len(dirs[CommandOf(r)].log) /\ dirs[CommandOf(r)].log \in Logs
      BY <1>1, <1>6, HasRevision
    <2>2. Len(dirs[CommandOf(r)].log) \in Nat
      BY <2>1 DEF Logs
    <2>3. At(dirs[CommandOf(r)].log, rev[r]) \in Logs
      BY <2>1, <2>2, Cut
    <2> QED
      BY <1>1, <2>1, <2>3, Located DEF Whole, Directories
  <1>7. CASE Quit(r)
    BY <1>3, <1>5, <1>7, Quiet DEF Quit, Goto, run, Ended
  <1>8. CASE PullRevision(r) /\ ~Quit(r)
    <2>1. /\ IsWhole(SandboxOf(r)) /\ Has(CommandOf(r), rev[r])
          /\ Put(SandboxOf(r), Whole(At(dirs[CommandOf(r)].log, rev[r])))
          /\ pc' = [pc EXCEPT ![r] = "execute"] /\ UNCHANGED <<run, upstream, seen>>
      BY <1>8 DEF PullRevision, Goto
    <2> QED
      BY <1>3, <1>5, <1>6, <2>1, RevisionStep DEF run
  <1>9. CASE BranchRevision(r) /\ ~Quit(r)
    <2>1. /\ ~Exists(SandboxOf(r)) /\ Has(CommandOf(r), rev[r]) /\ Put(SandboxOf(r), Partial)
          /\ pc' = [pc EXCEPT ![r] = "branching revision"] /\ UNCHANGED <<run, upstream, seen>>
      BY <1>9 DEF BranchRevision, Branch, Goto
    <2>2. Partial.state = "partial"
      BY DEF Partial
    <2> QED
      BY <1>2, <1>3, <1>5, <1>6, <2>1, <2>2, RevisionStep DEF run
  <1>10. CASE RevisionBranched(r)
    <2>1. Making(r) /\ SandboxOf(r) \in Dirs
      BY <1>10 DEF RevisionBranched, Making, IInv, OneMaker
    <2>2. CASE Put(SandboxOf(r), Absent) /\ Goto(r, "quit") /\ UNCHANGED <<run, upstream, seen>>
      BY <1>2, <1>3, <1>5, <2>1, <2>2, RevisionStep DEF Goto, run
    <2>3. CASE /\ Has(CommandOf(r), rev[r])
               /\ Put(SandboxOf(r), Whole(At(dirs[CommandOf(r)].log, rev[r])))
               /\ Goto(r, "execute") /\ UNCHANGED <<run, upstream, seen>>
      BY <1>3, <1>5, <1>6, <2>1, <2>3, RevisionStep DEF Goto, run
    <2> QED
      BY <1>10, <2>2, <2>3 DEF RevisionBranched, Branched
  <1> QED
    BY <1>7, <1>8, <1>9, <1>10

(* What only looks, counts or ends.                                          *)
LEMMA LookIsRight ==
  ASSUME IInv, NEW r \in Runs,
         \/ Revno(r) \/ TakeRange(r) \/ BadRange(r) \/ LookCommand(r) \/ LookRevision(r)
         \/ LookRoot(r) \/ Execute(r) \/ Kill(r)
  PROVE  IInv'
  <1> USE DEF Goto, Look, Quit, run
  <1>1. CASE Revno(r)
    <2>1. /\ pc' = [pc EXCEPT ![r] = "range"] /\ UNCHANGED <<cli, job, rev, dirs, upstream, seen>>
          /\ pc[r] = "revno"
      BY <1>1 DEF Revno
    <2> QED
      BY <2>1, Quiet DEF Labels, Under, Ended
  <1>2. CASE TakeRange(r)
    <2>1. /\ pc' = [pc EXCEPT ![r] = "next"] /\ UNCHANGED <<cli, job, rev, dirs, upstream, seen>>
          /\ pc[r] = "range"
      BY <1>2 DEF TakeRange
    <2> QED
      BY <2>1, Quiet DEF Labels, Under, Ended
  <1>3. CASE BadRange(r) \/ Execute(r)
    <2>1. PICK l \in {"quit", "next"} :
            /\ pc' = [pc EXCEPT ![r] = l] /\ UNCHANGED <<cli, job, rev, dirs, upstream, seen>>
            /\ pc[r] \in {"range", "execute"}
      BY <1>3 DEF BadRange, Execute
    <2> QED
      BY <2>1, Quiet DEF Labels, Under, Ended
  <1>4. CASE LookCommand(r) \/ LookRoot(r)
    <2>1. PICK l \in {"pull command", "look root", "branch command", "quit"} :
            /\ pc' = [pc EXCEPT ![r] = l] /\ UNCHANGED <<cli, job, rev, dirs, upstream, seen>>
            /\ pc[r] \in {"sandbox", "look root"}
      BY <1>4 DEF LookCommand, LookRoot
    <2> QED
      BY <2>1, Quiet DEF Labels, Under, Ended
  <1>5. CASE LookRevision(r)
    <2>1. PICK l \in {"pull revision", "branch revision"} :
            /\ pc' = [pc EXCEPT ![r] = l] /\ UNCHANGED <<cli, job, rev, dirs, upstream, seen>>
            /\ pc[r] = "look revision"
      BY <1>5 DEF LookRevision
    <2> QED
      BY <2>1, Quiet DEF Labels, Under, Made, Ended
  <1>6. CASE Kill(r)
    BY <1>6, Quiet DEF Kill, Labels, Under, Ended
  <1> QED
    BY <1>1, <1>2, <1>3, <1>4, <1>5, <1>6

LEMMA CommitIsRight == ASSUME IInv, Commit PROVE IInv'
  <1> USE DEF IInv
  <1>1. upstream.commits < MaxCommits /\ UNCHANGED <<cli, job, revno, left, rev, ran, pc, dirs, seen>>
    BY DEF Commit, run
  <1>2. PICK kept \in {Len(upstream.log), Len(upstream.log) - 1} :
          upstream' = [log |-> Append(At(upstream.log, kept), upstream.commits + 1),
                       commits |-> upstream.commits + 1]
    BY DEF Commit
  <1>3. /\ upstream.log \in Logs /\ Len(upstream.log) \in Nat /\ upstream.commits \in Nat
        /\ 1 <= Len(upstream.log) /\ Len(upstream.log) <= upstream.commits
    BY DEF Typed, Logs
  <1>4. kept \in 0 .. Len(upstream.log)
    BY <1>3
  <1>5. At(upstream.log, kept) \in Logs /\ Len(At(upstream.log, kept)) = kept
    BY <1>3, <1>4, Cut
  <1>6. At(upstream.log, kept) \in Seq(Nat)
    BY <1>5 DEF Logs
  <1>7. /\ upstream'.log \in Seq(Nat) /\ Len(upstream'.log) = kept + 1
        /\ upstream'.commits = upstream.commits + 1
    <2>1. /\ upstream'.log = Append(At(upstream.log, kept), upstream.commits + 1)
          /\ upstream'.commits = upstream.commits + 1
      BY <1>2
    <2>2. upstream.commits + 1 \in Nat
      BY <1>3
    <2>3. Len(Append(At(upstream.log, kept), upstream.commits + 1)) = Len(At(upstream.log, kept)) + 1
      BY <1>6, <2>2
    <2> QED
      BY <1>5, <1>6, <2>1, <2>2, <2>3
  <1>8. MaxCommits \in Nat /\ MaxCommits <= MaxRev /\ MaxRev \in Nat
    BY SandboxAssumption
  <1>9. /\ upstream'.log \in Logs /\ upstream'.commits \in Nat /\ 1 <= Len(upstream'.log)
        /\ Len(upstream'.log) <= upstream'.commits /\ upstream'.commits <= MaxRev
    <2>1. kept \in Nat /\ kept <= upstream.commits
      BY <1>3, <1>4
    <2>2. upstream.commits + 1 \in Nat /\ upstream.commits + 1 <= MaxRev
      BY <1>1, <1>3, <1>8
    <2>3. /\ 1 <= kept + 1 /\ kept + 1 <= upstream.commits + 1 /\ kept + 1 <= MaxRev
      BY <1>3, <1>8, <2>1, <2>2
    <2>4. upstream'.log \in Logs
      BY <1>7, <2>3 DEF Logs
    <2> QED
      BY <1>7, <2>2, <2>3, <2>4
  <1>10. Typed'
    BY <1>1, <1>9 DEF Typed
  <1>11. RootSeen' /\ MadeSeen' /\ OneMaker' /\ Right'
    BY <1>1 DEF RootSeen, MadeSeen, OneMaker, Right, Under, Made, Making, Working,
                RootOf, CommandOf, SandboxOf, IsWhole
  <1> QED
    BY <1>10, <1>11

LEMMA StepIsRight == IInv /\ [Next]_vars => IInv'
  <1> SUFFICES ASSUME IInv, [Next]_vars
               PROVE  IInv'
    OBVIOUS
  <1>1. CASE UNCHANGED vars
    BY <1>1 DEF vars, run, IInv, Typed, RootSeen, MadeSeen, OneMaker, Right, Under, Made, Making,
                Working, RootOf, CommandOf, SandboxOf, IsWhole
  <1>2. CASE Commit
    BY <1>2, CommitIsRight
  <1>3. ASSUME NEW r \in Runs, Configure(r) \/ NextRevision(r)
        PROVE  IInv'
    BY <1>3, ConfigureIsRight, NextIsRight
  <1>4. ASSUME NEW r \in Runs, EnterRoot(r) \/ RootBranched(r) \/ PullRoot(r)
        PROVE  IInv'
    BY <1>4, RootIsRight
  <1>5. ASSUME NEW r \in Runs, PullCommand(r) \/ BranchCommand(r) \/ CommandBranched(r)
        PROVE  IInv'
    BY <1>5, CommandIsRight
  <1>6. ASSUME NEW r \in Runs, PullRevision(r) \/ BranchRevision(r) \/ RevisionBranched(r)
        PROVE  IInv'
    BY <1>6, RevisionIsRight
  <1>7. ASSUME NEW r \in Runs,
               \/ Revno(r) \/ TakeRange(r) \/ BadRange(r) \/ LookCommand(r) \/ LookRevision(r)
               \/ LookRoot(r) \/ Execute(r) \/ Kill(r)
        PROVE  IInv'
    BY <1>7, LookIsRight
  <1>8. CASE \E r \in Runs : Move(r)
    <2>1. PICK r \in Runs : Move(r)
      BY <1>8
    <2> QED
      BY <2>1, <1>3, <1>4, <1>5, <1>6, <1>7 DEF Move
  <1> QED
    BY <1>1, <1>2, <1>8 DEF Next

(* A command is executed in a sandbox that holds exactly its revision, of a  *)
(* history that the root branch has had since the run pulled it, whatever    *)
(* other runs do there and wherever they are killed (Sandbox.create).        *)
THEOREM RevisionsAreRight == Spec => []RightRevision
  <1>1. IInv => RightRevision
    BY DEF IInv, Right, RightRevision, Working
  <1> QED
    BY <1>1, InitIsRight, StepIsRight, PTL DEF Spec

(* A sandbox is made by one run at a time, and until it is made it is no     *)
(* branch that another run could take for one (bzr branch, as Sandbox.create *)
(* uses it).                                                                 *)
THEOREM SandboxesHaveOneMaker == Spec => []OneMaker
  <1>1. IInv => OneMaker
    BY DEF IInv
  <1> QED
    BY <1>1, InitIsRight, StepIsRight, PTL DEF Spec
-----------------------------------------------------------------------------
(* The configuration files.                                                *)
LEMMA Greatest ==
  ASSUME NEW N \in Nat, NEW S \in SUBSET (1 .. N), S # {}
  PROVE  \E m \in S : \A n \in S : n <= m
  <1> DEFINE T == {N - n : n \in S}
  <1>1. T \in SUBSET Nat /\ T # {}
    <2>1. \A n \in S : N - n \in Nat
      OBVIOUS
    <2> QED
      BY <2>1
  <1>2. \E k \in T : \A l \in T : ~ (<<l, k>> \in OpToRel(<, Nat))
    BY <1>1, NatLessThanWellFounded, WFMin
  <1>3. \A k, l \in Nat : ~ (<<l, k>> \in OpToRel(<, Nat)) => k <= l
    BY DEF OpToRel
  <1>4. PICK m \in S : \A n \in S : N - m <= N - n
    BY <1>1, <1>2, <1>3
  <1>5. \A n \in S : n <= m
    BY <1>4
  <1> QED
    BY <1>5

(* The files are read from the least local to the most local.               *)
LEMMA RisingLocality ==
  ASSUME NEW c \in ValidCommands, NEW i \in 1 .. 5, NEW j \in 1 .. 5, j <= i
  PROVE  ~MoreLocal(Locations(c)[j], Locations(c)[i])
  <1>1. c # "automation"
    BY DEF ValidCommands, Benchmarks
  <1>2. i \in {1, 2, 3, 4, 5} /\ j \in {1, 2, 3, 4, 5}
    OBVIOUS
  <1> QED
    BY <1>1, <1>2 DEF MoreLocal, Locations, Locality

LEMMA AllAreRead ==
  ASSUME NEW c \in ValidCommands, NEW f \in Places, f[2] \in {c, "automation"}
  PROVE  \E i \in 1 .. 5 : Locations(c)[i] = f
  <1>1. CASE f[1] \in {"etc", "home"}
    BY <1>1 DEF Places, Locations
  <1>2. CASE f[1] = "cwd"
    BY <1>2 DEF Places, Locations, ValidCommands, Benchmarks
  <1> QED
    BY <1>1, <1>2 DEF Places

(* Which file a key of the configuration comes from: none is more local.    *)
LEMMA FromMostLocal ==
  ASSUME NEW c \in ValidCommands, NEW k \in DOMAIN Merged(Files, c)
  PROVE  \E f \in Naming(c, k) : /\ Merged(Files, c)[k] = Files[f][k]
                                 /\ \A g \in Naming(c, k) : ~MoreLocal(g, f)
  <1> DEFINE Here    == {i \in 1 .. 5 : Locations(c)[i] \in DOMAIN Files}
             File(i) == Files[Locations(c)[i]]
             Last(l) == CHOOSE i \in Here : /\ l \in DOMAIN File(i)
                                            /\ \A j \in Here : l \in DOMAIN File(j) => j <= i
             Having  == {i \in Here : k \in DOMAIN File(i)}
  <1>1. Merged(Files, c) = [l \in UNION {DOMAIN File(i) : i \in Here} |-> File(Last(l))[l]]
    BY DEF Merged
  <1>2. Having \in SUBSET (1 .. 5) /\ Having # {}
    BY <1>1
  <1>3. PICK m \in Having : \A n \in Having : n <= m
    BY <1>2, Greatest
  <1>4. Last(k) \in Having /\ \A j \in Having : j <= Last(k)
    BY <1>3
  <1>5. Merged(Files, c)[k] = File(Last(k))[k]
    BY <1>1
  <1> HIDE DEF Last
  <1> DEFINE f == Locations(c)[Last(k)]
  <1>6. f \in Naming(c, k)
    <2>1. \A i \in {1, 2, 3, 4, 5} : Locations(c)[i][2] \in {c, "automation"}
      BY DEF Locations
    <2>2. Last(k) \in {1, 2, 3, 4, 5}
      BY <1>4
    <2> QED
      BY <1>4, <2>1, <2>2 DEF Naming
  <1>7. ASSUME NEW g \in Naming(c, k)
        PROVE  ~MoreLocal(g, f)
    <2>1. PICK j \in 1 .. 5 : Locations(c)[j] = g
      BY AllAreRead, SandboxAssumption DEF Naming
    <2>2. j \in Having
      BY <2>1 DEF Naming
    <2> QED
      BY <1>4, <2>1, <2>2, RisingLocality
  <1> QED
    BY <1>5, <1>6, <1>7

(* What LocalOverrides says of one run.                                     *)
NamedLocally(r) ==
  cli[r].bzr.branch = None =>
    \E k \in BranchKeys : \E f \in Naming(cli[r].command, k) :
      /\ job[r].branch = Files[f][k]
      /\ \A g \in Naming(cli[r].command, k) : ~MoreLocal(g, f)

LEMMA ConfiguredLocally ==
  ASSUME Typed, NEW r \in Runs, Configure(r), ~Quit(r)
  PROVE  NamedLocally(r)'
  <1> DEFINE c   == cli[r].command
             cnf == Merged(Files, c)
  <1>1. PICK b \in Lookup(cli[r].bzr.branch, BranchKeys, cnf) : job' = [job EXCEPT ![r] = Job(cli[r], b)]
    BY DEF Configure
  <1>2. cli' = cli /\ job'[r].branch = b
    BY <1>1 DEF Configure, Quit, Typed, Job, run
  <1>3. c \in ValidCommands
    BY SandboxAssumption DEF Typed, CommandLines
  <1> SUFFICES ASSUME cli[r].bzr.branch = None
               PROVE  \E k \in BranchKeys : \E f \in Naming(c, k) :
                        b = Files[f][k] /\ \A g \in Naming(c, k) : ~MoreLocal(g, f)
    BY <1>2 DEF NamedLocally, Naming
  <1>4. PICK k \in BranchKeys \cap DOMAIN cnf : b = cnf[k]
    BY <1>1 DEF Lookup
  <1> QED
    BY <1>3, <1>4, FromMostLocal

LEMMA OnlyConfigured ==
  ASSUME Typed, NEW r \in Runs, Move(r), ~Configure(r)
  PROVE  UNCHANGED <<cli, job>> /\ pc[r] \notin {"start", "quit"}
  BY DEF Move, EnterRoot, RootBranched, PutRoot, PullRoot, Revno, TakeRange, BadRange, NextRevision,
    LookCommand, PullCommand, LookRevision, PullRevision, LookRoot, BranchCommand, CommandBranched,
    BranchRevision, RevisionBranched, Execute, Kill, Branch, Branched, Look, Quit, run, Ended

LEMMA OthersStay ==
  ASSUME Typed, NEW q \in Runs, Move(q), NEW r \in Runs, r # q
  PROVE  pc'[r] = pc[r]
  BY DEF Move, Configure, EnterRoot, RootBranched, PutRoot, PullRoot, Revno, TakeRange, BadRange,
    NextRevision, LookCommand, PullCommand, LookRevision, PullRevision, LookRoot, BranchCommand,
    CommandBranched, BranchRevision, RevisionBranched, Execute, Kill, Branch, Branched, Look, Quit,
    Goto, Typed

(* No file that names a branch in the same spelling is more local than the  *)
(* one a run has taken its branch from (process_config, processOptions),    *)
(* whatever files there are and whatever the command lines.                 *)
THEOREM LocalFilesOverride == Spec => []LocalOverrides
  <1> DEFINE L == \A r \in Runs : pc[r] \notin {"start", "quit"} => NamedLocally(r)
  <1>1. Init => L
    BY DEF Init
  <1>2. Typed /\ L /\ [Next]_vars => L'
    <2> SUFFICES ASSUME Typed, L, [Next]_vars, NEW r \in Runs, pc'[r] \notin {"start", "quit"}
                 PROVE  NamedLocally(r)'
      OBVIOUS
    <2>1. ASSUME cli' = cli, job'[r] = job[r], pc[r] \notin {"start", "quit"}
          PROVE  NamedLocally(r)'
      <3>1. NamedLocally(r)
        BY <2>1
      <3> QED
        BY <2>1, <3>1 DEF NamedLocally
    <2>2. CASE UNCHANGED vars \/ Commit
      BY <2>1, <2>2 DEF vars, run, Commit
    <2>3. ASSUME NEW q \in Runs, Move(q), ~Configure(q)
          PROVE  NamedLocally(r)'
      <3>1. UNCHANGED <<cli, job>> /\ pc[q] \notin {"start", "quit"}
        BY <2>3, OnlyConfigured
      <3>2. q = r \/ pc'[r] = pc[r]
        BY <2>3, OthersStay
      <3> QED
        BY <2>1, <3>1, <3>2
    <2>4. ASSUME NEW q \in Runs, Configure(q)
          PROVE  NamedLocally(r)'
      <3>1. CASE Quit(q)
        <4>1. pc'[q] = "quit" /\ cli' = cli /\ job' = job /\ \A p \in Runs \ {q} : pc'[p] = pc[p]
          BY <3>1 DEF Quit, Goto, run, Typed
        <4> QED
          BY <2>1, <4>1
      <3>2. CASE ~Quit(q) /\ q = r
        BY <2>4, <3>2, ConfiguredLocally
      <3>3. CASE ~Quit(q) /\ q # r
        <4>1. cli' = cli /\ job'[r] = job[r] /\ pc'[r] = pc[r]
          BY <2>4, <3>3 DEF Configure, Goto, Typed
        <4> QED
          BY <2>1, <4>1
      <3> QED
        BY <3>1, <3>2, <3>3
    <2> QED
      BY <2>2, <2>3, <2>4 DEF Next
  <1>3. L => LocalOverrides
    BY DEF LocalOverrides, NamedLocally
  <1>4. IInv => Typed
    BY DEF IInv
  <1> QED
    BY <1>1, <1>2, <1>3, <1>4, InitIsRight, StepIsRight, PTL DEF Spec
-----------------------------------------------------------------------------
(***************************************************************************)
(* RangeCovered for any range, any step and any number of runs.  The       *)
(* invariant says where in its range a run is: what it has executed, what  *)
(* it is at, and what is to come make up the whole.                        *)
(***************************************************************************)

Steps(r) == RevisionRange(Number(r, job[r].from), Number(r, job[r].to), job[r].step)

\* done and left, or done, now and left, make up the whole.
Between(done, todo, whole) ==
  /\ done \in Seq(Int) /\ todo \in Seq(Int) /\ whole \in Seq(Int)
  /\ Len(done) + Len(todo) = Len(whole)
  /\ \A i \in 1 .. Len(done) : done[i] = whole[i]
  /\ \A i \in 1 .. Len(todo) : todo[i] = whole[Len(done) + i]
Within(done, now, todo, whole) ==
  /\ done \in Seq(Int) /\ todo \in Seq(Int) /\ whole \in Seq(Int)
  /\ Len(done) + 1 + Len(todo) = Len(whole)
  /\ \A i \in 1 .. Len(done) : done[i] = whole[i]
  /\ now = whole[Len(done) + 1]
  /\ \A i \in 1 .. Len(todo) : todo[i] = whole[Len(done) + 1 + i]

\* The runs that go through their range, and those that are at no revision.
Begun(r)  == pc[r] \in {"next", "sandbox", "pull command", "look revision", "pull revision",
  "look root", "branch command", "branching command", "branch revision", "branching revision",
  "execute", "done"}
AtNone(r) == pc[r] \in {"next", "done"}
Position(r) ==
  /\ AtNone(r) => Between(ran[r], left[r], Steps(r))
  /\ ~AtNone(r) => Within(ran[r], rev[r], left[r], Steps(r))
  /\ pc[r] = "done" => left[r] = <<>>

Early        == {"start", "root", "branching root", "pull root", "revno", "range"}
InRange(r)   == NoRev \notin {Number(r, job[r].from), Number(r, job[r].to)}
PlacedRun(r) ==
  /\ pc[r] \in Early => ran[r] = <<>>
  /\ Begun(r) /\ ~job[r].single => InRange(r) /\ Position(r)
Placed ==
  /\ revno \in [Runs -> Nat] /\ DOMAIN left = Runs /\ DOMAIN ran = Runs
  /\ \A r \in Runs : PlacedRun(r)
-----------------------------------------------------------------------------
(* Dividing.                                                                *)
LEMMA Division ==
  ASSUME NEW a \in Nat, NEW s \in Nat \ {0}
  PROVE  a = s * (a \div s) + (a % s) /\ a \div s \in Nat /\ a % s \in 0 .. s - 1
  <1>1. \A x \in Int, y \in Int : y > 0 => x = y * (x \div y) + (x % y)
    BY Z3
  <1>2. a \div s \in Nat /\ a % s \in 0 .. s - 1
    OBVIOUS
  <1> QED
    BY <1>1, <1>2

LEMMA Multiples ==
  ASSUME NEW a \in Nat, NEW s \in Nat \ {0}
  PROVE  a * s \in Nat /\ (a * s) % s = 0 /\ s * a = a * s
  OBVIOUS

LEMMA MultiplesRise ==
  ASSUME NEW a \in Nat, NEW b \in Nat, NEW s \in Nat \ {0}, a < b
  PROVE  a * s + s <= b * s
  OBVIOUS

Covers(R, from, to, step) ==
  /\ {R[i] : i \in DOMAIN R} = {n \in from .. to : (n - from) % step = 0}
  /\ \A i, j \in DOMAIN R : i < j => R[i] < R[j]

(* A range holds every step-th number from its beginning to its end, both   *)
(* included, in rising order: what range(a, b + 1, step) returns            *)
(* (get_revision_range).                                                    *)
THEOREM RangeIsWhole ==
  ASSUME NEW from \in Nat, NEW to \in Nat, NEW step \in Nat \ {0}
  PROVE  /\ RevisionRange(from, to, step) \in Seq(Int)
         /\ Covers(RevisionRange(from, to, step), from, to, step)
  <1> DEFINE R == RevisionRange(from, to, step)
             q == (to - from) \div step
             N == IF from > to THEN 0 ELSE q + 1
  <1>1. N \in Nat
    BY Division
  <1>2. R = [i \in 1 .. N |-> from + (i - 1) * step]
    BY DEF RevisionRange
  <1>3. ASSUME NEW i \in 1 .. N
        PROVE  (i - 1) * step \in Nat
    BY <1>1, <1>3, Multiples
  <1>4. R \in Seq(Int) /\ DOMAIN R = 1 .. N
    <2>1. \A i \in 1 .. N : from + (i - 1) * step \in Int
      BY <1>3
    <2> HIDE DEF N
    <2> QED
      BY <1>1, <1>2, <2>1
  <1>5. ASSUME NEW i \in 1 .. N, NEW j \in 1 .. N, i < j
        PROVE  R[i] < R[j]
    <2>1. i - 1 \in Nat /\ j - 1 \in Nat /\ i - 1 < j - 1
      BY <1>1, <1>5
    <2>2. (i - 1) * step + step <= (j - 1) * step
      BY <2>1, MultiplesRise
    <2>3. (i - 1) * step \in Nat /\ (j - 1) * step \in Nat
      BY <1>3
    <2>4. R[i] = from + (i - 1) * step /\ R[j] = from + (j - 1) * step
      BY <1>2
    <2> HIDE DEF R, N
    <2> QED
      BY <2>2, <2>3, <2>4
  <1>6. ASSUME NEW i \in 1 .. N
        PROVE  R[i] \in from .. to /\ (R[i] - from) % step = 0
    <2>1. from <= to /\ N = q + 1
      BY <1>1, <1>6
    <2>2. to - from \in Nat
      BY <2>1
    <2>3. to - from = step * q + ((to - from) % step) /\ q \in Nat /\ (to - from) % step \in 0 .. step - 1
      BY <2>2, Division
    <2>4. i - 1 \in Nat /\ i - 1 <= q
      BY <2>1, <2>3, <1>6
    <2>5. /\ (i - 1) * step \in Nat /\ ((i - 1) * step) % step = 0
          /\ q * step \in Nat /\ step * q = q * step
      BY <2>3, <2>4, Multiples
    <2>6. (i - 1) * step <= q * step
      <3>1. CASE i - 1 = q
        BY <3>1, <2>5
      <3>2. CASE i - 1 # q
        <4>1. i - 1 < q
          BY <3>2, <2>3, <2>4
        <4> HIDE DEF q
        <4>2. (i - 1) * step + step <= q * step
          BY <4>1, <2>3, <2>4, MultiplesRise
        <4> QED
          BY <4>2, <2>5
      <3> QED
        BY <3>1, <3>2
    <2>7. R[i] = from + (i - 1) * step
      BY <1>2
    <2>8. R[i] - from = (i - 1) * step
      BY <2>5, <2>7
    <2>9. (i - 1) * step <= to - from
      <3> HIDE DEF q
      <3> QED
        BY <2>2, <2>3, <2>5, <2>6
    <2> QED
      BY <2>1, <2>5, <2>7, <2>8, <2>9
  <1>7. ASSUME NEW n \in from .. to, (n - from) % step = 0
        PROVE  \E i \in 1 .. N : n = R[i]
    <2> DEFINE a == (n - from) \div step
    <2>1. n - from \in Nat /\ to - from \in Nat /\ N = q + 1 /\ n - from <= to - from
      BY <1>7
    <2>2. n - from = step * a + ((n - from) % step) /\ a \in Nat
      BY <2>1, Division
    <2>3. to - from = step * q + ((to - from) % step) /\ q \in Nat /\ (to - from) % step \in 0 .. step - 1
      BY <2>1, Division
    <2>4. a * step \in Nat /\ step * a = a * step /\ q * step \in Nat /\ step * q = q * step
      BY <2>2, <2>3, Multiples
    <2>5. n - from = a * step
      <3> HIDE DEF a
      <3> QED
        BY <1>7, <2>2, <2>4
    <2>6. a <= q
      <3> SUFFICES ASSUME q < a
                   PROVE  FALSE
        BY <2>2, <2>3
      <3> HIDE DEF a, q
      <3>1. q * step + step <= a * step
        BY <2>2, <2>3, MultiplesRise
      <3> QED
        BY <2>1, <2>3, <2>4, <2>5, <3>1
    <2>7. a + 1 \in 1 .. N /\ (a + 1) - 1 = a
      <3> HIDE DEF a, q, N
      <3> QED
        BY <2>1, <2>2, <2>3, <2>6
    <2>8. R[a + 1] = from + a * step
      BY <1>2, <2>7
    <2>9. n = from + a * step
      <3> HIDE DEF a
      <3> QED
        BY <2>4, <2>5
    <2> HIDE DEF R, N, a
    <2>10. n = R[a + 1]
      BY <2>8, <2>9
    <2> QED
      BY <2>7, <2>10
  <1> HIDE DEF R, N
  <1>8. {R[i] : i \in DOMAIN R} = {n \in from .. to : (n - from) % step = 0}
    <2> DEFINE On(n) == (n - from) % step = 0
    <2>1. \A i \in DOMAIN R : R[i] \in from .. to /\ On(R[i])
      BY <1>4, <1>6
    <2>2. \A n \in from .. to : On(n) => \E i \in DOMAIN R : n = R[i]
      BY <1>4, <1>7
    <2> HIDE DEF On
    <2>3. {R[i] : i \in DOMAIN R} = {n \in from .. to : On(n)}
      BY <2>1, <2>2
    <2> QED
      BY <2>3 DEF On
  <1>9. Covers(R, from, to, step)
    BY <1>4, <1>5, <1>8 DEF Covers
  <1> QED
    BY <1>4, <1>9 DEF R

(* Taking the next revision, and having executed the current one.           *)
LEMMA TakeNext ==
  ASSUME NEW done, NEW todo, NEW whole, Between(done, todo, whole), todo # <<>>
  PROVE  Within(done, todo[1], Tail(todo), whole)
  <1> USE DEF Between
  <1>1. /\ Tail(todo) \in Seq(Int) /\ Len(Tail(todo)) = Len(todo) - 1
        /\ Len(todo) \in Nat \ {0} /\ Len(done) \in Nat
        /\ \A i \in 1 .. Len(todo) - 1 : Tail(todo)[i] = todo[i + 1]
    OBVIOUS
  <1>2. todo[1] = whole[Len(done) + 1]
    BY <1>1
  <1>3. ASSUME NEW i \in 1 .. Len(Tail(todo))
        PROVE  Tail(todo)[i] = whole[Len(done) + 1 + i]
    <2>1. i + 1 \in 1 .. Len(todo) /\ Tail(todo)[i] = todo[i + 1]
      BY <1>1
    <2>2. Len(done) + (i + 1) = Len(done) + 1 + i
      BY <1>1
    <2> QED
      BY <2>1, <2>2
  <1>4. Len(done) + 1 + Len(Tail(todo)) = Len(whole)
    BY <1>1
  <1> QED
    BY <1>1, <1>2, <1>3, <1>4 DEF Within

LEMMA HaveDone ==
  ASSUME NEW done, NEW now, NEW todo, NEW whole, Within(done, now, todo, whole)
  PROVE  Between(Append(done, now), todo, whole)
  <1> USE DEF Within
  <1>1. Len(done) \in Nat /\ Len(todo) \in Nat /\ Len(whole) \in Nat
    OBVIOUS
  <1>2. now \in Int
    BY <1>1
  <1>3. /\ Append(done, now) \in Seq(Int) /\ Len(Append(done, now)) = Len(done) + 1
        /\ \A i \in 1 .. Len(done) : Append(done, now)[i] = done[i]
        /\ Append(done, now)[Len(done) + 1] = now
    BY <1>2
  <1>4. Len(Append(done, now)) + Len(todo) = Len(whole)
    BY <1>1, <1>3
  <1>5. ASSUME NEW i \in 1 .. Len(Append(done, now))
        PROVE  Append(done, now)[i] = whole[i]
    <2>1. CASE i = Len(done) + 1
      <3>1. Append(done, now)[i] = now /\ whole[i] = whole[Len(done) + 1]
        BY <1>3, <2>1
      <3>2. now = whole[Len(done) + 1]
        OBVIOUS
      <3> QED
        BY <3>1, <3>2
    <2>2. CASE i # Len(done) + 1
      <3>1. i \in 1 .. Len(done) + 1
        BY <1>3
      <3> HIDE DEF Within
      <3>2. i \in 1 .. Len(done)
        BY <1>1, <2>2, <3>1
      <3>3. Append(done, now)[i] = done[i] /\ done[i] = whole[i]
        BY <1>3, <3>2 DEF Within
      <3> QED
        BY <3>3
    <2> QED
      BY <2>1, <2>2
  <1>6. \A i \in 1 .. Len(todo) : todo[i] = whole[Len(Append(done, now)) + i]
    BY <1>1, <1>3
  <1> QED
    BY <1>3, <1>4, <1>5, <1>6 DEF Between
-----------------------------------------------------------------------------
(* A step of one run leaves the others where they are.                      *)
Same(q) == /\ pc'[q] = pc[q] /\ job'[q] = job[q] /\ revno'[q] = revno[q]
           /\ left'[q] = left[q] /\ ran'[q] = ran[q] /\ rev'[q] = rev[q]

LEMMA StepsSame ==
  ASSUME NEW r \in Runs, job'[r] = job[r], revno'[r] = revno[r]
  PROVE  Steps(r)' = Steps(r) /\ (InRange(r)' <=> InRange(r))
  <1>1. \A n : Number(r, n)' = Number(r, n)
    BY DEF Number
  <1> QED
    BY <1>1 DEF Steps, InRange

LEMMA Frame ==
  ASSUME Placed, NEW r \in Runs, revno' \in [Runs -> Nat], DOMAIN left' = Runs, DOMAIN ran' = Runs,
         \A q \in Runs \ {r} : Same(q),
         PlacedRun(r)'
  PROVE  Placed'
  <1>1. ASSUME NEW q \in Runs \ {r}
        PROVE  PlacedRun(q)'
    <2>1. Same(q) /\ PlacedRun(q)
      BY DEF Placed
    <2>2. Steps(q)' = Steps(q) /\ (InRange(q)' <=> InRange(q))
      BY <2>1, StepsSame DEF Same
    <2>3. (Begun(q)' <=> Begun(q)) /\ (AtNone(q)' <=> AtNone(q))
      BY <2>1 DEF Same, Begun, AtNone
    <2>4. Position(q) => Position(q)'
      BY <2>1, <2>2, <2>3 DEF Same, Position
    <2> QED
      BY <2>1, <2>2, <2>3, <2>4 DEF Same, PlacedRun
  <1> QED
    BY <1>1 DEF Placed

(* A step that moves a run's pc only.                                       *)
LEMMA MoveOnly ==
  ASSUME Typed, Placed, NEW r \in Runs, NEW l \in Labels,
         pc' = [pc EXCEPT ![r] = l], UNCHANGED <<job, revno, left, rev, ran>>,
         \/ l \in {"quit", "killed"}
         \/ l \in Early /\ pc[r] \in Early
         \/ Begun(r) /\ ~AtNone(r) /\ l \notin {"next", "done"} \cup Early
  PROVE  Placed'
  <1>1. \A q \in Runs \ {r} : Same(q)
    BY DEF Same, Typed
  <1>2. pc'[r] = l
    BY DEF Typed
  <1>3. Steps(r)' = Steps(r) /\ (InRange(r)' <=> InRange(r))
    BY StepsSame
  <1>4. PlacedRun(r)
    BY DEF Placed
  <1>5. PlacedRun(r)'
    <2>1. CASE l \in {"quit", "killed"}
      BY <1>2, <2>1 DEF PlacedRun, Begun, Early
    <2>2. CASE l \in Early /\ pc[r] \in Early
      BY <1>2, <1>4, <2>2 DEF PlacedRun, Begun, Early
    <2>3. CASE Begun(r) /\ ~AtNone(r) /\ l \notin {"next", "done"} \cup Early
      <3>1. ~AtNone(r)' /\ l \notin Early /\ l # "done" /\ pc[r] # "done"
        BY <1>2, <2>3 DEF AtNone
      <3>2. Position(r) => Position(r)'
        BY <1>2, <1>3, <2>3, <3>1 DEF Position
      <3> QED
        BY <1>2, <1>3, <1>4, <2>3, <3>1, <3>2 DEF PlacedRun
    <2> QED
      BY <2>1, <2>2, <2>3
  <1> QED
    BY <1>1, <1>5, Frame DEF Placed

LEMMA InitIsPlaced == Init => Placed
  BY DEF Init, Placed, PlacedRun, Early, Begun, NoRev

LEMMA TakeRangeIsPlaced == ASSUME Typed, Placed, NEW r \in Runs, TakeRange(r) PROVE Placed'
  <1> DEFINE from == Number(r, job[r].from)
             to   == Number(r, job[r].to)
  <1>1. pc[r] = "range" /\ pc' = [pc EXCEPT ![r] = "next"] /\ UNCHANGED <<job, revno, rev, ran>>
    BY DEF TakeRange, Goto
  <1>2. DOMAIN left' = Runs /\ \A q \in Runs \ {r} : left'[q] = left[q]
    BY DEF TakeRange, Placed
  <1>3. \A q \in Runs \ {r} : Same(q)
    BY <1>1, <1>2 DEF Same, Typed
  <1>4. ran'[r] = <<>> /\ pc'[r] = "next"
    BY <1>1 DEF Placed, PlacedRun, Early, Typed
  <1>5. Steps(r)' = Steps(r) /\ (InRange(r)' <=> InRange(r))
    BY <1>1, StepsSame
  <1>6. ASSUME ~job[r].single
        PROVE  InRange(r) /\ Position(r)'
    <2>1. NoRev \notin {from, to} /\ left' = [left EXCEPT ![r] = RevisionRange(from, to, job[r].step)]
      BY <1>6 DEF TakeRange
    <2>2. InRange(r) /\ left'[r] = Steps(r)
      BY <2>1 DEF InRange, Steps, Placed
    <2>3. from \in Nat /\ to \in Nat /\ job[r].step \in Nat \ {0}
      <3>1. job[r] \in Jobs /\ revno[r] \in Nat /\ MaxRev \in Nat
        BY SandboxAssumption DEF Typed, Placed
      <3>2. job[r].from \in Numbers /\ job[r].to \in Numbers /\ job[r].step \in Nat \ {0}
        BY <3>1 DEF Jobs
      <3> QED
        BY <3>1, <3>2 DEF Numbers, Number, Revs, LastOne, HeadWord, NoRev
    <2>4. Steps(r) \in Seq(Int)
      BY <2>3, RangeIsWhole DEF Steps
    <2>5. AtNone(r)' /\ pc'[r] # "done"
      BY <1>4 DEF AtNone
    <2>6. Between(<<>>, Steps(r), Steps(r))
      BY <2>4 DEF Between
    <2> HIDE DEF from, to
    <2> QED
      BY <1>4, <1>5, <2>2, <2>5, <2>6 DEF Position
  <1>7. PlacedRun(r)'
    BY <1>1, <1>4, <1>5, <1>6 DEF PlacedRun
  <1> QED
    BY <1>1, <1>2, <1>3, <1>7, Frame DEF Placed

LEMMA NextIsPlaced == ASSUME Typed, Placed, NEW r \in Runs, NextRevision(r) PROVE Placed'
  <1>1. pc[r] = "next" /\ UNCHANGED <<job, revno, ran>>
    BY DEF NextRevision
  <1>2. /\ DOMAIN left' = Runs /\ DOMAIN pc' = Runs
        /\ \A q \in Runs \ {r} : left'[q] = left[q] /\ rev'[q] = rev[q] /\ pc'[q] = pc[q]
    BY DEF NextRevision, Placed, Typed, Goto
  <1>3. \A q \in Runs \ {r} : Same(q)
    BY <1>1, <1>2 DEF Same
  <1>4. Steps(r)' = Steps(r) /\ (InRange(r)' <=> InRange(r))
    BY <1>1, StepsSame
  <1>5. pc'[r] \in {"done", "execute", "sandbox"}
    BY DEF NextRevision, Goto, Typed
  <1>6. ASSUME ~job[r].single
        PROVE  InRange(r) /\ Position(r)'
    <2>1. InRange(r) /\ Between(ran[r], left[r], Steps(r))
      BY <1>1, <1>6 DEF Placed, PlacedRun, Begun, AtNone, Position
    <2>2. CASE left[r] = <<>>
      <3>1. pc'[r] = "done" /\ left'[r] = left[r]
        BY <2>2 DEF NextRevision, Goto, Typed
      <3>2. AtNone(r)'
        BY <3>1 DEF AtNone
      <3> QED
        BY <1>1, <1>4, <2>1, <2>2, <3>1, <3>2 DEF Position
    <2>3. CASE left[r] # <<>>
      <3>1. rev'[r] = left[r][1] /\ left'[r] = Tail(left[r]) /\ pc'[r] \in {"execute", "sandbox"}
        BY <2>3 DEF NextRevision, Goto, Typed, Placed
      <3>2. ~AtNone(r)' /\ pc'[r] # "done"
        BY <3>1 DEF AtNone
      <3>3. Within(ran[r], left[r][1], Tail(left[r]), Steps(r))
        BY <2>1, <2>3, TakeNext
      <3> QED
        BY <1>1, <1>4, <2>1, <3>1, <3>2, <3>3 DEF Position
    <2> QED
      BY <2>2, <2>3
  <1>7. PlacedRun(r)'
    BY <1>1, <1>4, <1>5, <1>6 DEF PlacedRun, Early
  <1> QED
    BY <1>1, <1>2, <1>3, <1>7, Frame DEF Placed

LEMMA ExecuteIsPlaced ==
  ASSUME Typed, Placed, NEW r \in Runs, Execute(r), ~Quit(r)
  PROVE  Placed'
  <1>1. /\ pc[r] = "execute" /\ pc' = [pc EXCEPT ![r] = "next"]
        /\ ran' = [ran EXCEPT ![r] = Append(@, rev[r])] /\ UNCHANGED <<job, revno, left, rev>>
    BY DEF Execute, Goto
  <1>2. /\ DOMAIN ran' = Runs /\ ran'[r] = Append(ran[r], rev[r]) /\ pc'[r] = "next"
        /\ \A q \in Runs \ {r} : Same(q)
    BY <1>1 DEF Placed, Typed, Same
  <1>3. Steps(r)' = Steps(r) /\ (InRange(r)' <=> InRange(r))
    BY <1>1, StepsSame
  <1>4. ASSUME ~job[r].single
        PROVE  InRange(r) /\ Position(r)'
    <2>1. InRange(r) /\ Within(ran[r], rev[r], left[r], Steps(r))
      BY <1>1, <1>4 DEF Placed, PlacedRun, Begun, AtNone, Position
    <2>2. AtNone(r)' /\ pc'[r] # "done"
      BY <1>2 DEF AtNone
    <2>3. Between(Append(ran[r], rev[r]), left[r], Steps(r))
      BY <2>1, HaveDone
    <2> QED
      BY <1>1, <1>2, <1>3, <2>1, <2>2, <2>3 DEF Position
  <1>5. PlacedRun(r)'
    BY <1>1, <1>2, <1>3, <1>4 DEF PlacedRun, Early
  <1> QED
    BY <1>1, <1>2, <1>5, Frame DEF Placed

(* The other steps of a run move its pc only, within the same part of it.   *)
LEMMA OthersArePlaced ==
  ASSUME Typed, Placed, NEW r \in Runs,
         \/ EnterRoot(r) \/ RootBranched(r) \/ PullRoot(r) \/ BadRange(r)
         \/ LookCommand(r) \/ PullCommand(r) \/ LookRevision(r) \/ PullRevision(r)
         \/ LookRoot(r) \/ BranchCommand(r) \/ CommandBranched(r)
         \/ BranchRevision(r) \/ RevisionBranched(r) \/ Quit(r) \/ Kill(r)
  PROVE  Placed'
  <1> USE DEF Quit, Look, Goto, run
  <1>1. CASE Quit(r) \/ Kill(r) \/ BadRange(r)
    <2>1. PICK l \in {"quit", "killed"} :
            pc' = [pc EXCEPT ![r] = l] /\ UNCHANGED <<job, revno, left, rev, ran>>
      BY <1>1 DEF Kill, BadRange
    <2> QED
      BY <2>1, MoveOnly DEF Labels, Ended
  <1>2. CASE EnterRoot(r) \/ RootBranched(r) \/ PullRoot(r)
    <2>1. PICK l \in {"quit", "revno", "branching root", "pull root"} :
            pc' = [pc EXCEPT ![r] = l] /\ UNCHANGED <<job, revno, left, rev, ran>>
      BY <1>2 DEF EnterRoot, RootBranched, PullRoot
    <2>2. pc[r] \in Early
      BY <1>2 DEF EnterRoot, RootBranched, PullRoot, Early
    <2> QED
      BY <2>1, <2>2, MoveOnly DEF Labels, Ended, Early
  <1>3. CASE LookCommand(r) \/ PullCommand(r) \/ LookRoot(r) \/ BranchCommand(r) \/ CommandBranched(r)
    <2>1. PICK l \in {"quit", "pull command", "look root", "look revision", "branch command",
                      "branching command", "branch revision"} :
            pc' = [pc EXCEPT ![r] = l] /\ UNCHANGED <<job, revno, left, rev, ran>>
      BY <1>3 DEF LookCommand, PullCommand, LookRoot, BranchCommand, CommandBranched, Branch, Branched
    <2>2. Begun(r) /\ ~AtNone(r)
      BY <1>3 DEF LookCommand, PullCommand, LookRoot, BranchCommand, CommandBranched, Begun, AtNone
    <2> QED
      BY <2>1, <2>2, MoveOnly DEF Labels, Ended, Early
  <1>4. CASE LookRevision(r) \/ PullRevision(r) \/ BranchRevision(r) \/ RevisionBranched(r)
    <2>1. PICK l \in {"quit", "pull revision", "branch revision", "branching revision", "execute"} :
            pc' = [pc EXCEPT ![r] = l] /\ UNCHANGED <<job, revno, left, rev, ran>>
      BY <1>4 DEF LookRevision, PullRevision, BranchRevision, RevisionBranched, Branch, Branched
    <2>2. Begun(r) /\ ~AtNone(r)
      BY <1>4 DEF LookRevision, PullRevision, BranchRevision, RevisionBranched, Begun, AtNone
    <2> QED
      BY <2>1, <2>2, MoveOnly DEF Labels, Ended, Early
  <1> QED
    BY <1>1, <1>2, <1>3, <1>4

LEMMA ConfigureIsPlaced ==
  ASSUME Typed, Placed, NEW r \in Runs, Configure(r), ~Quit(r)
  PROVE  Placed'
  <1>1. pc[r] = "start" /\ pc' = [pc EXCEPT ![r] = "root"] /\ UNCHANGED <<revno, left, rev, ran>>
    BY DEF Configure, Goto
  <1>2. \A q \in Runs \ {r} : job'[q] = job[q]
    BY DEF Configure, Typed
  <1>3. \A q \in Runs \ {r} : Same(q)
    BY <1>1, <1>2 DEF Same, Typed
  <1>4. PlacedRun(r)'
    BY <1>1 DEF Placed, PlacedRun, Begun, Early, Typed
  <1> QED
    BY <1>1, <1>3, <1>4, Frame DEF Placed

LEMMA RevnoIsPlaced == ASSUME Typed, Placed, NEW r \in Runs, Revno(r) PROVE Placed'
  <1>1. pc[r] = "revno" /\ pc' = [pc EXCEPT ![r] = "range"] /\ UNCHANGED <<job, left, rev, ran>>
    BY DEF Revno, Goto
  <1>2. dirs[RootOf(r)] \in Directories
    BY Located DEF Typed
  <1>3. Len(dirs[RootOf(r)].log) \in Nat /\ NoRev \in Nat
    BY <1>2 DEF Directories, Logs, NoRev
  <1>4. revno' \in [Runs -> Nat] /\ \A q \in Runs \ {r} : revno'[q] = revno[q]
    BY <1>3 DEF Revno, Placed
  <1>5. \A q \in Runs \ {r} : Same(q)
    BY <1>1, <1>4 DEF Same, Typed
  <1>6. PlacedRun(r)'
    BY <1>1 DEF Placed, PlacedRun, Begun, Early, Typed
  <1> QED
    BY <1>1, <1>4, <1>5, <1>6, Frame DEF Placed

LEMMA StepIsPlaced == IInv /\ Placed /\ [Next]_vars => Placed'
  <1> SUFFICES ASSUME Typed, Placed, [Next]_vars
               PROVE  Placed'
    BY DEF IInv
  <1>1. CASE UNCHANGED <<pc, job, revno, left, rev, ran>>
    <2>1. \A r \in Runs : Same(r)
      BY <1>1 DEF Same
    <2>2. \A r \in Runs : PlacedRun(r)'
      BY <1>1 DEF Placed, PlacedRun, Begun, AtNone, Position, Steps, InRange, Number
    <2> QED
      BY <1>1, <2>2 DEF Placed
  <1>2. CASE UNCHANGED vars \/ Commit
    BY <1>1, <1>2 DEF vars, run, Commit
  <1>3. CASE \E r \in Runs : Move(r)
    <2>1. PICK r \in Runs : Move(r)
      BY <1>3
    <2>2. CASE Quit(r)
      BY <2>2, OthersArePlaced
    <2>3. CASE ~Quit(r)
      BY <2>1, <2>3, OthersArePlaced, ConfigureIsPlaced, RevnoIsPlaced, TakeRangeIsPlaced,
         NextIsPlaced, ExecuteIsPlaced DEF Move
    <2> QED
      BY <2>2, <2>3
  <1> QED
    BY <1>2, <1>3 DEF Next

(* A run that ends by itself has executed its command for each revision of  *)
(* the range, both ends included, in rising order (get_revision_range, run).*)
THEOREM RangesAreCovered == Spec => []RangeCovered
  <1>1. ASSUME Typed, Placed
        PROVE  RangeCovered
    <2> SUFFICES ASSUME NEW r \in Runs, pc[r] = "done", ~job[r].single
                 PROVE  Covers(ran[r], Number(r, job[r].from), Number(r, job[r].to), job[r].step)
      BY DEF RangeCovered, Covers
    <2>1. Between(ran[r], left[r], Steps(r)) /\ left[r] = <<>>
      BY <1>1 DEF Placed, PlacedRun, Begun, AtNone, Position
    <2>2. ran[r] = Steps(r)
      <3>1. Len(ran[r]) = Len(Steps(r)) /\ ran[r] \in Seq(Int) /\ Steps(r) \in Seq(Int)
        BY <2>1 DEF Between
      <3>2. \A i \in 1 .. Len(ran[r]) : ran[r][i] = Steps(r)[i]
        BY <2>1 DEF Between
      <3> QED
        BY <3>1, <3>2, SeqEqual
    <2>3. /\ Number(r, job[r].from) \in Nat /\ Number(r, job[r].to) \in Nat
          /\ job[r].step \in Nat \ {0}
      <3>1. job[r] \in Jobs /\ revno[r] \in Nat /\ MaxRev \in Nat
        BY <1>1, SandboxAssumption DEF Typed, Placed
      <3>2. job[r].from \in Numbers /\ job[r].to \in Numbers /\ job[r].step \in Nat \ {0}
        BY <3>1 DEF Jobs
      <3>3. InRange(r)
        BY <1>1 DEF Placed, PlacedRun, Begun
      <3> QED
        BY <3>1, <3>2, <3>3 DEF Numbers, Number, InRange, Revs, LastOne, HeadWord, NoRev
    <2> QED
      BY <2>2, <2>3, RangeIsWhole DEF Steps
  <1>2. IInv => Typed
    BY DEF IInv
  <1>3. Placed /\ Typed => RangeCovered
    BY <1>1
  <1> QED
    BY <1>2, <1>3, InitIsRight, StepIsRight, InitIsPlaced, StepIsPlaced, PTL DEF Spec
=============================================================================
