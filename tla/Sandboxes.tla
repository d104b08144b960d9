------------------------------ MODULE Sandboxes -----------------------------
(* runner.py and lib/sandbox.py: runs of drizzle-automation that share a     *)
(* repository directory.  A run keeps a root branch, makes a branch of it    *)
(* for its command, and of that one a branch, the sandbox, for each revision *)
(* it is to process.  bzr is modelled from the way it is called.             *)
EXTENDS RunOptions, FiniteSets

CONSTANTS
  Runs,        \* processes
  Clis,        \* the command lines they may have
  Files,       \* the configuration files there are, by their Places
  Branches,    \* [dir, lp]: see CommandLines
  MaxRev,      \* the greatest revision number anybody names
  MaxCommits   \* bound: commits and rewrites of the branch

Revs == 0 .. MaxRev
NoRev == 0     \* what is not a revision number: bzr knows no such revision

ASSUME SandboxAssumption ==
  /\ MaxRev \in Nat \ {0} /\ MaxCommits \in 0 .. MaxRev
  /\ DOMAIN Files \subseteq Places
  /\ Clis \subseteq CommandLines(ValidCommands, Branches, Revs)
  /\ Branches # {} /\ \A b \in Branches : b.lp \in BOOLEAN
  /\ \A c \in ValidCommands : Lookup(None, BranchKeys, Merged(Files, c)) \subseteq Branches

VARIABLES
  cli, pc,
  job,        \* the options of each run, as processOptions leaves them
  revno,      \* of each run: the root branch's revno
  left, rev,  \* revisions to come, and the current one
  ran,        \* of each run: the revisions its command was executed for
  dirs,       \* the directories: [state, log], log the revision ids of a branch
  upstream,   \* [log, commits]: the branch all root branches are pulled from
  seen        \* of each run: what the root branch has held since it pulled it,
              \* or started (for checking only)

run  == <<cli, job, revno, left, rev, ran>>
vars == <<run, pc, dirs, upstream, seen>>
-----------------------------------------------------------------------------
\* repo/branch, repo/branch-command, repo/branch-command-command-rN.  (Joined
\* with "-" they are different names unless a branch is called like a sandbox.)
RootDir(b)           == <<"root", b, "", NoRev>>
CommandDir(b, c)     == <<"command", b, c, NoRev>>
RevisionDir(b, c, n) == <<"revision", b, c, n>>

RootOf(r)    == RootDir(job[r].branch.dir)
CommandOf(r) == CommandDir(job[r].branch.dir, job[r].command)
SandboxOf(r) == RevisionDir(job[r].branch.dir, job[r].command, rev[r])

Names == {b.dir : b \in Branches}
Dirs  == {RootDir(b) : b \in Names}
    \cup {CommandDir(b, c) : b \in Names, c \in ValidCommands}
    \cup {RevisionDir(b, c, n) : b \in Names, c \in ValidCommands, n \in Revs}

Absent  == [state |-> "absent", log |-> <<>>]
Partial == [state |-> "partial", log |-> <<>>]   \* bzr branch has not finished with it
Whole(log) == [state |-> "whole", log |-> log]
Exists(d)  == dirs[d].state # "absent"     \* os.path.exists
IsWhole(d) == dirs[d].state = "whole"      \* a branch that bzr can work with

\* The first n revisions of a branch, which bzr -rn makes of it.
At(log, n) == SubSeq(log, 1, n)
Has(d, n)  == IsWhole(d) /\ n \in 1 .. Len(dirs[d].log)

Init ==
  /\ cli \in [Runs -> Clis] /\ pc = [r \in Runs |-> "start"]
  /\ job = [r \in Runs |-> Job(cli[r], CHOOSE b \in Branches : TRUE)]
  /\ revno = [r \in Runs |-> NoRev] /\ rev = [r \in Runs |-> NoRev]
  /\ left = [r \in Runs |-> <<>>] /\ ran = [r \in Runs |-> <<>>]
  /\ upstream = [log |-> <<1>>, commits |-> 1]
  /\ \E there \in SUBSET {RootDir(b) : b \in Names} :
       dirs = [d \in Dirs |-> IF d \in there THEN Whole(<<1>>) ELSE Absent]
  /\ seen = [r \in Runs |-> {}]

Goto(r, l)   == pc' = [pc EXCEPT ![r] = l]
Quit(r)      == Goto(r, "quit") /\ UNCHANGED <<run, dirs, upstream, seen>>  \* sys.exit, or a traceback
Put(d, what) == dirs' = [dirs EXCEPT ![d] = what]
Look(r, l)   == Goto(r, l) /\ UNCHANGED <<run, dirs, upstream, seen>>

Ended == {"done", "quit", "killed"}
\* Whoever runs on branch b sees what is put into the root branch.
See(b, log, puller) == seen' = [q \in Runs |->
  IF q = puller THEN {log}
  ELSE IF pc[q] \notin Ended \cup {"start"} /\ job[q].branch.dir = b THEN seen[q] \cup {log}
  ELSE seen[q]]
PutRoot(r, log) == Put(RootOf(r), Whole(log)) /\ See(job[r].branch.dir, log, r)
-----------------------------------------------------------------------------
\* run(): configuration, options, dispatch
Configure(r) ==
  LET cnf == Merged(Files, cli[r].command) IN
  /\ pc[r] = "start"
  /\ \/ Refused(cli[r], cnf) /\ Quit(r)
     \/ /\ ~Refused(cli[r], cnf)
        /\ \E b \in Lookup(cli[r].bzr.branch, BranchKeys, cnf) :
             /\ job' = [job EXCEPT ![r] = Job(cli[r], b)]
             /\ seen' = [seen EXCEPT ![r] =
                  IF IsWhole(RootDir(b.dir)) THEN {dirs[RootDir(b.dir)].log} ELSE {}]
        /\ Goto(r, "root") /\ UNCHANGED <<cli, revno, left, rev, ran, dirs, upstream>>

\* RootSandbox.create.  With --use-root-sandbox it works in the repository
\* directory itself, where a pull fails for a name that is not set.
EnterRoot(r) ==
  /\ pc[r] = "root"
  /\ \/ job[r].useRoot /\ ~job[r].noPull /\ Quit(r)
     \/ job[r].useRoot /\ job[r].noPull /\ Look(r, "revno")
     \/ ~job[r].useRoot /\ Exists(RootOf(r)) /\ Look(r, IF job[r].noPull THEN "revno" ELSE "pull root")
     \/ ~job[r].useRoot /\ ~Exists(RootOf(r)) /\ ~job[r].branch.lp /\ Quit(r)
     \/ /\ ~job[r].useRoot /\ ~Exists(RootOf(r)) /\ job[r].branch.lp
        /\ Put(RootOf(r), Partial) /\ Goto(r, "branching root")
        /\ UNCHANGED <<run, upstream, seen>>
\* bzr branch lp:...: nobody looks at its exit status, but chdir fails if there
\* is no directory.
RootBranched(r) ==
  /\ pc[r] = "branching root" /\ UNCHANGED <<run, upstream>>
  /\ \/ PutRoot(r, upstream.log) /\ Goto(r, IF job[r].noPull THEN "revno" ELSE "pull root")
     \/ Put(RootOf(r), Absent) /\ Goto(r, "quit") /\ UNCHANGED seen
PullRoot(r) ==
  /\ pc[r] = "pull root"
  /\ \/ Quit(r)
     \/ /\ IsWhole(RootOf(r)) /\ PutRoot(r, upstream.log)
        /\ Goto(r, "revno") /\ UNCHANGED <<run, upstream>>
\* bzr revno: in the repository directory, or in a root branch that is not
\* whole yet, its output is a complaint.
Revno(r) ==
  /\ pc[r] = "revno" /\ Goto(r, "range")
  /\ revno' = [revno EXCEPT ![r] = IF job[r].useRoot THEN NoRev ELSE Len(dirs[RootOf(r)].log)]
  /\ UNCHANGED <<cli, job, left, rev, ran, dirs, upstream, seen>>

\* get_revision_range: "a..b" gives every step-th number from a to b; int()
\* refuses words.
Number(r, n) == IF n = LastOne THEN revno[r] ELSE IF n = HeadWord THEN NoRev ELSE n
OpenRange(from, to, step) ==   \* a mutant of RevisionRange: range(a, b, step)
  [i \in 1 .. (IF from >= to THEN 0 ELSE (to - 1 - from) \div step + 1) |-> from + (i - 1) * step]
RevisionRange(from, to, step) ==
  [i \in 1 .. (IF from > to THEN 0 ELSE (to - from) \div step + 1) |-> from + (i - 1) * step]
TakeRange(r) ==
  LET from == Number(r, job[r].from)  to == Number(r, job[r].to) IN
  /\ pc[r] = "range"
  /\ \/ job[r].single /\ left' = [left EXCEPT ![r] = <<from>>]
     \/ /\ ~job[r].single /\ NoRev \notin {from, to}
        /\ left' = [left EXCEPT ![r] = RevisionRange(from, to, job[r].step)]
  /\ Goto(r, "next") /\ UNCHANGED <<cli, job, revno, rev, ran, dirs, upstream, seen>>
BadRange(r) ==
  /\ pc[r] = "range" /\ ~job[r].single
  /\ NoRev \in {Number(r, job[r].from), Number(r, job[r].to)} /\ Quit(r)

NextRevision(r) ==
  /\ pc[r] = "next" /\ UNCHANGED <<cli, job, revno, ran, dirs, upstream, seen>>
  /\ \/ left[r] = <<>> /\ Goto(r, "done") /\ UNCHANGED <<left, rev>>
     \/ /\ left[r] # <<>> /\ rev' = [rev EXCEPT ![r] = left[r][1]]
        /\ left' = [left EXCEPT ![r] = Tail(@)]
        /\ Goto(r, IF job[r].useRoot THEN "execute" ELSE "sandbox")
-----------------------------------------------------------------------------
\* Sandbox.create: what is there is pulled, what is not is branched.
LookCommand(r) ==
  pc[r] = "sandbox" /\ Look(r, IF Exists(CommandOf(r)) THEN "pull command" ELSE "look root")
StaleCommand(r) ==   \* a mutant of PullCommand: the command branch is used as it is
  pc[r] = "pull command" /\ (Quit(r) \/ (IsWhole(CommandOf(r)) /\ Look(r, "look revision")))
PullCommand(r) ==
  /\ pc[r] = "pull command"
  /\ \/ Quit(r)
     \/ /\ IsWhole(CommandOf(r)) /\ IsWhole(RootOf(r)) /\ Put(CommandOf(r), dirs[RootOf(r)])
        /\ Goto(r, "look revision") /\ UNCHANGED <<run, upstream, seen>>
LookRevision(r) ==
  /\ pc[r] = "look revision"
  /\ Look(r, IF Exists(SandboxOf(r)) THEN "pull revision" ELSE "branch revision")
PullRevision(r) ==
  /\ pc[r] = "pull revision"
  /\ \/ Quit(r)
     \/ /\ IsWhole(SandboxOf(r)) /\ Has(CommandOf(r), rev[r])
        /\ Put(SandboxOf(r), Whole(At(dirs[CommandOf(r)].log, rev[r])))
        /\ Goto(r, "execute") /\ UNCHANGED <<run, upstream, seen>>
LookRoot(r) ==
  /\ pc[r] = "look root"
  /\ \/ IsWhole(RootOf(r)) /\ Look(r, "branch command")
     \/ ~IsWhole(RootOf(r)) /\ Quit(r)

\* bzr branch refuses a directory that exists, whoever made it since we looked;
\* a branch that fails takes its directory away.
Branch(r, d, l) ==
  \/ Exists(d) /\ Quit(r)
  \/ ~Exists(d) /\ Put(d, Partial) /\ Goto(r, l) /\ UNCHANGED <<run, upstream, seen>>
Branched(r, d, what, l) ==
  /\ UNCHANGED <<run, upstream, seen>>
  /\ (Put(d, what) /\ Goto(r, l)) \/ (Put(d, Absent) /\ Goto(r, "quit"))
BranchCommand(r) ==
  pc[r] = "branch command" /\ Branch(r, CommandOf(r), "branching command")
CommandBranched(r) ==
  /\ pc[r] = "branching command"
  /\ Branched(r, CommandOf(r), dirs[RootOf(r)], "branch revision")
BranchRevision(r) ==
  /\ pc[r] = "branch revision"
  /\ \/ ~Has(CommandOf(r), rev[r]) /\ Quit(r)
     \/ Has(CommandOf(r), rev[r]) /\ Branch(r, SandboxOf(r), "branching revision")
RevisionBranched(r) ==
  LET log == dirs[CommandOf(r)].log IN
  /\ pc[r] = "branching revision"
  /\ \/ /\ Has(CommandOf(r), rev[r])
        /\ Branched(r, SandboxOf(r), Whole(At(log, rev[r])), "execute")
     \/ /\ ~Has(CommandOf(r), rev[r]) /\ Put(SandboxOf(r), Absent) /\ Goto(r, "quit")
        /\ UNCHANGED <<run, upstream, seen>>

\* runner.execute in the sandbox: no command returns False, and a failure is an
\* exit, so that --force changes nothing; valgrind has no runner.
Execute(r) ==
  /\ pc[r] = "execute"
  /\ \/ Quit(r)
     \/ /\ job[r].command # "valgrind" /\ ran' = [ran EXCEPT ![r] = Append(@, rev[r])]
        /\ Goto(r, "next") /\ UNCHANGED <<cli, job, revno, left, rev, dirs, upstream, seen>>

Kill(r) == pc[r] \notin Ended \cup {"start"} /\ Look(r, "killed")

\* The branch grows, or its last revision is replaced (pull --overwrite).
Commit ==
  /\ upstream.commits < MaxCommits /\ UNCHANGED <<run, pc, dirs, seen>>
  /\ LET id == upstream.commits + 1 IN
     \E kept \in {Len(upstream.log), Len(upstream.log) - 1} :
       upstream' = [log |-> Append(At(upstream.log, kept), id), commits |-> id]

Move(r) ==
  \/ Configure(r) \/ EnterRoot(r) \/ RootBranched(r) \/ PullRoot(r) \/ Revno(r)
  \/ TakeRange(r) \/ BadRange(r) \/ NextRevision(r)
  \/ LookCommand(r) \/ PullCommand(r) \/ LookRevision(r) \/ PullRevision(r)
  \/ LookRoot(r) \/ BranchCommand(r) \/ CommandBranched(r)
  \/ BranchRevision(r) \/ RevisionBranched(r) \/ Execute(r) \/ Kill(r)
Next == (\E r \in Runs : Move(r)) \/ Commit

Spec == Init /\ [][Next]_vars
-----------------------------------------------------------------------------
Labels == {"start", "root", "branching root", "pull root", "revno", "range", "next", "sandbox",
  "pull command", "look revision", "pull revision", "look root", "branch command",
  "branching command", "branch revision", "branching revision", "execute"} \cup Ended

\* The types of the state.
TypeOK ==
  /\ cli \in [Runs -> Clis] /\ pc \in [Runs -> Labels]
  /\ \A r \in Runs : job[r].command = cli[r].command /\ job[r].branch \in Branches
  /\ revno \in [Runs -> Revs] /\ rev \in [Runs -> Revs]
  /\ DOMAIN dirs = Dirs /\ \A d \in Dirs : dirs[d].state \in {"absent", "partial", "whole"}
  /\ upstream.commits \in 1 .. MaxRev

\* A command is executed in a sandbox that holds exactly its revision, of a
\* history that the root branch has had since the run pulled it (with --no-pull,
\* since it started): neither what a killed or concurrent run left half made, nor
\* an old revision of that number (Sandbox.create).
Holds(log, n, logs) == \E h \in logs : n \in 1 .. Len(h) /\ log = At(h, n)
RightRevision == \A r \in Runs : pc[r] = "execute" /\ ~job[r].useRoot =>
  IsWhole(SandboxOf(r)) /\ Holds(dirs[SandboxOf(r)].log, rev[r], seen[r])

\* A run that ends by itself has executed its command for each revision of the
\* range, both ends included, in rising order (get_revision_range, run).
RangeCovered == \A r \in Runs : pc[r] = "done" /\ ~job[r].single =>
  LET from == Number(r, job[r].from)  to == Number(r, job[r].to) IN
  /\ {ran[r][i] : i \in DOMAIN ran[r]} = {n \in from .. to : (n - from) % job[r].step = 0}
  /\ \A i, j \in DOMAIN ran[r] : i < j => ran[r][i] < ran[r][j]

\* A run without --bzr-branch takes its branch from a file than which none that
\* names one, in the same spelling of the key, is more local: the working directory
\* is more local than the home directory and that more than /etc, and in one
\* directory the command's file than the shared one ("options are overridden with
\* more local configuration files", lib/config.py:47).
Locality == [etc |-> 1, home |-> 2, cwd |-> 3]
MoreLocal(f, g) == \/ Locality[f[1]] > Locality[g[1]]
                   \/ f[1] = g[1] /\ f[2] # "automation" /\ g[2] = "automation"
Naming(c, k) == {f \in DOMAIN Files : f[2] \in {c, "automation"} /\ k \in DOMAIN Files[f]}
LocalOverrides == \A r \in Runs : pc[r] \notin {"start", "quit"} /\ cli[r].bzr.branch = None =>
  \E k \in BranchKeys : \E f \in Naming(cli[r].command, k) :
    /\ job[r].branch = Files[f][k]
    /\ \A g \in Naming(cli[r].command, k) : ~MoreLocal(g, f)
=============================================================================
