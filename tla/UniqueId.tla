------------------------------ MODULE UniqueId ------------------------------
(***************************************************************************)
(* tests/lib/dtr_unique.pl: the ids under which several test-run.pl        *)
(* processes of one host choose their ports and directories.  The ids in   *)
(* use are the lines "id pid" of one file; every reader and writer of the  *)
(* file holds an exclusive flock on "<file>.sem".  A requester asks ps     *)
(* about the pid of every line and drops the lines of missing processes;   *)
(* an END block gives the id back; SIGKILL gives nothing back but the lock.*)
(*                                                                         *)
(* A process is named by its pid, so that a pid that is used again is the  *)
(* same element of Pids.                                                   *)
(***************************************************************************)
EXTENDS Integers

CONSTANTS
  Pids,         \* process numbers of the host
  MinId, MaxId, \* the range asked for (200 and 299 in test-run.pl)
  NoPid,        \* "no process": not a pid
  NoId,         \* undef: not an id
  PsAnswers,    \* the values $can_use_ps may take
  KillAtWrite   \* may a process be killed between its truncate and its close?

Ids == MinId .. MaxId

ASSUME ConstantsAssumption ==
  /\ MinId \in Int /\ MaxId \in Int
  /\ NoPid \notin Pids
  /\ NoId \notin Ids
  /\ PsAnswers \in SUBSET BOOLEAN
  /\ KillAtWrite \in BOOLEAN

VARIABLES
  file,     \* the id file: the pid recorded for an id, or NoPid
  sem,      \* the holder of the flock on <file>.sem, or NoPid
  pc,       \* what the process of each pid is doing
  id,       \* $dtr_unique_assigned_ids of each process: its id, or NoId
  canUsePs, \* $can_use_ps of the holder of the flock
  unread,   \* ids whose lines the holder has yet to read
  taken,    \* %taken of the holder
  ret       \* $ret of the holder

buffer == <<canUsePs, unread, taken, ret>>
vars == <<file, sem, pc, id, buffer>>

(***************************************************************************)
(* "free": no process has the pid.  "foreign": a process that is not       *)
(* test-run.pl has it.  The others are the control points of               *)
(*   dtr_require_unique_id   "lock"  before flock; "scan" reading the file;*)
(*                           "write" truncated, new lines still buffered   *)
(*   ..._and_wait            "sleep" between two requests                  *)
(*   test-run.pl             "run"   working under its id                  *)
(*   END                     "rlock" before flock; "rread" flock held;      *)
(*                           "rwrite" truncated, new lines still buffered  *)
(***************************************************************************)
Dtr == {"lock", "scan", "write", "sleep", "run", "rlock", "rread", "rwrite"}
InSem == {"scan", "write", "rread", "rwrite"}
Writing == {"write", "rwrite"}
Owning == {"run", "rlock", "rread", "rwrite"}

EmptyFile == [i \in Ids |-> NoPid]

(* i is the lowest id of the range that is not a key of %taken. *)
FirstVacant(t, i) ==
  t[i] = NoPid /\ \A j \in Ids : t[j] = NoPid => i <= j

(* What `ps -e | grep '^[ ]*pid '` shows: some process has this pid. *)
Listed(p) == pc[p] # "free"

NoBuffer ==
  /\ canUsePs' = FALSE
  /\ unread' = {}
  /\ taken' = EmptyFile
  /\ ret' = NoId

TypeOK ==
  /\ file \in [Ids -> Pids \cup {NoPid}]
  /\ sem \in Pids \cup {NoPid}
  /\ pc \in [Pids -> Dtr \cup {"free", "foreign"}]
  /\ id \in [Pids -> Ids \cup {NoId}]
  /\ canUsePs \in BOOLEAN
  /\ unread \in SUBSET Ids
  /\ taken \in [Ids -> Pids \cup {NoPid}]
  /\ ret \in Ids \cup {NoId}

Init ==
  /\ file = EmptyFile
  /\ sem = NoPid
  /\ pc = [p \in Pids |-> "free"]
  /\ id = [p \in Pids |-> NoId]
  /\ canUsePs = FALSE
  /\ unread = {}
  /\ taken = EmptyFile
  /\ ret = NoId

-----------------------------------------------------------------------------
(* The host gives the pid to a new process, test-run.pl or another program. *)
Start(p) ==
  /\ pc[p] = "free"
  /\ \E kind \in {"lock", "foreign"} : pc' = [pc EXCEPT ![p] = kind]
  /\ UNCHANGED <<file, sem, id, buffer>>

(* The other program ends. *)
ForeignExit(p) ==
  /\ pc[p] = "foreign"
  /\ pc' = [pc EXCEPT ![p] = "free"]
  /\ UNCHANGED <<file, sem, id, buffer>>

-----------------------------------------------------------------------------
(* Mutant of Lock: flock is not asked for. *)
LockWithoutFlock(p) ==
  /\ pc[p] = "lock"
  /\ sem' = p
  /\ pc' = [pc EXCEPT ![p] = "scan"]
  /\ canUsePs' \in PsAnswers
  /\ unread' = {i \in Ids : file[i] # NoPid}
  /\ taken' = EmptyFile
  /\ ret' = NoId
  /\ UNCHANGED <<file, id>>

(* dtr_require_unique_id: flock is granted, the file is opened. *)
Lock(p) ==
  /\ pc[p] = "lock"
  /\ sem = NoPid
  /\ sem' = p
  /\ pc' = [pc EXCEPT ![p] = "scan"]
  /\ canUsePs' \in PsAnswers
  /\ unread' = {i \in Ids : file[i] # NoPid}
  /\ taken' = EmptyFile
  /\ ret' = NoId
  /\ UNCHANGED <<file, id>>

(* Mutant of ReadLine: id and pid are swapped when the line is split. *)
ReadLineSwapped(p, i) ==
  /\ pc[p] = "scan"
  /\ i \in unread
  /\ unread' = unread \ {i}
  /\ taken' = [taken EXCEPT ![i] = i]
  /\ UNCHANGED <<file, sem, pc, id, canUsePs, ret>>

(* Mutant of ReadLine: the answer of ps is read the wrong way round. *)
ReadLineInverted(p, i) ==
  /\ pc[p] = "scan"
  /\ i \in unread
  /\ unread' = unread \ {i}
  /\ taken' = IF canUsePs /\ Listed(file[i])
                THEN taken
                ELSE [taken EXCEPT ![i] = file[i]]
  /\ UNCHANGED <<file, sem, pc, id, canUsePs, ret>>

(* Mutant of ReadLine: lines of missing processes are kept. *)
ReadLineKept(p, i) ==
  /\ pc[p] = "scan"
  /\ i \in unread
  /\ unread' = unread \ {i}
  /\ taken' = [taken EXCEPT ![i] = file[i]]
  /\ UNCHANGED <<file, sem, pc, id, canUsePs, ret>>

(* One line of the file.  The line of a pid that ps does not list is dropped. *)
ReadLine(p, i) ==
  /\ pc[p] = "scan"
  /\ i \in unread
  /\ unread' = unread \ {i}
  /\ taken' = IF canUsePs /\ ~Listed(file[i])
                THEN taken
                ELSE [taken EXCEPT ![i] = file[i]]
  /\ UNCHANGED <<file, sem, pc, id, canUsePs, ret>>

(* All lines are read and an id is left: take the first, truncate the file. *)
TakeId(p) ==
  /\ pc[p] = "scan"
  /\ unread = {}
  /\ \E i \in Ids :
       /\ FirstVacant(taken, i)
       /\ ret' = i
       /\ taken' = [taken EXCEPT ![i] = p]
  /\ file' = EmptyFile
  /\ pc' = [pc EXCEPT ![p] = "write"]
  /\ UNCHANGED <<sem, id, canUsePs, unread>>

(* The buffered lines reach the file when it is closed; then the unlock. *)
WriteBack(p) ==
  /\ pc[p] = "write"
  /\ file' = taken
  /\ sem' = NoPid
  /\ id' = [id EXCEPT ![p] = ret]
  /\ pc' = [pc EXCEPT ![p] = "run"]
  /\ NoBuffer

(* No id is left, hence no line was dropped: nothing to write, undef. *)
NoneVacant(p) ==
  /\ pc[p] = "scan"
  /\ unread = {}
  /\ \A i \in Ids : taken[i] # NoPid
  /\ sem' = NoPid
  /\ pc' = [pc EXCEPT ![p] = "sleep"]
  /\ NoBuffer
  /\ UNCHANGED <<file, id>>

(* dtr_require_unique_id_and_wait: 30 seconds later. *)
Retry(p) ==
  /\ pc[p] = "sleep"
  /\ pc' = [pc EXCEPT ![p] = "lock"]
  /\ UNCHANGED <<file, sem, id, buffer>>

-----------------------------------------------------------------------------
(* test-run.pl ends by exit or die: END calls dtr_release_unique_id. *)
Finish(p) ==
  /\ pc[p] = "run"
  /\ pc' = [pc EXCEPT ![p] = "rlock"]
  /\ UNCHANGED <<file, sem, id, buffer>>

LockForRelease(p) ==
  /\ pc[p] = "rlock"
  /\ sem = NoPid
  /\ sem' = p
  /\ pc' = [pc EXCEPT ![p] = "rread"]
  /\ UNCHANGED <<file, id, buffer>>

(* Mutant of DropLine: the file is rewritten without any line. *)
DropAllLines(p) ==
  /\ pc[p] = "rread"
  /\ taken' = EmptyFile
  /\ file' = EmptyFile
  /\ pc' = [pc EXCEPT ![p] = "rwrite"]
  /\ UNCHANGED <<sem, id, canUsePs, unread, ret>>

(* The file is read, whoever its pids are, the line of the id is deleted. *)
DropLine(p) ==
  /\ pc[p] = "rread"
  /\ taken' = [file EXCEPT ![id[p]] = NoPid]
  /\ file' = EmptyFile
  /\ pc' = [pc EXCEPT ![p] = "rwrite"]
  /\ UNCHANGED <<sem, id, canUsePs, unread, ret>>

(* The remaining lines are written, the lock is dropped, the process ends. *)
Release(p) ==
  /\ pc[p] = "rwrite"
  /\ file' = taken
  /\ sem' = NoPid
  /\ id' = [id EXCEPT ![p] = NoId]
  /\ pc' = [pc EXCEPT ![p] = "free"]
  /\ NoBuffer

(* A signal without a handler: no END block, the kernel drops the flock. *)
Kill(p) ==
  /\ pc[p] \in Dtr
  /\ pc[p] \in Writing => KillAtWrite
  /\ pc' = [pc EXCEPT ![p] = "free"]
  /\ id' = [id EXCEPT ![p] = NoId]
  /\ IF sem = p
       THEN sem' = NoPid /\ NoBuffer
       ELSE UNCHANGED <<sem, buffer>>
  /\ UNCHANGED file

-----------------------------------------------------------------------------
Request(p) ==
  \/ Lock(p)
  \/ \E i \in Ids : ReadLine(p, i)
  \/ TakeId(p)
  \/ WriteBack(p)
  \/ NoneVacant(p)
  \/ Retry(p)

GiveBack(p) == Finish(p) \/ LockForRelease(p) \/ DropLine(p) \/ Release(p)

Next ==
  \E p \in Pids :
    Start(p) \/ ForeignExit(p) \/ Request(p) \/ GiveBack(p) \/ Kill(p)

Spec == Init /\ [][Next]_vars

(* Processes are scheduled, flock is granted to each of the processes that *)
(* keep asking for it, test runs and other programs end.                   *)
Fairness ==
  \A p \in Pids :
    /\ SF_vars(Lock(p)) /\ SF_vars(LockForRelease(p))
    /\ WF_vars(\E i \in Ids : ReadLine(p, i))
    /\ WF_vars(TakeId(p)) /\ WF_vars(WriteBack(p)) /\ WF_vars(NoneVacant(p))
    /\ WF_vars(Retry(p)) /\ WF_vars(Finish(p)) /\ WF_vars(DropLine(p))
    /\ WF_vars(Release(p)) /\ WF_vars(ForeignExit(p))

FairSpec == Spec /\ Fairness
-----------------------------------------------------------------------------
(* Two running processes never work under the same id, so that the ports   *)
(* and directories they derive from it differ (dtr_require_unique_id).     *)
IdExclusion == \A p, q \in Pids : p # q /\ id[p] # NoId => id[p] # id[q]

(* dtr_release_unique_id deletes the line of its id without looking at the *)
(* pid: when it holds the lock that line is always the releaser's own.     *)
ReleasesOwnLine == \A p \in Pids : pc[p] = "rread" => file[id[p]] = p

(* Whenever the lock is free, the file has the line of every running owner:*)
(* a rewrite of the file by another process lost none.                     *)
FileRecordsOwners ==
  sem = NoPid => \A p \in Pids : id[p] # NoId => file[id[p]] = p

-----------------------------------------------------------------------------
(* The inductive invariant behind the three properties above. *)

(* The flock and the control points agree. *)
SemInv == \A p \in Pids : sem = p <=> pc[p] \in InSem

(* A process has an id exactly between WriteBack and the end of Release. *)
IdInv == \A p \in Pids : id[p] # NoId <=> pc[p] \in Owning

(* While nobody rewrites the file, it has every owner's line. *)
FileInv ==
  (\A p \in Pids : pc[p] \notin Writing) =>
    \A q \in Pids : id[q] # NoId => file[id[q]] = q

(* A scan has read the line of every owner or will still read it. *)
ScanInv ==
  \A p \in Pids : pc[p] = "scan" =>
    \A q \in Pids : id[q] # NoId => id[q] \in unread \/ taken[id[q]] = q

(* The lines about to be written have every owner, the new one included.   *)
WriteInv ==
  \A p \in Pids : pc[p] = "write" =>
    /\ ret \in Ids /\ taken[ret] = p
    /\ \A q \in Pids : id[q] # NoId => taken[id[q]] = q

(* The lines a release writes have every owner but the releaser.           *)
ReleaseInv ==
  \A p \in Pids : pc[p] = "rwrite" =>
    /\ taken[id[p]] = NoPid
    /\ \A q \in Pids \ {p} : id[q] # NoId => taken[id[q]] = q

IInv ==
  TypeOK /\ SemInv /\ IdInv /\ FileInv /\ ScanInv /\ WriteInv /\ ReleaseInv

-----------------------------------------------------------------------------
(* The promise of the module: ids are handed over only by their owners.    *)
OwnerOf(i) ==
  IF \E p \in Pids : id[p] = i THEN CHOOSE p \in Pids : id[p] = i ELSE NoPid

Allocator == INSTANCE IdAllocator WITH owner <- [i \in Ids |-> OwnerOf(i)]

ImplementsAllocator == Allocator!Spec

(* A line whose pid now belongs to a process that does not own the id: ps  *)
(* lists the pid, the line stays.                                          *)
StaleLine(i) == file[i] # NoPid /\ Listed(file[i]) /\ id[file[i]] # i

(* A scan that cannot use ps and therefore keeps the lines of the dead.    *)
BlindScan == \E p \in Pids : pc[p] = "scan" /\ ~canUsePs

(* A new test-run.pl, which asks for an id too.                             *)
Newcomer == \E p \in Pids : pc[p] = "free" /\ pc'[p] = "lock"

(* dtr_require_unique_id_and_wait comes back, if new requesters do not come *)
(* for ever: it polls and does not queue, so that each id that is given     *)
(* back may be taken by one of them while it sleeps.  A waiting process     *)
(* then gets an id or is killed, unless a pid that was used again keeps a   *)
(* stale line, or ps does not work.                                         *)
WaiterServed ==
  <>[][~Newcomer]_vars =>
    \A p \in Pids :
      pc[p] \in {"lock", "sleep"} ~>
        pc[p] \in {"run", "free"} \/ BlindScan \/ \E i \in Ids : StaleLine(i)
=============================================================================
