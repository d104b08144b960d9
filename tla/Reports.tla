------------------------------- MODULE Reports ------------------------------
(* reports/: a benchmark run against the last few, the last many and all     *)
(* runs of a branch.  A report is four or five queries, one after the other, *)
(* while other runs are being logged.                                        *)
EXTENDS Naturals, Sequences, FiniteSets, SequencesExt

CONSTANTS
  Asks,       \* [report, mailed, branch, revision, place]
  Symbols,    \* of which names and numbers are sequences (1 begins 12)
  Logged,     \* what runs are logged: [branch, revision, place], place a
              \* configuration and a server
  Staging,    \* the branch that the others' sysbench results are compared with
  Keys,       \* of a result: [name, level]
  Few, Many,  \* 5 and 20
  MaxRuns     \* bound

KindsOfReport == {"sysbench", "sqlbench", "drizzleslap", "dbt2"}
ASSUME ReportsAssumption ==
  /\ \A l \in Logged : l.branch \in Seq(Symbols) /\ l.revision \in Seq(Symbols)
  /\ Staging \in Seq(Symbols)
  /\ \A a \in Asks :
       /\ a.report \in KindsOfReport /\ a.mailed \in BOOLEAN
       /\ \E l \in Logged : [branch |-> a.branch, revision |-> a.revision, place |-> a.place] = l
  /\ Few \in 1 .. Many /\ Many \in Nat /\ MaxRuns \in Nat

VARIABLES
  runs,            \* the database, by run id: [version, place, rows]
  ask, pc, runId,  \* the report: what is asked, where it is, the run it is about
  ranges,          \* [few, many]: run ids
  sections         \* [few, many, all]: for each key the runs that are aggregated

database == <<runs>>
report   == <<ask, runId>>
vars     == <<database, pc, report, ranges, sections>>
-----------------------------------------------------------------------------
Ids == DOMAIN runs
Version(branch, revision) == branch \o revision
\* version LIKE 'start%': reach[n] is how far into the version the first n
\* symbols of the start go.
Matches(start, version) ==
  \E reach \in [0 .. Len(start) -> 0 .. Len(version)] :
    /\ reach[0] = 0
    /\ \A n \in 1 .. Len(start) :
         \/ start[n] = "%" /\ reach[n] >= reach[n - 1]
         \/ start[n] # "%" /\ reach[n] = reach[n - 1] + 1 /\ start[n] \in {"_", version[reach[n]]}
\* name = config, server = server
Like(start, i) == runs[i].place = ask.place /\ Matches(start, runs[i].version)
Newest(S, n)   == {i \in S : Cardinality({j \in S : j > i}) < n}   \* ORDER BY run_id DESC LIMIT n

Init ==
  /\ runs = <<>> /\ ask \in Asks /\ pc = "idle" /\ runId = 0
  /\ ranges = [few |-> {}, many |-> {}] /\ sections = [few |-> <<>>, many |-> <<>>, all |-> <<>>]

Goto(l) == pc' = l
Ended   == {"shown", "exit"}

\* A benchmark logs its run, and then its results; others may log in between.
LogRun ==
  /\ Len(runs) < MaxRuns /\ pc \notin Ended   \* bounds
  /\ UNCHANGED <<pc, report, ranges, sections>>
  /\ \E l \in Logged :
       runs' = Append(runs, [version |-> Version(l.branch, l.revision), place |-> l.place, rows |-> {}])
LogResult ==
  /\ pc \notin Ended /\ UNCHANGED <<pc, report, ranges, sections>>
  /\ \E i \in Ids : \E k \in {x \in Keys : \A l \in runs[i].rows :
                   IF ask.report = "sqlbench" THEN x.name # l.name ELSE x # l} :   \* the primary key
       runs' = [runs EXCEPT ![i].rows = @ \cup {k}]
-----------------------------------------------------------------------------
\* getLastRunId.  It returns False, a zero, if there is none; the caller looks
\* for None, and goes on.
LastRun ==
  LET found == {i \in Ids : Like(Version(ask.branch, ask.revision), i)} IN
  IF found = {} THEN 0 ELSE CHOOSE i \in Newest(found, 1) : TRUE
FindRun ==
  /\ pc = "idle" /\ ~ask.mailed /\ runId' = LastRun
  /\ Goto("ranges") /\ UNCHANGED <<database, ask, ranges, sections>>
\* --with-email-report: a benchmark that has logged its run reports on it.
OwnRun ==
  /\ pc = "idle" /\ ask.mailed
  /\ \E i \in Ids :
       runs[i].version = Version(ask.branch, ask.revision) /\ runs[i].place = ask.place /\ runId' = i
  /\ Goto("ranges") /\ UNCHANGED <<database, ask, ranges, sections>>

ComparedWith ==
  IF ask.report = "sysbench" /\ ask.mailed /\ ask.branch # Staging THEN Staging ELSE ask.branch

RangesOver(S) == ranges' = [few |-> Newest(Newest(S, Many), Few), many |-> Newest(S, Many)]
LastRanges ==   \* a mutant of Ranges: the last runs there are
  /\ pc = "ranges" /\ RangesOver({i \in Ids : Like(ComparedWith, i)})
  /\ Goto("few") /\ UNCHANGED <<database, report, sections>>
Ranges ==
  /\ pc = "ranges" /\ RangesOver({i \in Ids : Like(ComparedWith, i) /\ i <= runId})
  /\ Goto("few") /\ UNCHANGED <<database, report, sections>>

\* The results of the run, each joined with an aggregate over the runs of the
\* range: of the same key, or, in sqlbench and drizzleslap, of any level that
\* the name has, whichever the database picks.
Rows(i) == IF i \in Ids THEN runs[i].rows ELSE {}
SameKey  == {<<k, k>> : k \in Keys}
SameName == {p \in Keys \X Keys : p[1].name = p[2].name}
Over(ids, l)   == {i \in ids : l \in Rows(i)}
Joined(on, ids) ==
  LET aggregates(k) == {Over(ids, l) : l \in {x \in Keys : <<k, x>> \in on}} \ {{}}
      shown == {k \in Rows(runId) : aggregates(k) # {}}
  IN {s \in [shown -> SUBSET ids] : \A k \in shown : s[k] \in aggregates(k)}
SysbenchSection(ids)    == Joined(SameKey, ids)
Dbt2Section(ids)        == Joined(SameKey, ids)
SqlbenchSection(ids)    == Joined(SameName, ids)
DrizzleslapSection(ids) == Joined(SameName, ids)
Section(ids) == CASE ask.report = "sysbench"    -> SysbenchSection(ids)
                  [] ask.report = "dbt2"        -> Dbt2Section(ids)
                  [] ask.report = "sqlbench"    -> SqlbenchSection(ids)
                  [] ask.report = "drizzleslap" -> DrizzleslapSection(ids)
\* (Aggregates whose average is 0 are left out by sqlbench, as if there were none.)
\* Over all runs sqlbench aggregates by name.
SqlbenchAll(ids) ==
  LET over(k) == {i \in ids : \E l \in Rows(i) : <<k, l>> \in SameName}
  IN {[k \in {x \in Rows(runId) : over(x) # {}} |-> over(k)]}
AllSection(ids) == IF ask.report = "sqlbench" THEN SqlbenchAll(ids) ELSE Section(ids)

\* Nothing is asked of the database for an empty range, but by drizzleslap: the
\* empty list is an error of syntax.
Query(which, then) ==
  /\ pc = which /\ UNCHANGED <<database, report, ranges>>
  /\ \/ ranges[which] # {} /\ Goto(then)
        /\ \E s \in Section(ranges[which]) : sections' = [sections EXCEPT ![which] = s]
     \/ ranges[which] = {} /\ ask.report # "drizzleslap" /\ Goto(then) /\ UNCHANGED sections
     \/ ranges[which] = {} /\ ask.report = "drizzleslap" /\ Goto("exit") /\ UNCHANGED sections
QueryFew  == Query("few", "many")
QueryMany == Query("many", "all")
QueryAll ==
  /\ pc = "all" /\ Goto("show") /\ UNCHANGED <<database, report, ranges>>
  /\ \/ (ranges.many # {} \/ ask.report = "sysbench")
        /\ \E s \in AllSection({i \in Ids : Like(ComparedWith, i)}) :
             sections' = [sections EXCEPT !.all = s]
     \/ ranges.many = {} /\ ask.report # "sysbench" /\ UNCHANGED sections

Show == pc = "show" /\ Goto("shown") /\ UNCHANGED <<database, report, ranges, sections>>
\* An SQL error, no recipients in the configuration, no mail server.
Fail == pc \notin Ended \cup {"idle"} /\ Goto("exit") /\ UNCHANGED <<database, report, ranges, sections>>

Next == \/ LogRun \/ LogResult \/ FindRun \/ OwnRun \/ Ranges \/ QueryFew \/ QueryMany \/ QueryAll
        \/ Show \/ Fail
Spec == Init /\ [][Next]_vars
-----------------------------------------------------------------------------
\* The sections of a report that is shown widen: what is compared with the last
\* few runs is also compared with the last many and with all, whatever has been
\* logged in between; in a report over its own branch the run is among the few,
\* so that its figures lie between the least and the greatest.
OneLevel(k) == ask.report \in {"sysbench", "dbt2"} \/
               \A i \in Ids : \A l \in Rows(i) : <<k, l>> \in SameName => k = l
Trends == pc = "shown" => \A k \in DOMAIN sections.few : OneLevel(k) =>
  /\ Cardinality(sections.few[k]) <= Few
  /\ sections.few[k] \subseteq sections.many[k] /\ sections.many[k] \subseteq sections.all[k]
  /\ ComparedWith = ask.branch => runId \in sections.few[k]
=============================================================================
