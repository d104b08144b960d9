------------------------- MODULE AutomationProofs --------------------------
(***************************************************************************)
(* Proofs about two parts of drizzle-automation.  First Reports, for any   *)
(* number of runs, any branches, revisions and keys, and any Few and Many: *)
(* what is logged while a report is made only adds to the database, and    *)
(* the invariant says what each query has left in a form that what is      *)
(* added later does not change.  Then Commands, for any jobs and any       *)
(* number of sessions: the invariant says what each place in a script has  *)
(* done to the servers, the result files and the rows.                     *)
(***************************************************************************)
EXTENDS Reports, Commands, FiniteSetTheorems, SequenceTheorems, TLAPS

(* Least and greatest elements, and the newest n of some runs.             *)
LEMMA Least ==
  ASSUME NEW S \in SUBSET Nat, S # {}
  PROVE  \E m \in S : \A n \in S : m <= n
  <1>1. \E m \in S : \A n \in S : ~ (<<n, m>> \in OpToRel(<, Nat))
    BY NatLessThanWellFounded, WFMin
  <1>2. \A m, n \in S : ~ (<<n, m>> \in OpToRel(<, Nat)) => m <= n
    BY DEF OpToRel
  <1> QED
    BY <1>1, <1>2

LEMMA Greatest ==
  ASSUME NEW N \in Nat, NEW S \in SUBSET (1 .. N), S # {}
  PROVE  \E m \in S : \A n \in S : n <= m
  <1> DEFINE T == {N - n : n \in S}
  <1>1. T \in SUBSET Nat /\ T # {}
    <2>1. \A n \in S : N - n \in Nat
      OBVIOUS
    <2> QED
      BY <2>1
  <1>2. PICK k \in T : \A l \in T : k <= l
    BY <1>1, Least
  <1>3. PICK m \in S : k = N - m
    BY <1>2
  <1>4. \A n \in S : N - m <= N - n
    BY <1>2, <1>3
  <1>5. \A n \in S : n <= m
    BY <1>4
  <1> QED
    BY <1>5

LEMMA NewestAreFew ==
  ASSUME NEW N \in Nat, NEW S \in SUBSET (1 .. N), NEW n \in Nat
  PROVE  /\ Newest(S, n) \subseteq S
         /\ IsFiniteSet(Newest(S, n)) /\ Cardinality(Newest(S, n)) <= n
  <1> DEFINE New == Newest(S, n)
  <1>1. New \subseteq S
    BY DEF Newest
  <1> HIDE DEF New
  <1>5. New \in SUBSET Nat
    <2>1. \A k \in S : k \in Nat
      OBVIOUS
    <2> QED
      BY <1>1, <2>1
  <1>2. IsFiniteSet(S) /\ IsFiniteSet(New)
    <2>1. IsFiniteSet(1 .. N)
      BY FS_Interval
    <2> QED
      BY <1>1, <2>1, FS_Subset
  <1>3. CASE New = {}
    BY <1>1, <1>2, <1>3, FS_EmptySet DEF New
  <1>4. CASE New # {}
    <2>1. PICK m \in New : \A k \in New : m <= k
      BY <1>4, <1>5, Least
    <2> DEFINE Later == {j \in S : j > m}
    <2>2. IsFiniteSet(Later) /\ Cardinality(Later) \in Nat /\ Cardinality(Later) < n
      <3>1. IsFiniteSet(Later)
        BY <1>2, FS_Subset
      <3>2. Cardinality(Later) < n
        BY <2>1 DEF New, Newest
      <3> QED
        BY <3>1, <3>2, FS_CardinalityType
    <2>3. New \ {m} \subseteq Later
      BY <1>1, <1>5, <2>1
    <2>4. Cardinality(New \ {m}) <= Cardinality(Later)
      BY <2>2, <2>3, FS_Subset
    <2>5. Cardinality(New \ {m}) = Cardinality(New) - 1 /\ Cardinality(New) \in Nat
      BY <1>2, <2>1, FS_RemoveElement, FS_CardinalityType
    <2> HIDE DEF Later
    <2>6. Cardinality(New) <= n
      BY <2>2, <2>4, <2>5
    <2> QED
      BY <1>1, <1>2, <2>6 DEF New
  <1> QED
    BY <1>3, <1>4

LEMMA LastIsNewest ==
  ASSUME NEW N \in Nat, NEW S \in SUBSET (1 .. N), NEW m \in S, \A j \in S : j <= m,
         NEW n \in Nat \ {0}
  PROVE  m \in Newest(S, n)
  <1>1. {j \in S : j > m} = {}
    <2>1. \A j \in S : j \in Nat
      OBVIOUS
    <2>2. \A j \in S : ~(j > m)
      BY <2>1
    <2> QED
      BY <2>2
  <1> QED
    BY <1>1, FS_EmptySet DEF Newest

LEMMA NewestOne ==
  ASSUME NEW N \in Nat, NEW S \in SUBSET (1 .. N), NEW m \in Newest(S, 1)
  PROVE  m \in S /\ \A j \in S : j <= m
  <1> DEFINE Later == {j \in S : j > m}
  <1>1. m \in S /\ Cardinality(Later) < 1
    BY DEF Newest
  <1>2. IsFiniteSet(Later)
    <2>1. IsFiniteSet(1 .. N)
      BY FS_Interval
    <2> QED
      BY <2>1, FS_Subset
  <1>3. Cardinality(Later) = 0
    BY <1>1, <1>2, FS_CardinalityType
  <1>4. Later = {}
    BY <1>2, <1>3, FS_EmptySet
  <1>5. \A j \in S : j \in Nat
    OBVIOUS
  <1> QED
    BY <1>1, <1>4, <1>5
-----------------------------------------------------------------------------
(* LIKE.                                                                   *)
LEMMA MatchesItself == \A v \in Seq(Symbols) : Matches(v, v)
  <1>1. SUFFICES ASSUME NEW v \in Seq(Symbols) PROVE Matches(v, v)
    OBVIOUS
  <1> DEFINE N == Len(v)
             reach == [n \in 0 .. N |-> n]
  <1>2. N \in Nat
    BY LenProperties
  <1> HIDE DEF N
  <1>3. reach \in [0 .. N -> 0 .. N] /\ reach[0] = 0
    BY <1>2
  <1>4. \A n \in 1 .. N : reach[n] = n /\ reach[n - 1] = n - 1 /\ n >= n - 1 /\ n = n - 1 + 1
    BY <1>2
  <1> HIDE DEF reach
  <1>5. \A n \in 1 .. N :
          \/ v[n] = "%" /\ reach[n] >= reach[n - 1]
          \/ v[n] # "%" /\ reach[n] = reach[n - 1] + 1 /\ v[n] \in {"_", v[reach[n]]}
    BY <1>4
  <1> QED
    BY <1>3, <1>5 DEF Matches, N

LEMMA MatchesConcat ==
  ASSUME NEW b \in Seq(Symbols), NEW r \in Seq(Symbols), NEW v \in Seq(Symbols),
         Matches(b \o r, v)
  PROVE  Matches(b, v)
  <1> DEFINE c == b \o r
             B == Len(b)
             C == Len(c)
             V == Len(v)
  <1>1. B \in Nat /\ C \in Nat /\ B <= C /\ V \in Nat /\ \A n \in 1 .. B : c[n] = b[n]
    BY ConcatProperties, LenProperties
  <1>2. PICK reach \in [0 .. C -> 0 .. V] :
          /\ reach[0] = 0
          /\ \A n \in 1 .. C :
               \/ c[n] = "%" /\ reach[n] >= reach[n - 1]
               \/ c[n] # "%" /\ reach[n] = reach[n - 1] + 1 /\ c[n] \in {"_", v[reach[n]]}
    BY DEF Matches
  <1> HIDE DEF c, B, C, V
  <1> DEFINE begin == [n \in 0 .. B |-> reach[n]]
  <1>3. begin \in [0 .. B -> 0 .. V] /\ begin[0] = 0
    <2>1. 0 \in 0 .. B /\ \A n \in 0 .. B : n \in 0 .. C
      BY <1>1
    <2> QED
      BY <1>2, <2>1
  <1>4. \A n \in 1 .. B :
          n \in 1 .. C /\ begin[n] = reach[n] /\ begin[n - 1] = reach[n - 1] /\ c[n] = b[n]
    BY <1>1
  <1> HIDE DEF begin
  <1>5. \A n \in 1 .. B :
          \/ b[n] = "%" /\ begin[n] >= begin[n - 1]
          \/ b[n] # "%" /\ begin[n] = begin[n - 1] + 1 /\ b[n] \in {"_", v[begin[n]]}
    BY <1>2, <1>4
  <1> QED
    BY <1>3, <1>5 DEF Matches, B, V
-----------------------------------------------------------------------------
(* The invariant.                                                          *)
Run   == [version : Seq(Symbols), place : {l.place : l \in Logged}, rows : SUBSET Keys]
Typed ==
  /\ runs \in Seq(Run) /\ ask \in Asks /\ runId \in Nat
  /\ pc \in {"idle", "ranges", "few", "many", "all", "show"} \cup Ended
  /\ DOMAIN ranges = {"few", "many"} /\ DOMAIN sections = {"few", "many", "all"}

\* The run that was found stays like what was asked.
Found == pc # "idle" /\ runId # 0 =>
  runId \in Ids /\ Like(Version(ask.branch, ask.revision), runId)

\* The points after the ranges, the last few, the last many and all runs.
AfterAll    == {"show", "shown"}
AfterMany   == {"all"} \cup AfterAll
AfterFew    == {"many"} \cup AfterMany
AfterRanges == {"few"} \cup AfterFew

Ranged == pc \in AfterRanges =>
  /\ ranges.few \subseteq ranges.many
  /\ ranges.many \subseteq {i \in Ids : Like(ComparedWith, i)}
  /\ IsFiniteSet(ranges.few) /\ Cardinality(ranges.few) <= Few
  /\ ComparedWith = ask.branch /\ runId # 0 => runId \in ranges.few

\* What a section has for a key of one level is of that key, and was there.
NoFew  == pc \in {"idle", "ranges", "few"} => sections.few = <<>>
FewDrawn == pc \in AfterFew => \A k \in DOMAIN sections.few : OneLevel(k) =>
  /\ k \in Rows(runId) /\ sections.few[k] # {}
  /\ sections.few[k] \subseteq {i \in ranges.few : k \in Rows(i)}
  /\ runId \in ranges.few => runId \in sections.few[k]
ManyDrawn == pc \in AfterMany => \A k \in DOMAIN sections.few : OneLevel(k) =>
  /\ sections.few[k] \subseteq sections.many[k]
  /\ sections.many[k] \subseteq {i \in ranges.many : k \in Rows(i)}
AllDrawn == pc \in AfterAll => \A k \in DOMAIN sections.few : OneLevel(k) =>
  sections.many[k] \subseteq sections.all[k]

Sections == NoFew /\ FewDrawn /\ ManyDrawn /\ AllDrawn
IInv == Typed /\ Found /\ Ranged /\ Sections
-----------------------------------------------------------------------------
LEMMA AskTypes ==
  ASSUME Typed
  PROVE  /\ ask.branch \in Seq(Symbols) /\ ask.revision \in Seq(Symbols)
         /\ Version(ask.branch, ask.revision) \in Seq(Symbols)
         /\ ComparedWith \in Seq(Symbols) /\ ask.report \in KindsOfReport
  <1>1. PICK l \in Logged :
          [branch |-> ask.branch, revision |-> ask.revision, place |-> ask.place] = l
    BY ReportsAssumption DEF Typed
  <1>2. ask.branch \in Seq(Symbols) /\ ask.revision \in Seq(Symbols)
    BY <1>1, ReportsAssumption
  <1>3. ask.report \in KindsOfReport
    BY ReportsAssumption DEF Typed
  <1>4. Staging \in Seq(Symbols)
    BY ReportsAssumption
  <1> QED
    BY <1>2, <1>3, <1>4, ConcatProperties DEF Version, ComparedWith

LEMMA RunTypes ==
  ASSUME Typed
  PROVE  /\ Ids = 1 .. Len(runs) /\ Len(runs) \in Nat
         /\ \A i \in Ids : runs[i] \in Run /\ Rows(i) \subseteq Keys
         /\ \A i : Rows(i) # {} => i \in Ids
  <1>1. Ids = 1 .. Len(runs) /\ Len(runs) \in Nat
    BY LenProperties DEF Typed, Ids
  <1>2. \A i \in Ids : runs[i] \in Run
    BY <1>1, ElementOfSeq DEF Typed
  <1> QED
    BY <1>1, <1>2 DEF Rows, Run

(* What is logged only adds to the database.                               *)
Grown ==
  /\ Ids \subseteq Ids' /\ Len(runs) <= Len(runs')
  /\ \A i \in Ids : /\ runs'[i].version = runs[i].version /\ runs'[i].place = runs[i].place
                    /\ Rows(i) \subseteq Rows(i)'

LEMMA LoggedRunIsRun ==
  ASSUME NEW l \in Logged
  PROVE  [version |-> Version(l.branch, l.revision), place |-> l.place, rows |-> {}] \in Run
  <1>1. Version(l.branch, l.revision) \in Seq(Symbols)
    BY ReportsAssumption, ConcatProperties DEF Version
  <1> QED
    BY <1>1 DEF Run

LEMMA LogRunGrows ==
  ASSUME Typed, LogRun
  PROVE  Grown /\ runs' \in Seq(Run)
  <1>1. PICK l \in Logged :
          runs' = Append(runs, [version |-> Version(l.branch, l.revision), place |-> l.place,
                                rows |-> {}])
    BY DEF LogRun
  <1> DEFINE r == [version |-> Version(l.branch, l.revision), place |-> l.place, rows |-> {}]
  <1>2. r \in Run
    BY LoggedRunIsRun
  <1> HIDE DEF r
  <1>3. runs \in Seq(Run) /\ Len(runs) \in Nat /\ Ids = 1 .. Len(runs)
    BY RunTypes DEF Typed
  <1>4. /\ runs' \in Seq(Run) /\ Len(runs') = Len(runs) + 1
        /\ \A i \in 1 .. Len(runs) : runs'[i] = runs[i]
    BY <1>1, <1>2, <1>3 DEF r
  <1>5. Ids' = 1 .. Len(runs) + 1
    BY <1>4, LenProperties DEF Ids
  <1>6. Ids \subseteq Ids'
    BY <1>3, <1>5
  <1>7. \A i \in Ids : Rows(i)' = Rows(i)
    BY <1>3, <1>4, <1>6 DEF Rows
  <1> QED
    BY <1>3, <1>4, <1>6, <1>7 DEF Grown

LEMMA LogResultGrows ==
  ASSUME Typed, LogResult
  PROVE  Grown /\ runs' \in Seq(Run)
  <1> DEFINE n == Len(runs)
  <1>1. PICK i \in Ids, k \in Keys : runs' = [runs EXCEPT ![i].rows = @ \cup {k}]
    BY DEF LogResult
  <1>2. runs \in Seq(Run) /\ n \in Nat /\ Ids = 1 .. n /\ \A j \in Ids : runs[j] \in Run
    BY RunTypes DEF Typed
  <1> DEFINE r == [runs[i] EXCEPT !.rows = @ \cup {k}]
  <1>4. r \in Run /\ r.version = runs[i].version /\ r.place = runs[i].place /\ runs[i].rows \subseteq r.rows
    BY <1>2 DEF Run
  <1>5. runs' = [runs EXCEPT ![i] = r]
    BY <1>1, <1>2
  <1> HIDE DEF r, n
  <1>6. /\ runs' \in Seq(Run) /\ Len(runs') = n /\ n = Len(runs)
        /\ \A j \in 1 .. n : runs'[j] = IF j = i THEN r ELSE runs[j]
    BY <1>2, <1>4, <1>5, ExceptSeq DEF n
  <1>7. Ids' = Ids
    BY <1>2, <1>6, LenProperties DEF Ids
  <1>8. \A j \in Ids : Rows(j) \subseteq Rows(j)'
    BY <1>2, <1>4, <1>6, <1>7 DEF Rows
  <1> QED
    BY <1>2, <1>4, <1>6, <1>7, <1>8 DEF Grown

LEMMA OneLevelEarlier ==
  ASSUME Typed, Grown, ask' = ask, NEW k, OneLevel(k)'
  PROVE  OneLevel(k)
  <1>1. CASE ask.report \in {"sysbench", "dbt2"}
    BY <1>1 DEF OneLevel
  <1>2. CASE ask.report \notin {"sysbench", "dbt2"}
    <2>1. \A i \in Ids' : \A l \in Rows(i)' : <<k, l>> \in SameName => k = l
      BY <1>2 DEF OneLevel
    <2> QED
      BY <2>1 DEF OneLevel, Grown
  <1> QED
    BY <1>1, <1>2

LEMMA LoggingKeeps ==
  ASSUME IInv, Grown, runs' \in Seq(Run), UNCHANGED <<pc, report, ranges, sections>>
  PROVE  IInv'
  <1> USE DEF IInv
  <1>1. /\ pc' = pc /\ ask' = ask /\ runId' = runId
        /\ ranges' = ranges /\ sections' = sections
    BY DEF report
  <1>2. Ids = 1 .. Len(runs) /\ Len(runs) \in Nat
    BY RunTypes DEF Typed
  <1>3. Len(runs') \in Nat /\ Len(runs) <= Len(runs')
    BY LenProperties DEF Grown
  <1>4. Typed'
    BY <1>1, <1>2, <1>3 DEF Typed
  <1>5. \A i \in Ids :
          i \in Ids' /\ runs'[i].version = runs[i].version /\ runs'[i].place = runs[i].place
    BY <1>2 DEF Grown
  <1>6. Version(ask.branch, ask.revision)' = Version(ask.branch, ask.revision) /\ ComparedWith' = ComparedWith
    BY <1>1 DEF Version, ComparedWith
  <1>7. Found'
    BY <1>1, <1>2, <1>5, <1>6 DEF Found, Like
  <1>9. Ranged'
    <2>1. \A i \in Ids : i \in Ids' /\ (Like(ComparedWith, i) => Like(ComparedWith, i)')
      BY <1>1, <1>6 DEF Grown, Like
    <2> QED
      BY <1>1, <1>6, <2>1 DEF Ranged
  <1>10. \A k : OneLevel(k)' => OneLevel(k)
    BY <1>1, OneLevelEarlier
  <1>11. \A i : Rows(i) \subseteq Rows(i)'
    BY RunTypes DEF Grown
  <1>12. Sections'
    <2>1. NoFew'
      BY <1>1 DEF NoFew, Sections
    <2>2. FewDrawn'
      BY <1>1, <1>10, <1>11 DEF FewDrawn, Sections
    <2>3. ManyDrawn'
      BY <1>1, <1>10, <1>11 DEF ManyDrawn, Sections
    <2>4. AllDrawn'
      BY <1>1, <1>10 DEF AllDrawn, Sections
    <2> QED
      BY <2>1, <2>2, <2>3, <2>4 DEF Sections
  <1> QED
    BY <1>4, <1>7, <1>9, <1>12
-----------------------------------------------------------------------------
(* The run of the report.                                                  *)
LEMMA FindRunIsRight == ASSUME IInv, FindRun PROVE IInv'
  <1> USE DEF IInv
  <1> DEFINE v == Version(ask.branch, ask.revision)
             found == {i \in Ids : Like(v, i)}
  <1>1. /\ pc = "idle" /\ pc' = "ranges" /\ runId' = LastRun
        /\ runs' = runs /\ ask' = ask /\ ranges' = ranges /\ sections' = sections
    BY DEF FindRun, Goto, database
  <1>2. Ids = 1 .. Len(runs) /\ Len(runs) \in Nat /\ found \in SUBSET (1 .. Len(runs))
    BY RunTypes
  <1>9. LastRun = IF found = {} THEN 0 ELSE CHOOSE i \in Newest(found, 1) : TRUE
    BY DEF LastRun
  <1>10. \A j \in found : j \in 1 .. Len(runs)
    BY <1>2
  <1> HIDE DEF found
  <1>3. \/ LastRun = 0 /\ found = {}
        \/ LastRun \in found /\ \A j \in found : j <= LastRun
    <2>1. CASE found = {}
      BY <1>9, <2>1
    <2>2. CASE found # {}
      <3>1. PICK m \in found : \A j \in found : j <= m
        BY <1>2, <2>2, Greatest
      <3>2. m \in Newest(found, 1)
        <4>1. 1 \in Nat \ {0}
          OBVIOUS
        <4> QED
          BY <1>2, <3>1, <4>1, LastIsNewest, Zenon
      <3>3. LastRun \in Newest(found, 1)
        BY <1>9, <2>2, <3>2
      <3> QED
        BY <1>2, <3>3, NewestOne
    <2> QED
      BY <2>1, <2>2
  <1>4. LastRun \in 0 .. Len(runs) /\ \A j \in found : j # 0
    <2>1. Len(runs) \in Nat
      BY <1>2
    <2>2. \A j \in found : j \in 0 .. Len(runs) /\ j # 0
      BY <1>10, <2>1
    <2>3. 0 \in 0 .. Len(runs)
      BY <2>1
    <2> QED
      BY <1>3, <2>2, <2>3
  <1>5. Typed'
    BY <1>1, <1>2, <1>4 DEF Typed
  <1>6. Found'
    BY <1>1, <1>3, <1>4 DEF Found, Like, Version, Ids, found
  <1>8. Ranged' /\ Sections'
    BY <1>1 DEF Ranged, Sections, NoFew, FewDrawn, ManyDrawn, AllDrawn, AfterRanges, AfterFew,
      AfterMany, AfterAll
  <1> QED
    BY <1>5, <1>6, <1>8

LEMMA OwnRunIsRight == ASSUME IInv, OwnRun PROVE IInv'
  <1> USE DEF IInv
  <1>1. /\ pc = "idle" /\ pc' = "ranges"
        /\ runs' = runs /\ ask' = ask /\ ranges' = ranges /\ sections' = sections
    BY DEF OwnRun, Goto, database
  <1>2. /\ runId' \in Ids /\ runs[runId'].place = ask.place
        /\ runs[runId'].version = Version(ask.branch, ask.revision)
    BY DEF OwnRun
  <1>3. Ids = 1 .. Len(runs) /\ Len(runs) \in Nat
    BY RunTypes
  <1>4. Like(Version(ask.branch, ask.revision), runId')
    BY <1>2, AskTypes, MatchesItself DEF Like
  <1>5. Typed'
    BY <1>1, <1>2, <1>3 DEF Typed
  <1>6. Found'
    BY <1>1, <1>2, <1>4 DEF Found, Like, Version, Ids
  <1>8. Ranged' /\ Sections'
    BY <1>1 DEF Ranged, Sections, NoFew, FewDrawn, ManyDrawn, AllDrawn, AfterRanges, AfterFew,
      AfterMany, AfterAll
  <1> QED
    BY <1>5, <1>6, <1>8
-----------------------------------------------------------------------------
(* The ranges.                                                             *)
LEMMA RangesIsRight == ASSUME IInv, Ranges PROVE IInv'
  <1> USE DEF IInv
  <1> DEFINE S == {i \in Ids : Like(ComparedWith, i) /\ i <= runId}
             M == Newest(S, Many)
             F == Newest(M, Few)
  <1>1. /\ pc = "ranges" /\ pc' = "few" /\ ranges' = [few |-> F, many |-> M]
        /\ runs' = runs /\ ask' = ask /\ runId' = runId /\ sections' = sections
    BY DEF Ranges, RangesOver, Goto, database, report
  <1>2. Ids = 1 .. Len(runs) /\ Len(runs) \in Nat
    BY RunTypes
  <1>3. S \in SUBSET (1 .. Len(runs)) /\ S \subseteq {i \in Ids : Like(ComparedWith, i)}
    BY <1>2
  <1>4. Few \in Nat \ {0} /\ Many \in Nat \ {0}
    BY ReportsAssumption
  <1> HIDE DEF S
  <1>5. M \subseteq S /\ M \in SUBSET (1 .. Len(runs))
    BY <1>2, <1>3, <1>4, NewestAreFew
  <1> HIDE DEF M
  <1>6. F \subseteq M /\ IsFiniteSet(F) /\ Cardinality(F) <= Few
    BY <1>2, <1>4, <1>5, NewestAreFew
  <1>7. ASSUME ComparedWith = ask.branch, runId # 0
        PROVE  runId \in F
    <2>1. runId \in Ids /\ Like(Version(ask.branch, ask.revision), runId)
      BY <1>1, <1>2, <1>7 DEF Found, Typed
    <2>2. Like(ask.branch, runId)
      <3>1. runs[runId].version \in Seq(Symbols)
        BY <2>1, RunTypes DEF Run
      <3> QED
        BY <2>1, <3>1, AskTypes, MatchesConcat DEF Like, Version
    <2>3. runId \in S /\ \A j \in S : j <= runId
      BY <1>2, <1>7, <2>1, <2>2 DEF S
    <2>4. runId \in M
      BY <1>2, <1>3, <1>4, <2>3, LastIsNewest DEF M
    <2>5. \A j \in M : j <= runId
      BY <1>5, <2>3
    <2> QED
      BY <1>2, <1>4, <1>5, <2>4, <2>5, LastIsNewest
  <1> HIDE DEF F
  <1>8. Typed'
    BY <1>1 DEF Typed
  <1>9. Found'
    BY <1>1 DEF Found, Like, Version, Ids
  <1>10. Ranged'
    <2>1. /\ (ComparedWith = ask.branch /\ runId # 0)' <=> (ComparedWith = ask.branch /\ runId # 0)
          /\ {i \in Ids : Like(ComparedWith, i)}' = {i \in Ids : Like(ComparedWith, i)}
      BY <1>1 DEF ComparedWith, Like, Ids
    <2>2. ranges'.few = F /\ ranges'.many = M
      BY <1>1
    <2>3. M \subseteq {i \in Ids : Like(ComparedWith, i)}
      BY <1>3, <1>5
    <2> QED
      <3>1. runId' = runId
        BY <1>1
      <3> QED
        BY <1>6, <1>7, <2>1, <2>2, <2>3, <3>1 DEF Ranged
  <1>11. Sections'
    BY <1>1 DEF Sections, NoFew, FewDrawn, ManyDrawn, AllDrawn, AfterFew, AfterMany, AfterAll
  <1> QED
    BY <1>8, <1>9, <1>10, <1>11
-----------------------------------------------------------------------------
(* What a query returns for a key of one level, and for which it does.     *)
LEMMA JoinedByOne ==
  ASSUME Typed, NEW on, NEW ids \in SUBSET Ids, NEW s \in Joined(on, ids), NEW k,
         OneLevel(k), \A l \in Keys : <<k, l>> \in on => <<k, l>> \in SameName,
         ask.report \in {"sysbench", "dbt2"} => \A l \in Keys : <<k, l>> \in on => l = k
  PROVE  /\ k \in DOMAIN s => k \in Rows(runId) /\ s[k] = Over(ids, k) /\ s[k] # {}
         /\ k \in Rows(runId) /\ <<k, k>> \in on /\ Over(ids, k) # {} => k \in DOMAIN s
  <1> DEFINE aggregates(x) == {Over(ids, l) : l \in {y \in Keys : <<x, y>> \in on}} \ {{}}
             shown == {x \in Rows(runId) : aggregates(x) # {}}
  <1>1. s \in {t \in [shown -> SUBSET ids] : \A x \in shown : t[x] \in aggregates(x)}
    BY DEF Joined
  <1>2. DOMAIN s = shown /\ \A x \in shown : s[x] \in aggregates(x)
    BY <1>1
  <1>3. ASSUME k \in DOMAIN s
        PROVE  k \in Rows(runId) /\ s[k] = Over(ids, k) /\ s[k] # {}
    <2>1. k \in Rows(runId) /\ s[k] \in aggregates(k)
      BY <1>2, <1>3
    <2>2. PICK l \in Keys : <<k, l>> \in on /\ s[k] = Over(ids, l) /\ Over(ids, l) # {}
      BY <2>1
    <2>3. PICK i \in Ids : l \in Rows(i)
      BY <2>2 DEF Over
    <2>4. l = k
      BY <2>2, <2>3 DEF OneLevel
    <2> QED
      BY <2>1, <2>2, <2>4
  <1>4. ASSUME k \in Rows(runId), <<k, k>> \in on, Over(ids, k) # {}
        PROVE  k \in DOMAIN s
    <2>1. k \in Keys
      BY <1>4, RunTypes
    <2>2. Over(ids, k) \in aggregates(k)
      BY <1>4, <2>1
    <2> QED
      BY <1>2, <1>4, <2>2
  <1> QED
    BY <1>3, <1>4

LEMMA SectionByOne ==
  ASSUME Typed, NEW ids \in SUBSET Ids, NEW s \in Section(ids), NEW k, OneLevel(k)
  PROVE  /\ k \in DOMAIN s => k \in Rows(runId) /\ s[k] = Over(ids, k) /\ s[k] # {}
         /\ k \in Rows(runId) /\ Over(ids, k) # {} => k \in DOMAIN s
  <1>1. k \in Rows(runId) => k \in Keys
    BY RunTypes
  <1>2. \A x, l : <<x, l>> \in SameKey <=> x \in Keys /\ l = x
    BY DEF SameKey
  <1>3. \A x, l : <<x, l>> \in SameName <=> x \in Keys /\ l \in Keys /\ x.name = l.name
    BY DEF SameName
  <1>4. CASE s \in Joined(SameKey, ids)
    <2>1. /\ \A l \in Keys : <<k, l>> \in SameKey => <<k, l>> \in SameName
          /\ \A l \in Keys : <<k, l>> \in SameKey => l = k
      BY <1>2, <1>3
    <2>2. k \in Rows(runId) => <<k, k>> \in SameKey
      BY <1>1, <1>2
    <2>3. /\ k \in DOMAIN s => k \in Rows(runId) /\ s[k] = Over(ids, k) /\ s[k] # {}
          /\ k \in Rows(runId) /\ <<k, k>> \in SameKey /\ Over(ids, k) # {} => k \in DOMAIN s
      BY <1>4, <2>1, JoinedByOne, Zenon
    <2> QED
      BY <2>2, <2>3
  <1>5. CASE ask.report \notin {"sysbench", "dbt2"} /\ s \in Joined(SameName, ids)
    <2>1. k \in Rows(runId) => <<k, k>> \in SameName
      BY <1>1, <1>3
    <2>2. /\ k \in DOMAIN s => k \in Rows(runId) /\ s[k] = Over(ids, k) /\ s[k] # {}
          /\ k \in Rows(runId) /\ <<k, k>> \in SameName /\ Over(ids, k) # {} => k \in DOMAIN s
      BY <1>5, JoinedByOne, Zenon
    <2> QED
      BY <2>1, <2>2
  <1>6. \/ s \in Joined(SameKey, ids)
        \/ ask.report \notin {"sysbench", "dbt2"} /\ s \in Joined(SameName, ids)
    <2>1. ask.report \in {"sysbench", "sqlbench", "drizzleslap", "dbt2"}
      BY AskTypes DEF KindsOfReport
    <2> QED
      BY <2>1 DEF Section, SysbenchSection, Dbt2Section, SqlbenchSection, DrizzleslapSection
  <1> QED
    BY <1>4, <1>5, <1>6

LEMMA AllByOne ==
  ASSUME Typed, NEW ids \in SUBSET Ids, NEW s \in AllSection(ids), NEW k, OneLevel(k),
         k \in Rows(runId), Over(ids, k) # {}
  PROVE  Over(ids, k) \subseteq s[k]
  <1>1. CASE ask.report # "sqlbench"
    BY <1>1, SectionByOne DEF AllSection
  <1>2. CASE ask.report = "sqlbench"
    <2> DEFINE level(x) == {i \in ids : \E l \in Rows(i) : <<x, l>> \in SameName}
    <2>1. s = [x \in {y \in Rows(runId) : level(y) # {}} |-> level(x)]
      BY <1>2 DEF AllSection, SqlbenchAll
    <2>2. k \in Keys /\ <<k, k>> \in SameName
      BY RunTypes DEF SameName
    <2>3. Over(ids, k) \subseteq level(k)
      BY <2>2 DEF Over
    <2> QED
      BY <2>1, <2>3
  <1> QED
    BY <1>1, <1>2
-----------------------------------------------------------------------------
(* A step of the report that leaves the database and the ranges alone.     *)
LEMMA Unmoved ==
  ASSUME IInv, UNCHANGED <<database, report, ranges>>, pc # "idle",
         pc' \in AfterRanges \cup {"exit"}, pc' \in AfterRanges => pc \in AfterRanges,
         DOMAIN sections' = {"few", "many", "all"}
  PROVE  /\ Typed' /\ Found' /\ Ranged'
         /\ \A k : OneLevel(k)' <=> OneLevel(k)
         /\ \A i : Rows(i)' = Rows(i)
  <1> USE DEF IInv
  <1>1. runs' = runs /\ ask' = ask /\ runId' = runId /\ ranges' = ranges
    BY DEF database, report
  <1>2. Typed'
    BY <1>1 DEF Typed, AfterRanges, AfterFew, AfterMany, AfterAll, Ended
  <1>3. Found'
    BY <1>1 DEF Found, Like, Version, Ids
  <1>5. Ranged'
    BY <1>1 DEF Ranged, ComparedWith, Like, Ids
  <1>6. \A i : Rows(i)' = Rows(i)
    BY <1>1 DEF Rows, Ids
  <1>7. \A k : OneLevel(k)' <=> OneLevel(k)
    BY <1>1, <1>6 DEF OneLevel, Ids
  <1> QED
    BY <1>2, <1>3, <1>5, <1>6, <1>7

LEMMA QueryFewIsRight == ASSUME IInv, QueryFew PROVE IInv'
  <1> USE DEF IInv, AfterRanges, AfterFew, AfterMany, AfterAll
  <1>1. pc = "few" /\ pc' \in {"many", "exit"} /\ UNCHANGED <<database, report, ranges>> /\ ranges' = ranges
    BY DEF QueryFew, Query, Goto
  <1>2. sections.few = <<>>
    BY <1>1 DEF Sections, NoFew
  <1>3. \/ \E s \in Section(ranges.few) : sections' = [sections EXCEPT !.few = s]
        \/ sections' = sections
    BY DEF QueryFew, Query
  <1>4. DOMAIN sections' = {"few", "many", "all"} /\ DOMAIN sections = {"few", "many", "all"}
    BY <1>3 DEF Typed
  <1>5. /\ Typed' /\ Found' /\ Ranged'
        /\ \A k : OneLevel(k)' <=> OneLevel(k)
        /\ \A i : Rows(i)' = Rows(i)
    BY <1>1, <1>4, Unmoved
  <1>6. ranges.few \in SUBSET Ids
    BY <1>1 DEF Ranged
  <1>7. runId' = runId
    BY <1>1 DEF report
  <1>8. FewDrawn'
    <2>1. SUFFICES ASSUME NEW k \in DOMAIN sections'.few, OneLevel(k)
                   PROVE  /\ k \in Rows(runId) /\ sections'.few[k] # {}
                          /\ sections'.few[k] \subseteq {i \in ranges.few : k \in Rows(i)}
                          /\ runId \in ranges.few => runId \in sections'.few[k]
      BY <1>1, <1>5, <1>7 DEF FewDrawn
    <2>2. PICK s \in Section(ranges.few) : sections' = [sections EXCEPT !.few = s]
      BY <1>2, <1>3, <2>1
    <2>3. sections'.few = s
      BY <1>4, <2>2
    <2>4. k \in Rows(runId) /\ s[k] = Over(ranges.few, k) /\ s[k] # {}
      BY <1>6, <2>1, <2>3, SectionByOne
    <2> QED
      BY <2>3, <2>4 DEF Over
  <1>9. NoFew' /\ ManyDrawn' /\ AllDrawn'
    BY <1>1 DEF NoFew, ManyDrawn, AllDrawn
  <1> QED
    BY <1>5, <1>8, <1>9 DEF Sections

LEMMA QueryManyIsRight == ASSUME IInv, QueryMany PROVE IInv'
  <1> USE DEF IInv, AfterRanges, AfterFew, AfterMany, AfterAll
  <1>1. pc = "many" /\ pc' \in {"all", "exit"} /\ UNCHANGED <<database, report, ranges>> /\ ranges' = ranges
    BY DEF QueryMany, Query, Goto
  <1>2. \/ \E s \in Section(ranges.many) : sections' = [sections EXCEPT !.many = s]
        \/ ranges.many = {} /\ sections' = sections
    BY DEF QueryMany, Query
  <1>3. DOMAIN sections' = {"few", "many", "all"} /\ DOMAIN sections = {"few", "many", "all"}
    BY <1>2 DEF Typed
  <1>4. sections'.few = sections.few
    BY <1>2, <1>3
  <1>5. /\ Typed' /\ Found' /\ Ranged'
        /\ \A k : OneLevel(k)' <=> OneLevel(k)
        /\ \A i : Rows(i)' = Rows(i)
    BY <1>1, <1>3, Unmoved
  <1>6. ranges.many \in SUBSET Ids /\ ranges.few \subseteq ranges.many
    BY <1>1 DEF Ranged
  <1>7. runId' = runId
    BY <1>1 DEF report
  <1>8. FewDrawn'
    BY <1>1, <1>4, <1>5, <1>7 DEF FewDrawn, Sections
  <1>9. ManyDrawn'
    <2>1. SUFFICES ASSUME NEW k \in DOMAIN sections.few, OneLevel(k)
                   PROVE  /\ sections.few[k] \subseteq sections'.many[k]
                          /\ sections'.many[k] \subseteq {i \in ranges.many : k \in Rows(i)}
      BY <1>1, <1>4, <1>5 DEF ManyDrawn
    <2>2. /\ k \in Rows(runId) /\ sections.few[k] # {}
          /\ sections.few[k] \subseteq {i \in ranges.few : k \in Rows(i)}
      BY <1>1, <2>1 DEF Sections, FewDrawn
    <2>3. sections.few[k] \subseteq Over(ranges.many, k) /\ Over(ranges.many, k) # {}
      BY <1>6, <2>2 DEF Over
    <2>4. PICK s \in Section(ranges.many) : sections' = [sections EXCEPT !.many = s]
      BY <1>2, <2>3 DEF Over
    <2>5. sections'.many = s
      BY <1>3, <2>4
    <2>6. s[k] = Over(ranges.many, k)
      BY <1>6, <2>1, <2>2, <2>3, SectionByOne
    <2> QED
      BY <2>3, <2>5, <2>6 DEF Over
  <1>10. NoFew' /\ AllDrawn'
    BY <1>1 DEF NoFew, AllDrawn
  <1> QED
    BY <1>5, <1>8, <1>9, <1>10 DEF Sections

LEMMA QueryAllIsRight == ASSUME IInv, QueryAll PROVE IInv'
  <1> USE DEF IInv, AfterRanges, AfterFew, AfterMany, AfterAll
  <1> DEFINE ids == {i \in Ids : Like(ComparedWith, i)}
  <1>1. pc = "all" /\ pc' = "show" /\ UNCHANGED <<database, report, ranges>> /\ ranges' = ranges
    BY DEF QueryAll, Goto
  <1>2. \/ \E s \in AllSection(ids) : sections' = [sections EXCEPT !.all = s]
        \/ ranges.many = {} /\ sections' = sections
    BY DEF QueryAll
  <1>3. DOMAIN sections' = {"few", "many", "all"} /\ DOMAIN sections = {"few", "many", "all"}
    BY <1>2 DEF Typed
  <1>4. sections'.few = sections.few /\ sections'.many = sections.many
    BY <1>2, <1>3
  <1>5. /\ Typed' /\ Found' /\ Ranged'
        /\ \A k : OneLevel(k)' <=> OneLevel(k)
        /\ \A i : Rows(i)' = Rows(i)
    BY <1>1, <1>3, Unmoved
  <1>6. ids \in SUBSET Ids /\ ranges.many \subseteq ids
    BY <1>1 DEF Ranged
  <1> HIDE DEF ids
  <1>7. runId' = runId
    BY <1>1 DEF report
  <1>8. FewDrawn'
    BY <1>1, <1>4, <1>5, <1>7 DEF FewDrawn, Sections
  <1>9. ManyDrawn'
    BY <1>1, <1>4, <1>5 DEF ManyDrawn, Sections
  <1>10. AllDrawn'
    <2>1. SUFFICES ASSUME NEW k \in DOMAIN sections.few, OneLevel(k)
                   PROVE  sections.many[k] \subseteq sections'.all[k]
      BY <1>1, <1>4, <1>5 DEF AllDrawn
    <2>2. /\ k \in Rows(runId) /\ sections.few[k] # {}
          /\ sections.few[k] \subseteq sections.many[k]
          /\ sections.many[k] \subseteq {i \in ranges.many : k \in Rows(i)}
      BY <1>1, <2>1 DEF Sections, FewDrawn, ManyDrawn
    <2>3. sections.many[k] \subseteq Over(ids, k) /\ Over(ids, k) # {} /\ ranges.many # {}
      BY <1>6, <2>2 DEF Over
    <2>4. PICK s \in AllSection(ids) : sections' = [sections EXCEPT !.all = s]
      BY <1>2, <2>3
    <2>5. sections'.all = s
      BY <1>3, <2>4
    <2>6. Over(ids, k) \subseteq s[k]
      BY <1>6, <2>1, <2>2, <2>3, AllByOne
    <2> QED
      BY <2>3, <2>5, <2>6
  <1>11. NoFew'
    BY <1>1 DEF NoFew
  <1> QED
    BY <1>5, <1>8, <1>9, <1>10, <1>11 DEF Sections

LEMMA EndingIsRight == ASSUME IInv, Show \/ Fail PROVE IInv'
  <1> USE DEF IInv, AfterRanges, AfterFew, AfterMany, AfterAll
  <1>1. /\ (pc' = "exit" /\ pc # "idle") \/ (pc = "show" /\ pc' = "shown")
        /\ UNCHANGED <<database, report, ranges>> /\ sections' = sections /\ ranges' = ranges
    BY DEF Show, Fail, Goto
  <1>2. DOMAIN sections' = {"few", "many", "all"}
    BY <1>1 DEF Typed
  <1>3. /\ Typed' /\ Found' /\ Ranged'
        /\ \A k : OneLevel(k)' <=> OneLevel(k)
        /\ \A i : Rows(i)' = Rows(i)
    BY <1>1, <1>2, Unmoved
  <1>4. runId' = runId
    BY <1>1 DEF report
  <1>5. Sections'
    BY <1>1, <1>3, <1>4 DEF Sections, NoFew, FewDrawn, ManyDrawn, AllDrawn
  <1> QED
    BY <1>3, <1>5
-----------------------------------------------------------------------------
LEMMA InitIsRight == Init => IInv
  <1> SUFFICES ASSUME Init PROVE IInv
    OBVIOUS
  <1>1. runs = <<>> /\ Len(runs) = 0 /\ runs \in Seq(Run)
    BY EmptySeq DEF Init
  <1>2. Typed
    BY <1>1 DEF Init, Typed
  <1>3. Sections
    BY DEF Init, Sections, NoFew, FewDrawn, ManyDrawn, AllDrawn, AfterFew, AfterMany, AfterAll
  <1>4. Found /\ Ranged
    BY DEF Init, Found, Ranged, AfterRanges, AfterFew, AfterMany, AfterAll
  <1> QED
    BY <1>2, <1>3, <1>4 DEF IInv

LEMMA StepIsRight == IInv /\ [Next]_vars => IInv'
  <1> SUFFICES ASSUME IInv, [Next]_vars PROVE IInv'
    OBVIOUS
  <1>1. CASE LogRun
    <2>1. Grown /\ runs' \in Seq(Run)
      BY <1>1, LogRunGrows DEF IInv
    <2>2. UNCHANGED <<pc, report, ranges, sections>>
      BY <1>1 DEF LogRun
    <2> QED
      BY <2>1, <2>2, LoggingKeeps
  <1>2. CASE LogResult
    <2>1. Grown /\ runs' \in Seq(Run)
      BY <1>2, LogResultGrows DEF IInv
    <2>2. UNCHANGED <<pc, report, ranges, sections>>
      BY <1>2 DEF LogResult
    <2> QED
      BY <2>1, <2>2, LoggingKeeps
  <1>3. CASE UNCHANGED vars
    <2>1. Grown /\ runs' \in Seq(Run)
      <3>1. runs' = runs /\ Len(runs) \in Nat
        BY <1>3, RunTypes DEF IInv, vars, database
      <3> QED
        BY <3>1 DEF IInv, Typed, Grown, Ids, Rows
    <2>2. UNCHANGED <<pc, report, ranges, sections>>
      BY <1>3 DEF vars
    <2> QED
      BY <2>1, <2>2, LoggingKeeps
  <1>4. CASE FindRun
    BY <1>4, FindRunIsRight
  <1>5. CASE OwnRun
    BY <1>5, OwnRunIsRight
  <1>6. CASE Ranges
    BY <1>6, RangesIsRight
  <1>7. CASE QueryFew
    BY <1>7, QueryFewIsRight
  <1>8. CASE QueryMany
    BY <1>8, QueryManyIsRight
  <1>9. CASE QueryAll
    BY <1>9, QueryAllIsRight
  <1>10. CASE Show \/ Fail
    BY <1>10, EndingIsRight
  <1> QED
    BY <1>1, <1>2, <1>3, <1>4, <1>5, <1>6, <1>7, <1>8, <1>9, <1>10 DEF Next

\* IInv is an invariant, whatever is logged between the queries.
THEOREM Invariance == Spec => []IInv
  BY InitIsRight, StepIsRight, PTL DEF Spec

\* Each section of a shown report is over a part of the runs of the next wider
\* one, and the first over at most Few, the run itself among them, however many
\* runs and results are logged between the queries (reports/).
THEOREM SectionsWiden == Spec => []Trends
  <1>1. IInv => Trends
    <2>1. SUFFICES ASSUME IInv, pc = "shown", NEW k \in DOMAIN sections.few, OneLevel(k)
                   PROVE  /\ Cardinality(sections.few[k]) <= Few
                          /\ sections.few[k] \subseteq sections.many[k]
                          /\ sections.many[k] \subseteq sections.all[k]
                          /\ ComparedWith = ask.branch => runId \in sections.few[k]
      BY DEF Trends
    <2> USE DEF AfterRanges, AfterFew, AfterMany, AfterAll
    <2>2. /\ k \in Rows(runId) /\ sections.few[k] \subseteq ranges.few
          /\ runId \in ranges.few => runId \in sections.few[k]
          /\ sections.few[k] \subseteq sections.many[k] /\ sections.many[k] \subseteq sections.all[k]
      BY <2>1 DEF IInv, Sections, FewDrawn, ManyDrawn, AllDrawn
    <2>3. /\ IsFiniteSet(ranges.few) /\ Cardinality(ranges.few) <= Few
          /\ ComparedWith = ask.branch /\ runId # 0 => runId \in ranges.few
      BY <2>1 DEF IInv, Ranged
    <2>4. runId # 0
      <3>1. runId \in 1 .. Len(runs) /\ Len(runs) \in Nat
        BY <2>1, <2>2, RunTypes DEF IInv
      <3> QED
        BY <3>1
    <2>5. Cardinality(sections.few[k]) <= Few
      <3>1. /\ Cardinality(sections.few[k]) <= Cardinality(ranges.few)
            /\ IsFiniteSet(sections.few[k])
        BY <2>2, <2>3, FS_Subset
      <3>2. Cardinality(sections.few[k]) \in Nat /\ Cardinality(ranges.few) \in Nat /\ Few \in Nat
        BY <2>3, <3>1, FS_CardinalityType, ReportsAssumption
      <3> QED
        BY <2>3, <3>1, <3>2
    <2> QED
      BY <2>2, <2>3, <2>4, <2>5
  <1> QED
    BY <1>1, Invariance, PTL
(***************************************************************************)
(* The sessions of the other commands, for any jobs and any number of      *)
(* sessions.  Where a session is in its script says what it has done to    *)
(* each port: the sets below are the places at which that still holds.     *)
(* Steps that stop all servers tell nothing to a mysqld, so some of it     *)
(* only holds for a drizzled.                                              *)
(***************************************************************************)
(* The directory has been cleared, and no test has used it since.          *)
Cleared(j, p) ==
  CASE j.command = "crashme"     -> 5 .. 6
    [] j.command = "sqlbench"    -> 4 .. 7
    [] j.command = "dbt2"        -> 4 .. 7
    [] j.command = "drizzleslap" -> (5 .. 9) \cup (12 .. 14)
    [] j.command = "randgen"     -> IF p = "validator" THEN (6 .. 11) \cup (18 .. 20)
                                                       ELSE (5 .. 11) \cup (14 .. 20)

(* The server has answered, and has not been started again.                *)
Settled(j, p) ==
  CASE j.command = "drizzleslap" -> (7 .. 11) \cup (14 .. 16)
    [] j.command = "randgen"     -> IF p = "validator" THEN (8 .. 16) \cup (20 .. 22)
                                    ELSE IF j.options.profiler THEN {} ELSE (10 .. 12) \cup (16 .. 20)
    [] OTHER                     -> {}

(* The server has been told to stop, or it has ended.                      *)
Gone(j, p) ==
  CASE j.command = "crashme"     -> 8 .. 8
    [] j.command = "sqlbench"    -> 10 .. 11
    [] j.command = "dbt2"        -> 9 .. 13
    [] j.command = "drizzleslap" -> (11 .. 12) \cup (17 .. 19)
    [] j.command = "randgen"     ->
         IF p = "validator" THEN (17 .. 18) \cup (23 .. 24)
         ELSE (IF j.options.profiler THEN {} ELSE 13 .. 14) \cup (22 .. 24)

(* All servers have been killed but those under the profiler, and none has *)
(* been started since.                                                     *)
Swept(j) == IF j.options.server # "drizzled" THEN {}
            ELSE CASE j.command \in {"sqlbench", "dbt2"} -> 3 .. 3
                   [] j.command = "randgen" -> 4 .. 5
                   [] OTHER -> 4 .. 4

(* Where all servers are stopped, where the tests are (or what is measured *)
(* instead), where failed tests are counted and where results are logged:  *)
(* past the end for a command that logs nothing.                           *)
SweepAt(j)   == IF j.command \in {"sqlbench", "dbt2"} THEN 2 ELSE 3
TestAt(j)    == CASE j.command = "crashme"  -> 6 [] j.command = "sqlbench"    -> 7
                  [] j.command = "dbt2"     -> 9 [] j.command = "drizzleslap" -> 9
                  [] j.command = "randgen"  -> 11 [] j.command = "lcov"       -> 3 [] OTHER -> 1
AgainAt(j)   == CASE j.command = "dbt2" -> 10 [] j.command = "drizzleslap" -> 14 [] OTHER -> 20
VerdictAt(j) == CASE j.command = "drizzleslap" -> 15 [] j.command = "randgen" -> 23 [] OTHER -> 0
LogAt(j)     == CASE j.command = "sqlbench" -> 8 [] j.command = "dbt2" -> 11 [] j.command = "drizzleslap" -> 17
                  [] j.command = "lcov" -> 6 [] j.command = "sloc" -> 3 [] OTHER -> 24
(* After it, every result file of the command is the session's own.        *)
ReplacedAt(j) == IF j.command = "drizzleslap" THEN 8
                 ELSE IF j.command \in {"sqlbench", "lcov", "sloc"} THEN TestAt(j) ELSE 24

(* A server that came up under a profiler after its directory was cleared. *)
Late(p) ==
  p = Port(job) /\ job.command = "randgen" /\ job.options.profiler /\ (round > 1 \/ at > 13)

(* The server is the session's own, or a Leftover.                         *)
OwnServer(p) ==
  /\ proc[p].state # "none" => proc[p].by = session \/ proc[p].valgrind
  /\ proc[p].lost => proc[p].state = "stopping" \/ Late(p) \/ proc[p].by # session

PortKept(p) ==
  /\ at \in Cleared(job, p) /\ ~busy => p \notin worn
  /\ at \in Settled(job, p) => proc[p].state # "starting"
  /\ at \in Gone(job, p) => proc[p].state \in {"none", "stopping"}
  /\ at <= SweepAt(job) => proc[p].by # session
  /\ at \in Swept(job) => proc[p].state \in {"none", "stopping"} \/ Leftover(p)
  /\ job.options.server = "drizzled" /\ at > SweepAt(job) => OwnServer(p)
Servers == over = "no" => \A p \in PortsOf(job) : PortKept(p)

(* How far a session is, and how many of its tests have failed.            *)
Control ==
  /\ job \in Jobs /\ session \in 0 .. MaxSessions /\ at \in 1 .. Len(Script(job)) + 1
  /\ round \in 1 .. job.tests /\ over \in {"no", "done", "exit"} /\ busy \in BOOLEAN /\ failed \in Nat
  /\ over = "no" => at <= Len(Script(job)) /\ session > 0
  /\ busy => over = "no" /\ Script(job)[at].do \in Tests
  /\ failed <= round /\ (at <= TestAt(job) => failed < round)
  /\ over = "no" /\ at > VerdictAt(job) => failed = 0
  /\ over = "no" /\ at < TestAt(job) => round = 1
  /\ over = "no" /\ at > AgainAt(job) => round = job.tests

(* A failed test is still to be counted.                                   *)
Counted == session \in bad =>
  /\ over # "done"
  /\ over = "no" => \/ failed > 0 /\ at <= VerdictAt(job)
                    \/ busy /\ job.command = "randgen" /\ proc[Port(job)].state = "none"

(* The tests whose results the session has.                                *)
Measuring == {"lcov", "sloc"}
Done == IF at <= TestAt(job) THEN 1 .. round - 1
        ELSE IF job.command \in Measuring THEN 1 .. job.tests
        ELSE IF job.command \in {"crashme", "sqlbench"} THEN {1} ELSE 1 .. round
OwnFiles == over = "no" =>
  /\ \A f \in files : f.command = job.command =>
       /\ at > ReplacedAt(job) => f.session = session /\ (job.command = "sqlbench" => f.test = 1)
       /\ job.command = "dbt2" /\ f.test \in Done => f.session = session
  /\ failed = 0 => \A t \in Done : \E f \in files :
       f.command = job.command /\ f.test = t /\ f.session = session

(* What has been logged.                                                   *)
Stores(j) == j.options.store /\ j.command \in {"dbt2", "drizzleslap", "lcov", "sqlbench"}
Recorded ==
  /\ \A r \in rows : r.session \in 1 .. session /\ r.session \notin bad /\ r.of = r.session
  /\ over = "no" /\ at <= LogAt(job) => \A r \in rows : r.session # session
  /\ Stores(job) /\ (over = "done" \/ (over = "no" /\ at > LogAt(job))) =>
       {r.test : r \in {x \in rows : x.session = session}} = Measured(job)
-----------------------------------------------------------------------------
(* The scripts, step by step.                                              *)
LEMMA JobTypes ==
  ASSUME NEW j \in Jobs
  PROVE  /\ j.command \in {"crashme", "dbt2", "doxy", "drizzleslap", "lcov", "randgen", "sloc", "sqlbench"}
         /\ j.old \in BOOLEAN /\ j.tests \in Nat /\ j.tests > 0
         /\ j.options.server \in {"drizzled", "mysqld"}
         /\ j.options.build \in BOOLEAN /\ j.options.profiler \in BOOLEAN
         /\ j.options.validator \in BOOLEAN /\ j.options.store \in BOOLEAN
         /\ j.options.mail \in BOOLEAN /\ j.options.rsync \in BOOLEAN
         /\ Port(j) \in {"main", "mysql"} /\ Port(j) \in Ports
  BY CommandsAssumption DEF ServingOptions, Port, Ports

(* The lengths of the scripts, and their steps.                            *)
LEMMA ScriptLengths ==
  ASSUME NEW j \in Jobs
  PROVE  /\ j.command = "crashme" => Len(Script(j)) = 7
         /\ j.command = "sqlbench" => Len(Script(j)) = 10
         /\ j.command = "dbt2" => Len(Script(j)) = 12
         /\ j.command = "drizzleslap" => Len(Script(j)) = 18
         /\ j.command = "randgen" => Len(Script(j)) = 23
         /\ j.command = "lcov" => Len(Script(j)) = 6
         /\ j.command = "sloc" => Len(Script(j)) = 3
         /\ j.command = "doxy" => Len(Script(j)) = 1
  <1>1. CASE j.command = "crashme"
    <2>1. Script(j) = Crashme(j)
      BY <1>1 DEF Script
    <2>2. Len(Crashme(j)) = 7
      BY DEF Crashme
    <2> QED
      BY <1>1, <2>1, <2>2
  <1>2. CASE j.command = "sqlbench"
    <2>1. Script(j) = SqlBench(j)
      BY <1>2 DEF Script
    <2>2. Len(SqlBench(j)) = 10
      BY DEF SqlBench
    <2> QED
      BY <1>2, <2>1, <2>2
  <1>3. CASE j.command = "dbt2"
    <2>1. Script(j) = Dbt2(j)
      BY <1>3 DEF Script
    <2>2. Len(Dbt2(j)) = 12
      BY DEF Dbt2
    <2> QED
      BY <1>3, <2>1, <2>2
  <1>4. CASE j.command = "drizzleslap"
    <2>1. Script(j) = DrizzleSlap(j)
      BY <1>4 DEF Script
    <2>2. Len(DrizzleSlap(j)) = 18
      BY DEF DrizzleSlap
    <2> QED
      BY <1>4, <2>1, <2>2
  <1>5. CASE j.command = "randgen"
    <2>1. Script(j) = Randgen(j)
      BY <1>5 DEF Script
    <2>2. Len(Randgen(j)) = 23
      BY DEF Randgen, RandgenThen
    <2> QED
      BY <1>5, <2>1, <2>2
  <1>6. CASE j.command = "lcov"
    <2>1. Script(j) = Lcov(j)
      BY <1>6 DEF Script
    <2>2. Len(Lcov(j)) = 6
      BY DEF Lcov
    <2> QED
      BY <1>6, <2>1, <2>2
  <1>7. CASE j.command = "sloc"
    <2>1. Script(j) = Sloc(j)
      BY <1>7 DEF Script
    <2>2. Len(Sloc(j)) = 3
      BY DEF Sloc
    <2> QED
      BY <1>7, <2>1, <2>2
  <1>8. CASE j.command = "doxy"
    <2>1. Script(j) = Doxygen(j)
      BY <1>8 DEF Script
    <2>2. Len(Doxygen(j)) = 1
      BY DEF Doxygen
    <2> QED
      BY <1>8, <2>1, <2>2
  <1> QED
    BY JobTypes, <1>1, <1>2, <1>3, <1>4, <1>5, <1>6, <1>7, <1>8

CrashmeStep(j, n, d, q) ==
  /\ q = Port(j)
  /\ \/ n = 1 /\ d = "ask"
     \/ n = 2 /\ d \in {"build", "skip"}
     \/ n = 3 /\ d = "stopAll"
     \/ n = 4 /\ d = "clear"
     \/ n = 5 /\ d = "start"
     \/ n = 6 /\ d = "test"
     \/ n = 7 /\ d = "stop"
LEMMA CrashmeSteps ==
  ASSUME NEW j \in Jobs, j.command = "crashme", NEW n \in 1 .. 7
  PROVE  CrashmeStep(j, n, Script(j)[n].do, Script(j)[n].port)
  <1>1. Script(j) = Crashme(j)
    BY DEF Script
  <1>2. CrashmeStep(j, n, Crashme(j)[n].do, Crashme(j)[n].port)
    BY DEF CrashmeStep, Crashme, Main, MainIf, Step
  <1> QED
    BY <1>1, <1>2

SqlBenchStep(j, n, d, q) ==
  /\ q = Port(j)
  /\ \/ n = 1 /\ d \in {"build", "skip"}
     \/ n = 2 /\ d = "stopAll"
     \/ n = 3 /\ d = "clear"
     \/ n = 4 /\ d = "start"
     \/ n = 5 /\ d = "createOrStop"
     \/ n = 6 /\ d = "ask"
     \/ n = 7 /\ d = "test"
     \/ n = 8 /\ d = (IF j.options.store THEN "log" ELSE "skip")
     \/ n = 9 /\ d = "stop"
     \/ n = 10 /\ d \in {"mail", "skip"}
LEMMA SqlBenchSteps ==
  ASSUME NEW j \in Jobs, j.command = "sqlbench", NEW n \in 1 .. 10
  PROVE  SqlBenchStep(j, n, Script(j)[n].do, Script(j)[n].port)
  <1>1. Script(j) = SqlBench(j)
    BY DEF Script
  <1>2. SqlBenchStep(j, n, SqlBench(j)[n].do, SqlBench(j)[n].port)
    BY DEF SqlBenchStep, SqlBench, Main, MainIf, Step
  <1> QED
    BY <1>1, <1>2

Dbt2Step(j, n, d, q) ==
  /\ q = Port(j)
  /\ \/ n = 1 /\ d \in {"build", "skip"}
     \/ n = 2 /\ d = "stopAll"
     \/ n = 3 /\ d = "clear"
     \/ n = 4 /\ d = (IF j.options.profiler THEN "profile" ELSE "skip")
     \/ n = 5 /\ d = "ask"
     \/ n = 6 /\ d = "startOrExit"
     \/ n = 7 /\ d = "load"
     \/ n = 8 /\ d = "stop"
     \/ n = 9 /\ d = "workload"
     \/ n = 10 /\ d = "again"
     \/ n = 11 /\ d = (IF j.options.store THEN "log" ELSE "skip")
     \/ n = 12 /\ d \in {"mail", "skip"}
LEMMA Dbt2Steps ==
  ASSUME NEW j \in Jobs, j.command = "dbt2", NEW n \in 1 .. 12
  PROVE  Dbt2Step(j, n, Script(j)[n].do, Script(j)[n].port)
  <1>1. Script(j) = Dbt2(j)
    BY DEF Script
  <1>2. Dbt2Step(j, n, Dbt2(j)[n].do, Dbt2(j)[n].port)
    BY DEF Dbt2Step, Dbt2, Main, MainIf, Step
  <1> QED
    BY <1>1, <1>2

DrizzleSlapStep(j, n, d, q) ==
  /\ q = Port(j)
  /\ \/ n = 1 /\ d = "ask"
     \/ n = 2 /\ d \in {"build", "skip"}
     \/ n = 3 /\ d = "stopAll"
     \/ n = 4 /\ d = "clear"
     \/ n = 5 /\ d = "startOrExit"
     \/ n = 6 /\ d = "createOrCheck"
     \/ n = 7 /\ d \in {"ask", "skip"}
     \/ n = 8 /\ d = "removeFile"
     \/ n = 9 /\ d = "countedTest"
     \/ n = 10 /\ d = "stopIfUp"
     \/ n = 11 /\ d = "clear"
     \/ n = 12 /\ d = "start"
     \/ n = 13 /\ d = "createOrLeave"
     \/ n = 14 /\ d = "again"
     \/ n = 15 /\ d = "verdict"
     \/ n = 16 /\ d = "stop"
     \/ n = 17 /\ d = (IF j.options.store THEN "log" ELSE "skip")
     \/ n = 18 /\ d \in {"mail", "skip"}
LEMMA DrizzleSlapSteps ==
  ASSUME NEW j \in Jobs, j.command = "drizzleslap", NEW n \in 1 .. 18
  PROVE  DrizzleSlapStep(j, n, Script(j)[n].do, Script(j)[n].port)
  <1>1. Script(j) = DrizzleSlap(j)
    BY DEF Script
  <1>2. DrizzleSlapStep(j, n, DrizzleSlap(j)[n].do, DrizzleSlap(j)[n].port)
    BY DEF DrizzleSlapStep, DrizzleSlap, Main, MainIf, Step
  <1> QED
    BY <1>1, <1>2

RandgenStep(j, n, d, q) ==
  \/ n = 1 /\ d = "ask" /\ q = Port(j)
  \/ n = 2 /\ d \in {"build", "skip"} /\ q = Port(j)
  \/ n = 3 /\ d = "stopAll" /\ q = Port(j)
  \/ n = 4 /\ d = "clear" /\ q = Port(j)
  \/ n = 5 /\ d = (IF j.options.validator THEN "clear" ELSE "skip") /\ q = "validator"
  \/ n = 6 /\ d = (IF j.options.validator THEN "start" ELSE "skip") /\ q = "validator"
  \/ n = 7 /\ d = (IF j.options.validator THEN "createOrStop" ELSE "skip") /\ q = "validator"
  \/ n = 8 /\ d = "start" /\ q = Port(j)
  \/ n = 9 /\ d = "createOrStop" /\ q = Port(j)
  \/ n = 10 /\ d = (IF j.options.profiler THEN "profile" ELSE "skip") /\ q = Port(j)
  \/ n = 11 /\ d = "countedTest" /\ q = Port(j)
  \/ n = 12 /\ d = "stopIfUp" /\ q = Port(j)
  \/ n = 13 /\ d = "clear" /\ q = Port(j)
  \/ n = 14 /\ d = "start" /\ q = Port(j)
  \/ n = 15 /\ d = "createOrStop" /\ q = Port(j)
  \/ n = 16 /\ d = (IF j.options.validator THEN "stopIfUp" ELSE "skip") /\ q = "validator"
  \/ n = 17 /\ d = (IF j.options.validator THEN "clear" ELSE "skip") /\ q = "validator"
  \/ n = 18 /\ d = (IF j.options.validator THEN "start" ELSE "skip") /\ q = "validator"
  \/ n = 19 /\ d = (IF j.options.validator THEN "createOrStop" ELSE "skip") /\ q = "validator"
  \/ n = 20 /\ d = "again" /\ q = Port(j)
  \/ n = 21 /\ d = "stop" /\ q = Port(j)
  \/ n = 22 /\ d = (IF j.options.validator THEN "stop" ELSE "skip") /\ q = "validator"
  \/ n = 23 /\ d = "verdict" /\ q = Port(j)
LEMMA RandgenSteps ==
  ASSUME NEW j \in Jobs, j.command = "randgen", NEW n \in 1 .. 23
  PROVE  RandgenStep(j, n, Script(j)[n].do, Script(j)[n].port)
  <1> DEFINE s == Script(j)
  <1>1. s = Randgen(j)
    BY DEF Script
  <1> HIDE DEF s
  <1>2. /\ s[1].do = "ask" /\ s[1].port = Port(j)
        /\ s[2].do \in {"build", "skip"} /\ s[2].port = Port(j)
        /\ s[3].do = "stopAll" /\ s[3].port = Port(j)
        /\ s[4].do = "clear" /\ s[4].port = Port(j)
        /\ s[5].do = (IF j.options.validator THEN "clear" ELSE "skip") /\ s[5].port = "validator"
        /\ s[6].do = (IF j.options.validator THEN "start" ELSE "skip") /\ s[6].port = "validator"
        /\ s[7].do = (IF j.options.validator THEN "createOrStop" ELSE "skip") /\ s[7].port = "validator"
        /\ s[8].do = "start" /\ s[8].port = Port(j)
        /\ s[9].do = "createOrStop" /\ s[9].port = Port(j)
        /\ s[10].do = (IF j.options.profiler THEN "profile" ELSE "skip") /\ s[10].port = Port(j)
        /\ s[11].do = "countedTest" /\ s[11].port = Port(j)
        /\ s[12].do = "stopIfUp" /\ s[12].port = Port(j)
    BY <1>1 DEF Randgen, RandgenThen, Main, MainIf, Validator, Step
  <1>3. /\ s[13].do = "clear" /\ s[13].port = Port(j)
        /\ s[14].do = "start" /\ s[14].port = Port(j)
        /\ s[15].do = "createOrStop" /\ s[15].port = Port(j)
        /\ s[16].do = (IF j.options.validator THEN "stopIfUp" ELSE "skip") /\ s[16].port = "validator"
        /\ s[17].do = (IF j.options.validator THEN "clear" ELSE "skip") /\ s[17].port = "validator"
        /\ s[18].do = (IF j.options.validator THEN "start" ELSE "skip") /\ s[18].port = "validator"
        /\ s[19].do = (IF j.options.validator THEN "createOrStop" ELSE "skip") /\ s[19].port = "validator"
        /\ s[20].do = "again" /\ s[20].port = Port(j)
        /\ s[21].do = "stop" /\ s[21].port = Port(j)
        /\ s[22].do = (IF j.options.validator THEN "stop" ELSE "skip") /\ s[22].port = "validator"
        /\ s[23].do = "verdict" /\ s[23].port = Port(j)
    BY <1>1 DEF Randgen, RandgenThen, Main, MainIf, Validator, Step
  <1>4. n \in {1, 2, 3, 4, 5, 6, 7, 8, 9, 10, 11, 12, 13, 14, 15, 16, 17, 18, 19, 20, 21, 22, 23}
    OBVIOUS
  <1>5. RandgenStep(j, n, s[n].do, s[n].port)
    BY <1>2, <1>3, <1>4 DEF RandgenStep
  <1> QED
    BY <1>5 DEF s

LcovStep(j, n, d, q) ==
  /\ q = Port(j)
  /\ \/ n = 1 /\ d = "reset"
     \/ n = 2 /\ d \in {"build", "skip"}
     \/ n = 3 /\ d = "measure"
     \/ n = 4 /\ d \in {"rsync", "skip"}
     \/ n = 5 /\ d \in {"average", "skip"}
     \/ n = 6 /\ d = (IF j.options.store THEN "log" ELSE "skip")
LEMMA LcovSteps ==
  ASSUME NEW j \in Jobs, j.command = "lcov", NEW n \in 1 .. 6
  PROVE  LcovStep(j, n, Script(j)[n].do, Script(j)[n].port)
  <1>1. Script(j) = Lcov(j)
    BY DEF Script
  <1>2. LcovStep(j, n, Lcov(j)[n].do, Lcov(j)[n].port)
    BY DEF LcovStep, Lcov, Main, MainIf, Step
  <1> QED
    BY <1>1, <1>2

SlocStep(j, n, d, q) ==
  /\ q = Port(j)
  /\ \/ n = 1 /\ d = "measure"
     \/ n = 2 /\ d = "scrape"
     \/ n = 3 /\ d = "log"
LEMMA SlocSteps ==
  ASSUME NEW j \in Jobs, j.command = "sloc", NEW n \in 1 .. 3
  PROVE  SlocStep(j, n, Script(j)[n].do, Script(j)[n].port)
  <1>1. Script(j) = Sloc(j)
    BY DEF Script
  <1>2. SlocStep(j, n, Sloc(j)[n].do, Sloc(j)[n].port)
    BY DEF SlocStep, Sloc, Main, MainIf, Step
  <1> QED
    BY <1>1, <1>2

DoxygenStep(j, n, d, q) ==
  /\ q = Port(j)
  /\ \/ n = 1 /\ d = "doxy"
LEMMA DoxygenSteps ==
  ASSUME NEW j \in Jobs, j.command = "doxy", NEW n \in 1 .. 1
  PROVE  DoxygenStep(j, n, Script(j)[n].do, Script(j)[n].port)
  <1>1. Script(j) = Doxygen(j)
    BY DEF Script
  <1>2. DoxygenStep(j, n, Doxygen(j)[n].do, Doxygen(j)[n].port)
    BY DEF DoxygenStep, Doxygen, Main, MainIf, Step
  <1> QED
    BY <1>1, <1>2

-----------------------------------------------------------------------------
(* What one step (d on the port q) does to the places above, for the port  *)
(* p, when it leads from n to m; and what a step needs.                    *)
Leads(j, d, n, m) ==
  m = n + 1 \/ (d = "again" /\ m = TestAt(j))

Starting == {"start", "startOrExit"}
Creating == {"createOrStop", "createOrCheck", "createOrLeave"}

KeepsCleared(j, d, q, n, m, p) == m \in Cleared(j, p) =>
  \/ n \in Cleared(j, p) /\ d \notin {"load", "test", "countedTest", "workload"}
  \/ d = "clear" /\ q = p
KeepsSettled(j, d, q, n, m, p) == m \in Settled(j, p) =>
  \/ n \in Settled(j, p) /\ (q = p => d \notin Starting \cup {"profile"})
  \/ d \in Creating /\ q = p
KeepsGone(j, d, q, n, m, p) == m \in Gone(j, p) =>
  \/ n \in Gone(j, p) /\ (q = p => d \notin Starting)
  \/ d = "stop" /\ q = p
  \/ d = "stopIfUp" /\ q = p /\ n \in Settled(j, p)
KeepsSwept(j, d, n, m) ==
  /\ m > SweepAt(j) => n > SweepAt(j) \/ d = "stopAll"
  /\ m <= SweepAt(j) => n <= SweepAt(j) /\ d \notin Starting \cup {"profile"}
  /\ m \in Swept(j) => \/ n \in Swept(j) /\ d \notin Starting \cup {"profile"}
                       \/ d = "stopAll" /\ j.options.server = "drizzled"
Ready(j, d, q, n, p) ==
  /\ d \in Tests => n \in Cleared(j, p) /\ n > SweepAt(j)
  /\ d = "stopAll" => n <= SweepAt(j)
  /\ d = "clear" /\ q = p /\ j.options.server = "drizzled" =>
       /\ n > SweepAt(j)
       /\ n \in Gone(j, p) \cup Swept(j) \/ (n = 13 /\ p = Port(j) /\ j.command = "randgen" /\ j.options.profiler)
Respects(j, d, q, n, m, p) ==
  /\ KeepsCleared(j, d, q, n, m, p) /\ KeepsSettled(j, d, q, n, m, p) /\ KeepsGone(j, d, q, n, m, p)
  /\ KeepsSwept(j, d, n, m) /\ Ready(j, d, q, n, p)

LEMMA CrashmeRespects ==
  ASSUME NEW j \in Jobs, j.command = "crashme", NEW p \in PortsOf(j),
         NEW d, NEW q, NEW n \in 1 .. 7, NEW m, Leads(j, d, n, m), CrashmeStep(j, n, d, q)
  PROVE  Respects(j, d, q, n, m, p)
  <1>1. p = q
    BY DEF PortsOf, CrashmeStep
  <1>2. m = n + 1
    BY DEF Leads, TestAt, CrashmeStep
  <1>3. Cleared(j, p) = 5 .. 6 /\ Settled(j, p) = {} /\ SweepAt(j) = 3
    BY DEF Cleared, Settled, SweepAt
  <1>4. Gone(j, p) = {8}
    BY DEF Gone
  <1>5. KeepsCleared(j, d, q, n, m, p)
    BY <1>1, <1>2, <1>3 DEF KeepsCleared, CrashmeStep
  <1>6. KeepsSettled(j, d, q, n, m, p)
    BY <1>1, <1>2, <1>3 DEF KeepsSettled, CrashmeStep, Starting, Creating
  <1>7. KeepsGone(j, d, q, n, m, p)
    BY <1>1, <1>2, <1>3, <1>4 DEF KeepsGone, CrashmeStep, Starting
  <1>8. KeepsSwept(j, d, n, m) /\ Ready(j, d, q, n, p)
    BY <1>1, <1>2, <1>3, <1>4 DEF KeepsSwept, Ready, CrashmeStep, Tests, Swept, Starting
  <1> QED
    BY <1>5, <1>6, <1>7, <1>8 DEF Respects

LEMMA SqlBenchRespects ==
  ASSUME NEW j \in Jobs, j.command = "sqlbench", NEW p \in PortsOf(j),
         NEW d, NEW q, NEW n \in 1 .. 10, NEW m, Leads(j, d, n, m), SqlBenchStep(j, n, d, q)
  PROVE  Respects(j, d, q, n, m, p)
  <1>1. p = q
    BY DEF PortsOf, SqlBenchStep
  <1>2. m = n + 1
    BY DEF Leads, TestAt, SqlBenchStep
  <1>3. Cleared(j, p) = 4 .. 7 /\ Settled(j, p) = {} /\ SweepAt(j) = 2
    BY DEF Cleared, Settled, SweepAt
  <1>4. Gone(j, p) = (10 .. 11)
    BY DEF Gone
  <1>5. KeepsCleared(j, d, q, n, m, p)
    BY <1>1, <1>2, <1>3 DEF KeepsCleared, SqlBenchStep
  <1>6. KeepsSettled(j, d, q, n, m, p)
    BY <1>1, <1>2, <1>3 DEF KeepsSettled, SqlBenchStep, Starting, Creating
  <1>7. KeepsGone(j, d, q, n, m, p)
    BY <1>1, <1>2, <1>3, <1>4 DEF KeepsGone, SqlBenchStep, Starting
  <1>8. KeepsSwept(j, d, n, m) /\ Ready(j, d, q, n, p)
    BY <1>1, <1>2, <1>3, <1>4 DEF KeepsSwept, Ready, SqlBenchStep, Tests, Swept, Starting
  <1> QED
    BY <1>5, <1>6, <1>7, <1>8 DEF Respects

LEMMA Dbt2Respects ==
  ASSUME NEW j \in Jobs, j.command = "dbt2", NEW p \in PortsOf(j),
         NEW d, NEW q, NEW n \in 1 .. 12, NEW m, Leads(j, d, n, m), Dbt2Step(j, n, d, q)
  PROVE  Respects(j, d, q, n, m, p)
  <1>1. p = q
    BY DEF PortsOf, Dbt2Step
  <1>2. m = n + 1 \/ (n = 10 /\ m = 9)
    BY DEF Leads, TestAt, Dbt2Step
  <1>3. Cleared(j, p) = 4 .. 7 /\ Settled(j, p) = {} /\ SweepAt(j) = 2
    BY DEF Cleared, Settled, SweepAt
  <1>4. Gone(j, p) = (9 .. 13)
    BY DEF Gone
  <1>5. KeepsCleared(j, d, q, n, m, p)
    BY <1>1, <1>2, <1>3 DEF KeepsCleared, Dbt2Step
  <1>6. KeepsSettled(j, d, q, n, m, p)
    BY <1>1, <1>2, <1>3 DEF KeepsSettled, Dbt2Step, Starting, Creating
  <1>7. KeepsGone(j, d, q, n, m, p)
    BY <1>1, <1>2, <1>3, <1>4 DEF KeepsGone, Dbt2Step, Starting
  <1>8. KeepsSwept(j, d, n, m) /\ Ready(j, d, q, n, p)
    BY <1>1, <1>2, <1>3, <1>4 DEF KeepsSwept, Ready, Dbt2Step, Tests, Swept, Starting
  <1> QED
    BY <1>5, <1>6, <1>7, <1>8 DEF Respects

LEMMA DrizzleSlapRespects ==
  ASSUME NEW j \in Jobs, j.command = "drizzleslap", NEW p \in PortsOf(j),
         NEW d, NEW q, NEW n \in 1 .. 18, NEW m, Leads(j, d, n, m), DrizzleSlapStep(j, n, d, q)
  PROVE  Respects(j, d, q, n, m, p)
  <1>1. p = q
    BY DEF PortsOf, DrizzleSlapStep
  <1>2. m = n + 1 \/ (n = 14 /\ m = 9)
    BY DEF Leads, TestAt, DrizzleSlapStep
  <1>3. Cleared(j, p) = (5 .. 9) \cup (12 .. 14) /\ Settled(j, p) = (7 .. 11) \cup (14 .. 16) /\ SweepAt(j) = 3
    BY DEF Cleared, Settled, SweepAt
  <1>4. Gone(j, p) = (11 .. 12) \cup (17 .. 19)
    BY DEF Gone
  <1>5. KeepsCleared(j, d, q, n, m, p)
    BY <1>1, <1>2, <1>3 DEF KeepsCleared, DrizzleSlapStep
  <1>6. KeepsSettled(j, d, q, n, m, p)
    BY <1>1, <1>2, <1>3 DEF KeepsSettled, DrizzleSlapStep, Starting, Creating
  <1>7. KeepsGone(j, d, q, n, m, p)
    BY <1>1, <1>2, <1>3, <1>4 DEF KeepsGone, DrizzleSlapStep, Starting
  <1>8. KeepsSwept(j, d, n, m) /\ Ready(j, d, q, n, p)
    BY <1>1, <1>2, <1>3, <1>4 DEF KeepsSwept, Ready, DrizzleSlapStep, Tests, Swept, Starting
  <1> QED
    BY <1>5, <1>6, <1>7, <1>8 DEF Respects

LEMMA RandgenRespects ==
  ASSUME NEW j \in Jobs, j.command = "randgen", NEW p \in PortsOf(j),
         NEW d, NEW q, NEW n \in 1 .. 23, NEW m, Leads(j, d, n, m), RandgenStep(j, n, d, q)
  PROVE  Respects(j, d, q, n, m, p)
  <1>1. m = n + 1 \/ (n = 20 /\ m = 11)
    BY DEF Leads, TestAt, RandgenStep
  <1>2. Port(j) # "validator" /\ SweepAt(j) = 3
    BY DEF Port, SweepAt
  <1>3. KeepsSwept(j, d, n, m)
    BY <1>1, <1>2 DEF KeepsSwept, RandgenStep, Swept, Starting
  <1>4. CASE p = Port(j)
    <2>1. Cleared(j, p) = (5 .. 11) \cup (14 .. 20)
      BY <1>2, <1>4 DEF Cleared
    <2>2. Settled(j, p) = IF j.options.profiler THEN {} ELSE (10 .. 12) \cup (16 .. 20)
      BY <1>2, <1>4 DEF Settled
    <2>3. Gone(j, p) = (IF j.options.profiler THEN {} ELSE 13 .. 14) \cup (22 .. 24)
      BY <1>2, <1>4 DEF Gone
    <2>4. KeepsCleared(j, d, q, n, m, p)
      BY <1>1, <1>2, <1>4, <2>1 DEF KeepsCleared, RandgenStep
    <2>5. KeepsSettled(j, d, q, n, m, p)
      BY <1>1, <1>2, <1>4, <2>2 DEF KeepsSettled, RandgenStep, Starting, Creating
    <2>6. KeepsGone(j, d, q, n, m, p)
      BY <1>1, <1>2, <1>4, <2>2, <2>3 DEF KeepsGone, RandgenStep, Starting
    <2>7. Ready(j, d, q, n, p)
      BY <1>1, <1>2, <1>4, <2>1, <2>3 DEF Ready, RandgenStep, Tests, Swept
    <2> QED
      BY <1>3, <2>4, <2>5, <2>6, <2>7 DEF Respects
  <1>5. CASE p = "validator" /\ j.options.validator
    <2>1. Cleared(j, p) = (6 .. 11) \cup (18 .. 20)
      BY <1>5 DEF Cleared
    <2>2. Settled(j, p) = (8 .. 16) \cup (20 .. 22)
      BY <1>5 DEF Settled
    <2>3. Gone(j, p) = (17 .. 18) \cup (23 .. 24)
      BY <1>5 DEF Gone
    <2>4. KeepsCleared(j, d, q, n, m, p)
      BY <1>1, <1>2, <1>5, <2>1 DEF KeepsCleared, RandgenStep
    <2>5. KeepsSettled(j, d, q, n, m, p)
      BY <1>1, <1>2, <1>5, <2>2 DEF KeepsSettled, RandgenStep, Starting, Creating
    <2>6. KeepsGone(j, d, q, n, m, p)
      BY <1>1, <1>2, <1>5, <2>2, <2>3 DEF KeepsGone, RandgenStep, Starting
    <2>7. Ready(j, d, q, n, p)
      BY <1>1, <1>2, <1>5, <2>1, <2>3 DEF Ready, RandgenStep, Tests, Swept
    <2> QED
      BY <1>3, <2>4, <2>5, <2>6, <2>7 DEF Respects
  <1> QED
    BY <1>4, <1>5 DEF PortsOf

(* All scripts respect the places, and begin and end as they should.       *)
LEMMA ScriptsRespect ==
  ASSUME NEW j \in Jobs, NEW p \in PortsOf(j), NEW n \in 1 .. Len(Script(j)),
         NEW m, Leads(j, Script(j)[n].do, n, m)
  PROVE  Respects(j, Script(j)[n].do, Script(j)[n].port, n, m, p)
  <1> DEFINE d == Script(j)[n].do
             q == Script(j)[n].port
  <1>1. j.command \in {"crashme", "sqlbench", "dbt2", "drizzleslap", "randgen"}
    BY JobTypes DEF PortsOf, Serverless
  <1>2. CASE j.command = "crashme"
    <2>1. n \in 1 .. 7
      BY <1>2, ScriptLengths
    <2> QED
      BY <1>2, <2>1, CrashmeSteps, CrashmeRespects
  <1>3. CASE j.command = "sqlbench"
    <2>1. n \in 1 .. 10
      BY <1>3, ScriptLengths
    <2> QED
      BY <1>3, <2>1, SqlBenchSteps, SqlBenchRespects
  <1>4. CASE j.command = "dbt2"
    <2>1. n \in 1 .. 12
      BY <1>4, ScriptLengths
    <2> QED
      BY <1>4, <2>1, Dbt2Steps, Dbt2Respects
  <1>5. CASE j.command = "drizzleslap"
    <2>1. n \in 1 .. 18
      BY <1>5, ScriptLengths
    <2> QED
      BY <1>5, <2>1, DrizzleSlapSteps, DrizzleSlapRespects
  <1>6. CASE j.command = "randgen"
    <2>1. n \in 1 .. 23
      BY <1>6, ScriptLengths
    <2> QED
      BY <1>6, <2>1, RandgenSteps, RandgenRespects
  <1> QED
    BY <1>1, <1>2, <1>3, <1>4, <1>5, <1>6

LEMMA ScriptPlaces ==
  ASSUME NEW j \in Jobs
  PROVE  /\ Len(Script(j)) \in 1 .. 23
         /\ SweepAt(j) \in 2 .. 3 /\ TestAt(j) \in 1 .. 11 /\ AgainAt(j) \in 10 .. 20
         /\ VerdictAt(j) \in 0 .. 23 /\ LogAt(j) \in 3 .. 24 /\ ReplacedAt(j) \in 1 .. 24
  <1>1. Len(Script(j)) \in {1, 3, 6, 7, 10, 12, 18, 23}
    BY JobTypes, ScriptLengths, Zenon
  <1>2. /\ SweepAt(j) \in 2 .. 3 /\ TestAt(j) \in 1 .. 11 /\ AgainAt(j) \in 10 .. 20
    BY JobTypes DEF SweepAt, TestAt, AgainAt
  <1>3. VerdictAt(j) \in 0 .. 23 /\ LogAt(j) \in 3 .. 24 /\ ReplacedAt(j) \in 1 .. 24
    BY <1>2, JobTypes DEF VerdictAt, LogAt, ReplacedAt
  <1>4. Len(Script(j)) \in 1 .. 23
    BY <1>1
  <1> QED
    BY <1>2, <1>3, <1>4

LEMMA Ends ==
  ASSUME NEW j \in Jobs, NEW p \in PortsOf(j)
  PROVE  /\ 1 \notin Cleared(j, p) /\ 1 \notin Settled(j, p) /\ 1 \notin Gone(j, p) /\ 1 \notin Swept(j)
         /\ Len(Script(j)) + 1 \in Gone(j, p)
  <1>1. j.command \in {"crashme", "sqlbench", "dbt2", "drizzleslap", "randgen"}
    BY JobTypes DEF PortsOf, Serverless
  <1>2. 1 \notin Cleared(j, p) /\ 1 \notin Settled(j, p) /\ 1 \notin Gone(j, p) /\ 1 \notin Swept(j)
    BY <1>1 DEF Cleared, Settled, Gone, Swept
  <1>3. CASE j.command = "crashme"
    <2>1. Len(Script(j)) = 7
      BY <1>3, ScriptLengths
    <2>2. 7 + 1 \in Gone(j, p)
      BY <1>3 DEF Gone
    <2> QED
      BY <1>2, <2>1, <2>2
  <1>4. CASE j.command = "sqlbench"
    <2>1. Len(Script(j)) = 10
      BY <1>4, ScriptLengths
    <2>2. 10 + 1 \in Gone(j, p)
      BY <1>4 DEF Gone
    <2> QED
      BY <1>2, <2>1, <2>2
  <1>5. CASE j.command = "dbt2"
    <2>1. Len(Script(j)) = 12
      BY <1>5, ScriptLengths
    <2>2. 12 + 1 \in Gone(j, p)
      BY <1>5 DEF Gone
    <2> QED
      BY <1>2, <2>1, <2>2
  <1>6. CASE j.command = "drizzleslap"
    <2>1. Len(Script(j)) = 18
      BY <1>6, ScriptLengths
    <2>2. 18 + 1 \in Gone(j, p)
      BY <1>6 DEF Gone
    <2> QED
      BY <1>2, <2>1, <2>2
  <1>7. CASE j.command = "randgen"
    <2>1. Len(Script(j)) = 23
      BY <1>7, ScriptLengths
    <2>2. 23 + 1 \in Gone(j, p)
      BY <1>7 DEF Gone
    <2> QED
      BY <1>2, <2>1, <2>2
  <1> QED
    BY <1>1, <1>3, <1>4, <1>5, <1>6, <1>7

(* The steps that have a place of their own.                               *)
Landmarks(j, n, d) ==
  /\ d \in {"test", "countedTest", "workload", "measure", "doxy"} <=> n = TestAt(j)
  /\ d = "again" <=> n = AgainAt(j)
  /\ d = "verdict" <=> n = VerdictAt(j)
  /\ d = "log" <=> n = LogAt(j) /\ (j.options.store \/ j.command = "sloc")
  /\ d = "removeFile" <=> j.command = "drizzleslap" /\ n = 8
  /\ d = "load" => j.command = "dbt2" /\ n < TestAt(j)
  /\ d = "test" => j.command \in {"crashme", "sqlbench"}
  /\ d = "countedTest" => j.command \in {"drizzleslap", "randgen"}
  /\ d = "workload" => j.command = "dbt2"
  /\ d = "measure" => j.command \in Measuring

LEMMA ScriptLandmarks ==
  ASSUME NEW j \in Jobs, NEW n \in 1 .. Len(Script(j))
  PROVE  Landmarks(j, n, Script(j)[n].do)
  <1> DEFINE d == Script(j)[n].do
             q == Script(j)[n].port
  <1>1. CASE j.command = "crashme"
    <2>1. n \in 1 .. 7
      BY <1>1, ScriptLengths
    <2>2. CrashmeStep(j, n, d, q)
      BY <1>1, <2>1, CrashmeSteps
    <2>3. \A x : CrashmeStep(j, n, x, q) => Landmarks(j, n, x)
      BY <1>1, <2>1, JobTypes DEF CrashmeStep, Landmarks, TestAt, AgainAt, VerdictAt, LogAt, Measuring
    <2> QED
      BY <2>2, <2>3
  <1>2. CASE j.command = "sqlbench"
    <2>1. n \in 1 .. 10
      BY <1>2, ScriptLengths
    <2>2. SqlBenchStep(j, n, d, q)
      BY <1>2, <2>1, SqlBenchSteps
    <2>3. \A x : SqlBenchStep(j, n, x, q) => Landmarks(j, n, x)
      BY <1>2, <2>1, JobTypes DEF SqlBenchStep, Landmarks, TestAt, AgainAt, VerdictAt, LogAt, Measuring
    <2> QED
      BY <2>2, <2>3
  <1>3. CASE j.command = "dbt2"
    <2>1. n \in 1 .. 12
      BY <1>3, ScriptLengths
    <2>2. Dbt2Step(j, n, d, q)
      BY <1>3, <2>1, Dbt2Steps
    <2>3. \A x : Dbt2Step(j, n, x, q) => Landmarks(j, n, x)
      BY <1>3, <2>1, JobTypes DEF Dbt2Step, Landmarks, TestAt, AgainAt, VerdictAt, LogAt, Measuring
    <2> QED
      BY <2>2, <2>3
  <1>4. CASE j.command = "drizzleslap"
    <2>1. n \in 1 .. 18
      BY <1>4, ScriptLengths
    <2>2. DrizzleSlapStep(j, n, d, q)
      BY <1>4, <2>1, DrizzleSlapSteps
    <2>3. TestAt(j) = 9 /\ AgainAt(j) = 14 /\ VerdictAt(j) = 15 /\ LogAt(j) = 17
      BY <1>4 DEF TestAt, AgainAt, VerdictAt, LogAt
    <2>4. \A x : DrizzleSlapStep(j, n, x, q) => Landmarks(j, n, x)
      BY <1>4, <2>1, <2>3, JobTypes DEF DrizzleSlapStep, Landmarks
    <2> QED
      BY <2>2, <2>4
  <1>5. CASE j.command = "randgen"
    <2>1. n \in 1 .. 23
      BY <1>5, ScriptLengths
    <2>2. RandgenStep(j, n, d, q)
      BY <1>5, <2>1, RandgenSteps
    <2>3. \A x : RandgenStep(j, n, x, q) => Landmarks(j, n, x)
      BY <1>5, <2>1, JobTypes DEF RandgenStep, Landmarks, TestAt, AgainAt, VerdictAt, LogAt, Measuring
    <2> QED
      BY <2>2, <2>3
  <1>6. CASE j.command = "lcov"
    <2>1. n \in 1 .. 6
      BY <1>6, ScriptLengths
    <2>2. LcovStep(j, n, d, q)
      BY <1>6, <2>1, LcovSteps
    <2>3. \A x : LcovStep(j, n, x, q) => Landmarks(j, n, x)
      BY <1>6, <2>1, JobTypes DEF LcovStep, Landmarks, TestAt, AgainAt, VerdictAt, LogAt, Measuring
    <2> QED
      BY <2>2, <2>3
  <1>7. CASE j.command = "sloc"
    <2>1. n \in 1 .. 3
      BY <1>7, ScriptLengths
    <2>2. SlocStep(j, n, d, q)
      BY <1>7, <2>1, SlocSteps
    <2>3. \A x : SlocStep(j, n, x, q) => Landmarks(j, n, x)
      BY <1>7, <2>1, JobTypes DEF SlocStep, Landmarks, TestAt, AgainAt, VerdictAt, LogAt, Measuring
    <2> QED
      BY <2>2, <2>3
  <1>8. CASE j.command = "doxy"
    <2>1. n \in 1 .. 1
      BY <1>8, ScriptLengths
    <2>2. DoxygenStep(j, n, d, q)
      BY <1>8, <2>1, DoxygenSteps
    <2>3. \A x : DoxygenStep(j, n, x, q) => Landmarks(j, n, x)
      BY <1>8, <2>1, JobTypes DEF DoxygenStep, Landmarks, TestAt, AgainAt, VerdictAt, LogAt, Measuring
    <2> QED
      BY <2>2, <2>3
  <1> QED
    BY JobTypes, <1>1, <1>2, <1>3, <1>4, <1>5, <1>6, <1>7, <1>8

LEMMA LandmarksInOrder ==
  ASSUME NEW j \in Jobs
  PROVE  /\ TestAt(j) < AgainAt(j) /\ TestAt(j) < LogAt(j)
         /\ ReplacedAt(j) < LogAt(j) \/ j.command \in {"crashme", "dbt2", "doxy", "randgen"}
         /\ j.command \in {"drizzleslap", "randgen"} => AgainAt(j) < VerdictAt(j) /\ TestAt(j) < VerdictAt(j)
         /\ j.command \notin {"drizzleslap", "randgen"} => VerdictAt(j) = 0
         /\ j.command \in {"dbt2", "drizzleslap"} => AgainAt(j) < LogAt(j) /\ VerdictAt(j) < LogAt(j)
         /\ j.command \in {"crashme", "doxy", "randgen"} => LogAt(j) > Len(Script(j))
         /\ j.command \notin {"dbt2", "drizzleslap", "randgen"} => AgainAt(j) > Len(Script(j))
         /\ VerdictAt(j) <= Len(Script(j)) /\ TestAt(j) <= Len(Script(j))
         /\ j.command \in {"dbt2", "drizzleslap", "randgen"} => AgainAt(j) < Len(Script(j))
  <1> DEFINE L == Len(Script(j))
  <1>1. /\ j.command = "crashme" => L = 7
        /\ j.command = "sqlbench" => L = 10
        /\ j.command = "dbt2" => L = 12
        /\ j.command = "drizzleslap" => L = 18
        /\ j.command = "randgen" => L = 23
        /\ j.command = "lcov" => L = 6
        /\ j.command = "sloc" => L = 3
        /\ j.command = "doxy" => L = 1
    BY ScriptLengths
  <1> HIDE DEF L
  <1>2. TestAt(j) < AgainAt(j) /\ TestAt(j) < LogAt(j) /\ VerdictAt(j) <= L /\ TestAt(j) <= L
    BY <1>1, JobTypes DEF TestAt, AgainAt, VerdictAt, LogAt
  <1>3. /\ ReplacedAt(j) < LogAt(j) \/ j.command \in {"crashme", "dbt2", "doxy", "randgen"}
        /\ j.command \in {"drizzleslap", "randgen"} => AgainAt(j) < VerdictAt(j) /\ TestAt(j) < VerdictAt(j)
        /\ j.command \notin {"drizzleslap", "randgen"} => VerdictAt(j) = 0
        /\ j.command \in {"dbt2", "drizzleslap"} => AgainAt(j) < LogAt(j) /\ VerdictAt(j) < LogAt(j)
    BY <1>1, JobTypes DEF TestAt, AgainAt, VerdictAt, LogAt, ReplacedAt
  <1>4. /\ j.command \in {"crashme", "doxy", "randgen"} => LogAt(j) > L
        /\ j.command \notin {"dbt2", "drizzleslap", "randgen"} => AgainAt(j) > L
        /\ j.command \in {"dbt2", "drizzleslap", "randgen"} => AgainAt(j) < L
    BY <1>1, JobTypes DEF AgainAt, LogAt
  <1> QED
    BY <1>2, <1>3, <1>4 DEF L
(* The ports of the steps.                                                 *)
LEMMA ScriptPorts ==
  ASSUME NEW j \in Jobs, NEW n \in 1 .. Len(Script(j))
  PROVE  Script(j)[n].port \in {Port(j), "validator"} /\ Script(j)[n].port \in Ports
  <1> DEFINE d == Script(j)[n].do
             q == Script(j)[n].port
  <1> SUFFICES q \in {Port(j), "validator"}
    BY JobTypes DEF Ports
  <1>1. CASE j.command = "crashme"
    <2>1. CrashmeStep(j, n, d, q)
      BY <1>1, ScriptLengths, CrashmeSteps
    <2> QED
      BY <2>1 DEF CrashmeStep
  <1>2. CASE j.command = "sqlbench"
    <2>1. SqlBenchStep(j, n, d, q)
      BY <1>2, ScriptLengths, SqlBenchSteps
    <2> QED
      BY <2>1 DEF SqlBenchStep
  <1>3. CASE j.command = "dbt2"
    <2>1. Dbt2Step(j, n, d, q)
      BY <1>3, ScriptLengths, Dbt2Steps
    <2> QED
      BY <2>1 DEF Dbt2Step
  <1>4. CASE j.command = "drizzleslap"
    <2>1. DrizzleSlapStep(j, n, d, q)
      BY <1>4, ScriptLengths, DrizzleSlapSteps
    <2> QED
      BY <2>1 DEF DrizzleSlapStep
  <1>5. CASE j.command = "randgen"
    <2>1. RandgenStep(j, n, d, q)
      BY <1>5, ScriptLengths, RandgenSteps
    <2>2. \A x, y : RandgenStep(j, n, x, y) => y \in {Port(j), "validator"}
      BY DEF RandgenStep
    <2> QED
      BY <2>1, <2>2
  <1>6. CASE j.command = "lcov"
    <2>1. LcovStep(j, n, d, q)
      BY <1>6, ScriptLengths, LcovSteps
    <2> QED
      BY <2>1 DEF LcovStep
  <1>7. CASE j.command = "sloc"
    <2>1. SlocStep(j, n, d, q)
      BY <1>7, ScriptLengths, SlocSteps
    <2> QED
      BY <2>1 DEF SlocStep
  <1>8. CASE j.command = "doxy"
    <2>1. DoxygenStep(j, n, d, q)
      BY <1>8, ScriptLengths, DoxygenSteps
    <2> QED
      BY <2>1 DEF DoxygenStep
  <1> QED
    BY JobTypes, <1>1, <1>2, <1>3, <1>4, <1>5, <1>6, <1>7, <1>8
-----------------------------------------------------------------------------
(* How a session goes on.                                                  *)
Moved ==
  /\ over = "no" /\ ~ busy /\ busy' = FALSE /\ failed' = failed /\ (Advance \/ Exit)
  /\ Here = "again" => round = job.tests
  /\ Here = "verdict" /\ Advance => failed = 0
Moves ==
  \/ Skip \/ Build \/ Ask \/ StopAll \/ StopAllMySQLd \/ Clear \/ ClearMySQLd \/ Start \/ StartOrExit
  \/ CreateDatabase \/ Profile \/ Stop \/ StopIfUp \/ ResetCounters \/ Measure \/ Rsync \/ Average
  \/ Scrape \/ Doxy \/ Workload \/ RemoveFile \/ Verdict \/ Log \/ Mail

LEMMA MovesMove ==
  ASSUME Moves, busy \in BOOLEAN
  PROVE  Moved
  <1>1. CASE Skip
    BY <1>1 DEF Skip, Doing, Moved, Here, TestsKept
  <1>2. CASE Build
    BY <1>2 DEF Build, Onward, Doing, Moved, Here, TestsKept
  <1>3. CASE Ask \/ ResetCounters \/ Rsync \/ Average
    BY <1>3 DEF Ask, ResetCounters, Rsync, Average, Try, Onward, Doing, Moved, Here, TestsKept
  <1>4. CASE StopAll \/ StopAllMySQLd
    BY <1>4 DEF StopAll, StopAllMySQLd, Doing, Moved, Here, TestsKept
  <1>5. CASE Clear \/ ClearMySQLd
    BY <1>5 DEF Clear, ClearMySQLd, Bootstrap, Doing, Moved, Here, TestsKept
  <1>6. CASE Start \/ StartOrExit
    BY <1>6 DEF Start, StartOrExit, Onward, Doing, Moved, Here, TestsKept
  <1>7. CASE CreateDatabase
    BY <1>7 DEF CreateDatabase, Create, Doing, Moved, Here, TestsKept
  <1>8. CASE Profile \/ Stop \/ StopIfUp
    BY <1>8 DEF Profile, Stop, StopIfUp, Doing, Moved, Here, TestsKept
  <1>9. CASE Measure \/ Workload
    BY <1>9 DEF Measure, Workload, Doing, Moved, Here
  <1>10. CASE Scrape \/ Mail
    BY <1>10 DEF Scrape, Mail, Onward, Doing, Moved, Here, TestsKept
  <1>11. CASE Doxy \/ RemoveFile
    BY <1>11 DEF Doxy, RemoveFile, Doing, Moved, Here, TestsKept
  <1>12. CASE Verdict
    BY <1>12 DEF Verdict, Onward, Advance, Exit, Doing, Moved, Here, TestsKept
  <1>13. CASE Log
    BY <1>13 DEF Log, Doing, Moved, Here
  <1> QED
    BY <1>1, <1>2, <1>3, <1>4, <1>5, <1>6, <1>7, <1>8, <1>9, <1>10, <1>11, <1>12, <1>13 DEF Moves

LEMMA AdvanceControl ==
  ASSUME Control, over = "no", Advance, busy' = FALSE, failed' \in Nat,
         failed' <= failed \/ (Here = "countedTest" /\ failed' = failed + 1),
         Here = "again" => round = job.tests,
         Here = "verdict" => failed' = 0
  PROVE  Control'
  <1> DEFINE L == Len(Script(job))
  <1>1. /\ job \in Jobs /\ at \in 1 .. L /\ session > 0 /\ round \in 1 .. job.tests
        /\ session \in 0 .. MaxSessions
    <2>1. job \in Jobs /\ at \in 1 .. L + 1 /\ at <= L /\ session > 0 /\ round \in 1 .. job.tests
          /\ session \in 0 .. MaxSessions
      BY DEF Control
    <2>2. L \in 1 .. 23
      BY <2>1, ScriptPlaces
    <2> QED
      BY <2>1, <2>2
  <1>2. /\ Landmarks(job, at, Here) /\ L \in 1 .. 23 /\ TestAt(job) \in 1 .. 11 /\ AgainAt(job) \in 10 .. 20
        /\ VerdictAt(job) \in 0 .. 23 /\ job.tests \in Nat
    BY <1>1, ScriptLandmarks, ScriptPlaces, JobTypes DEF Here
  <1>3. /\ job' = job /\ session' = session /\ round' = round /\ at' = at + 1
        /\ over' = IF at = L THEN "done" ELSE "no"
    BY DEF Advance
  <1>4. /\ failed \in Nat /\ failed <= round /\ (at <= TestAt(job) => failed < round)
        /\ at > VerdictAt(job) => failed = 0
        /\ at > AgainAt(job) => round = job.tests
        /\ at < TestAt(job) => round = 1
    BY DEF Control
  <1> HIDE DEF L
  <1>5. Here = "countedTest" => at = TestAt(job) /\ at < VerdictAt(job)
    BY <1>1, <1>2, LandmarksInOrder DEF Landmarks
  <1>6. failed' <= round /\ (at + 1 <= TestAt(job) => failed' < round)
    BY <1>1, <1>2, <1>4, <1>5
  <1>7. at + 1 > VerdictAt(job) => failed' = 0
    <2>1. CASE at = VerdictAt(job)
      BY <1>2, <2>1 DEF Landmarks
    <2>2. CASE at > VerdictAt(job)
      BY <1>1, <1>2, <1>4, <1>5, <2>2
    <2> QED
      BY <1>1, <1>2, <2>1, <2>2
  <1>8. at + 1 > AgainAt(job) => round = job.tests
    <2>1. CASE at = AgainAt(job)
      BY <1>2, <2>1 DEF Landmarks
    <2> QED
      BY <1>1, <1>2, <1>4, <2>1
  <1>9. at + 1 \in 1 .. L + 1 /\ (at # L => at + 1 <= L)
    BY <1>1, <1>2
  <1>10. at + 1 < TestAt(job) => round = 1
    BY <1>1, <1>2, <1>4
  <1> QED
    BY <1>1, <1>3, <1>6, <1>7, <1>8, <1>9, <1>10 DEF Control, L

LEMMA ExitControl ==
  ASSUME Control, over = "no", Exit, busy' = FALSE, failed' = failed
  PROVE  Control'
  BY DEF Control, Exit
LEMMA MovedControl ==
  ASSUME Control, Moved
  PROVE  Control'
  <1>1. failed \in Nat /\ failed' = failed /\ failed' <= failed
    BY DEF Control, Moved
  <1>2. CASE Advance
    BY <1>1, <1>2, AdvanceControl DEF Moved
  <1>3. CASE Exit
    BY <1>1, <1>3, ExitControl DEF Moved
  <1> QED
    BY <1>2, <1>3 DEF Moved

LEMMA NewSessionControl ==
  ASSUME Control, NewSession
  PROVE  Control'
  <1>1. ~ busy /\ busy' = FALSE
    BY DEF Control, NewSession
  <1>2. PICK j \in Jobs : job' = j
    BY DEF NewSession
  <1>3. /\ at' = 1 /\ round' = 1 /\ over' = "no" /\ failed' = 0
        /\ session' = session + 1 /\ session < MaxSessions /\ session \in 0 .. MaxSessions
    BY DEF Control, NewSession
  <1>4. /\ session' \in 0 .. MaxSessions /\ session' > 0
    BY <1>3, CommandsAssumption
  <1>5. /\ 1 \in 1 .. Len(Script(j)) + 1 /\ 1 <= Len(Script(j)) /\ ~ (1 > AgainAt(j))
    <2>1. \A l \in 1 .. 23 : 1 \in 1 .. l + 1 /\ 1 <= l
      OBVIOUS
    <2>2. \A a \in 10 .. 20 : ~ (1 > a)
      OBVIOUS
    <2> QED
      BY <2>1, <2>2, ScriptPlaces
  <1>6. 1 \in 1 .. j.tests
    BY JobTypes
  <1>7. /\ job' \in Jobs /\ at' \in 1 .. Len(Script(job')) + 1 /\ at' <= Len(Script(job'))
        /\ round' \in 1 .. job'.tests /\ ~ (at' > AgainAt(job'))
    BY <1>2, <1>3, <1>5, <1>6, Zenon
  <1>8. failed' \in Nat /\ failed' <= round' /\ failed' < round'
    BY <1>3
  <1> QED
    BY <1>1, <1>3, <1>4, <1>7, <1>8 DEF Control

LEMMA AgainControl ==
  ASSUME Control, Again
  PROVE  /\ Control'
         /\ Here = "again" /\ ~ busy /\ over = "no"
         /\ (Moved \/ (/\ at' = TestAt(job) /\ round' = round + 1 /\ job' = job /\ session' = session
                       /\ over' = over /\ busy' = FALSE /\ failed' = failed))
  <1> DEFINE L == Len(Script(job))
  <1>1. Here = "again" /\ ~ busy /\ over = "no" /\ busy' = busy /\ failed' = failed /\ busy \in BOOLEAN
    BY DEF Again, Doing, Here, TestsKept, Control
  <1>2. CASE round = job.tests /\ Advance
    <2>1. Moved
      BY <1>1, <1>2 DEF Moved
    <2> QED
      BY <1>1, <2>1, MovedControl
  <1>3. CASE /\ round < job.tests /\ round' = round + 1 /\ UNCHANGED <<job, session, over>>
             /\ at' \in {n \in 1 .. at : Script(job)[n].do \in Loops}
    <2>1. job \in Jobs /\ at \in 1 .. L /\ round \in 1 .. job.tests /\ L \in 1 .. 23 /\ job.tests \in Nat
      <3>1. job \in Jobs /\ at \in 1 .. L + 1 /\ at <= L /\ round \in 1 .. job.tests
        BY <1>1 DEF Control
      <3>2. L \in 1 .. 23 /\ job.tests \in Nat
        BY <3>1, ScriptPlaces, JobTypes
      <3> QED
        BY <3>1, <3>2
    <2>2. at' \in 1 .. L /\ Script(job)[at'].do \in Loops
      BY <1>3, <2>1
    <2>3. at' = TestAt(job)
      <3>1. ASSUME NEW n \in 1 .. L, Script(job)[n].do \in Loops
            PROVE  n = TestAt(job)
        BY <2>1, <3>1, ScriptLandmarks DEF Landmarks, Loops
      <3> QED
        BY <2>2, <3>1
    <2>4. at = AgainAt(job) /\ TestAt(job) < AgainAt(job) /\ TestAt(job) \in 1 .. 11 /\ AgainAt(job) \in 10 .. 20
      BY <1>1, <2>1, ScriptLandmarks, ScriptPlaces, LandmarksInOrder DEF Landmarks, Here
    <2>5. failed <= round /\ failed \in Nat /\ (at > VerdictAt(job) => failed = 0)
      BY <1>1 DEF Control
    <2>6. TestAt(job) > VerdictAt(job) => failed = 0
      <3>1. VerdictAt(job) \in 0 .. 23 /\ at \in Int
        BY <2>1, ScriptPlaces
      <3> HIDE DEF L
      <3> QED
        BY <2>4, <2>5, <3>1
    <2>7. round' \in 1 .. job.tests /\ failed < round'
      BY <1>3, <2>1, <2>5
    <2>8. Control'
      <3> HIDE DEF L
      <3>1. at' \in 1 .. L + 1 /\ at' <= L
        BY <2>1, <2>2
      <3>2. session \in 0 .. MaxSessions /\ session > 0
        BY <1>1 DEF Control
      <3>3. failed <= round'
        BY <2>1, <2>5, <2>7
      <3>4. ~ (TestAt(job) > AgainAt(job)) /\ ~ (TestAt(job) < TestAt(job))
        BY <2>4
      <3> QED
        BY <1>1, <1>3, <2>1, <2>3, <2>5, <2>6, <2>7, <3>1, <3>2, <3>3, <3>4 DEF Control, L
    <2> QED
      BY <1>1, <1>3, <2>3, <2>8
  <1> QED
    BY <1>2, <1>3 DEF Again

EndsTest == EndTest \/ EndLoad \/ PassTest \/ FailTest \/ CheckFails
LEMMA EndsTestControl ==
  ASSUME Control, EndsTest
  PROVE  Control' /\ busy /\ over = "no" /\ Here \in Tests /\ (Advance \/ Exit) /\ busy' = FALSE
  <1>1. busy /\ busy' = FALSE /\ over = "no" /\ Here \in Tests /\ failed \in Nat
    BY DEF Control, EndsTest, EndTest, EndLoad, PassTest, FailTest, CheckFails, Ending, Here
  <1>2. Here # "again" /\ Here # "verdict"
    BY <1>1 DEF Tests
  <1>3. \/ Advance /\ failed' = failed
        \/ Advance /\ failed' = failed + 1 /\ Here = "countedTest"
        \/ Exit /\ failed' = failed
    BY DEF EndsTest, EndTest, EndLoad, PassTest, FailTest, CheckFails, Here
  <1>4. CASE Advance /\ failed' = failed
    <2>1. failed' \in Nat /\ failed' <= failed
      BY <1>1, <1>4
    <2> QED
      BY <1>1, <1>2, <1>4, <2>1, AdvanceControl
  <1>5. CASE Advance /\ failed' = failed + 1 /\ Here = "countedTest"
    <2>1. failed' \in Nat
      BY <1>1, <1>5
    <2> QED
      BY <1>1, <1>2, <1>5, <2>1, AdvanceControl
  <1>6. CASE Exit /\ failed' = failed
    BY <1>1, <1>6, ExitControl
  <1> QED
    BY <1>1, <1>3, <1>4, <1>5, <1>6

(* The rest leaves the session where it is.                                *)
Other == BeginTest \/ Kill \/ \E p \in Ports : ServerUp(p) \/ ServerEnds(p)
LEMMA OtherControl ==
  ASSUME Control, Other
  PROVE  Control'
  <1>1. CASE BeginTest
    BY <1>1 DEF BeginTest, Doing, Here, Control, Tests
  <1>2. CASE Kill
    <2>1. Exit /\ over = "no" /\ busy' = FALSE /\ failed' = failed
      BY <1>2 DEF Kill
    <2> QED
      BY <2>1, ExitControl
  <1>3. CASE \E p \in Ports : ServerUp(p) \/ ServerEnds(p)
    BY <1>3 DEF ServerUp, ServerEnds, Free, Control
  <1> QED
    BY <1>1, <1>2, <1>3 DEF Other

LEMMA NextCases ==
  ASSUME CommandsNext
  PROVE  Moves \/ NewSession \/ Again \/ EndsTest \/ Other
  BY DEF CommandsNext, Moves, EndsTest, Other

LEMMA ControlStep ==
  ASSUME Control, CommandsNext
  PROVE  Control'
  <1>1. busy \in BOOLEAN
    BY DEF Control
  <1> QED
    BY <1>1, NextCases, MovesMove, MovedControl, NewSessionControl, AgainControl, EndsTestControl, OtherControl
-----------------------------------------------------------------------------
(* What the steps do to the servers.                                       *)
Processes  == [state : {"none", "starting", "up", "stopping"}, by : 0 .. session,
               lost : BOOLEAN, valgrind : BOOLEAN]
ServerTypes == proc \in [Ports -> Processes] /\ worn \subseteq Ports /\ bad \subseteq 1 .. session
Resting == {"none", "stopping"}

(* A step that goes on, as the port p sees it.                             *)
OwnKept(p) == job.options.server = "drizzled" =>
  /\ at > SweepAt(job) /\ OwnServer(p) => OwnServer(p)'
  /\ Here = "stopAll" => OwnServer(p)'
Stopped(p) ==
  \/ Here = "stop" /\ P = p
  \/ Here = "stopIfUp" /\ P = p /\ proc[p].state # "starting"
Behaves(p) ==
  /\ p \in worn' => p \in worn \/ Here \in {"load", "test", "countedTest", "workload"}
  /\ Here = "clear" /\ P = p => p \notin worn'
  /\ proc'[p].state = "starting" =>
       proc[p].state = "starting" \/ (P = p /\ Here \in Starting \cup {"profile"})
  /\ Here \in Creating /\ P = p => proc'[p].state = "up"
  /\ proc[p].state \in Resting => proc'[p].state \in Resting \/ (P = p /\ Here \in Starting)
  /\ proc[p].by # session => (proc[p].by # session)' \/ (P = p /\ Here \in Starting \cup {"profile"})
  /\ Leftover(p) => Leftover(p)' \/ proc'[p].state \in Resting \/ (P = p /\ Here \in Starting \cup {"profile"})
  /\ Here = "stopAll" /\ job.options.server = "drizzled" => proc'[p].state = "none" \/ Leftover(p)'
  /\ Stopped(p) => proc'[p].state \in Resting
  /\ OwnKept(p)

LEMMA PlaceAndPort ==
  ASSUME Control, over = "no"
  PROVE  /\ job \in Jobs /\ at \in 1 .. Len(Script(job)) /\ at \in 1 .. 23 /\ P \in Ports
         /\ round \in Nat /\ SweepAt(job) \in 2 .. 3
         /\ \A p \in PortsOf(job) : p \in Ports /\ (job.options.server = "drizzled" => p # "mysql")
  <1> DEFINE L == Len(Script(job))
  <1>1. job \in Jobs /\ at \in 1 .. L + 1 /\ at <= L /\ round \in 1 .. job.tests
    BY DEF Control
  <1>2. L \in 1 .. 23 /\ job.tests \in Nat /\ SweepAt(job) \in 2 .. 3
    BY <1>1, ScriptPlaces, JobTypes
  <1> HIDE DEF L
  <1>3. at \in 1 .. L /\ at \in 1 .. 23 /\ round \in Nat
    BY <1>1, <1>2
  <1>4. P \in Ports
    BY <1>1, <1>3, ScriptPorts DEF P, L
  <1>5. \A p \in PortsOf(job) : p \in Ports /\ (job.options.server = "drizzled" => p # "mysql")
    BY <1>1, JobTypes DEF PortsOf, Ports, Port
  <1> QED
    BY <1>1, <1>2, <1>3, <1>4, <1>5 DEF L

LEMMA LateStays ==
  ASSUME Control, over = "no", Advance, NEW p, Late(p)
  PROVE  Late(p)'
  <1>1. at \in 1 .. 23
    BY PlaceAndPort
  <1>2. at > 13 => at + 1 > 13
    BY <1>1
  <1> QED
    BY <1>2 DEF Late, Advance, Port

LEMMA OwnStays ==
  ASSUME Control, over = "no", Advance, NEW p, OwnServer(p),
         \/ proc'[p].state = "none" \/ proc'[p].by = session
         \/ proc[p].state # "none" /\ proc'[p].by = proc[p].by /\ proc'[p].valgrind = proc[p].valgrind,
         \/ ~ proc'[p].lost \/ proc'[p].state = "stopping"
         \/ proc[p].lost /\ proc[p].state # "stopping" /\ proc'[p].by = proc[p].by
  PROVE  OwnServer(p)'
  <1>1. session' = session
    BY DEF Advance
  <1>2. proc[p].lost /\ proc[p].state # "stopping" => Late(p)' \/ proc[p].by # session
    BY LateStays DEF OwnServer
  <1> QED
    BY <1>1, <1>2 DEF OwnServer

LEMMA UntouchedBehaves ==
  ASSUME Control, over = "no", Advance, NEW p \in PortsOf(job),
         worn' = worn \/ (Here \in {"load", "test", "countedTest", "workload"}), proc' = proc,
         Here \notin {"clear", "stop", "stopIfUp"} \cup Creating,
         Here = "stopAll" => job.options.server # "drizzled"
  PROVE  Behaves(p)
  <1>1. OwnKept(p)
    BY OwnStays DEF OwnKept, OwnServer
  <1>2. (proc[p].by # session => (proc[p].by # session)') /\ (Leftover(p) => Leftover(p)')
    BY DEF Leftover, Advance
  <1> QED
    BY <1>1, <1>2 DEF Behaves, Stopped

LEMMA StopAllBehaves ==
  ASSUME Control, StopAll, NEW p \in PortsOf(job), PortKept(p)
  PROVE  Behaves(p)
  <1>1. Here = "stopAll" /\ over = "no" /\ Advance /\ worn' = worn /\ job.options.server = "drizzled"
    BY DEF StopAll, Doing, Here, OfDrizzle
  <1>2. p \in Ports /\ p # "mysql" /\ session' = session
    BY <1>1, PlaceAndPort DEF Advance
  <1>3. proc'[p] = IF proc[p].valgrind THEN proc[p] ELSE NoProcess
    BY <1>2 DEF StopAll
  <1>4. NoProcess.state = "none" /\ ~ NoProcess.lost
    BY DEF NoProcess
  <1>5. proc[p].by # session
    <2>1. job \in Jobs /\ at \in 1 .. Len(Script(job)) /\ SweepAt(job) \in 2 .. 3 /\ at \in 1 .. 23
      BY <1>1, PlaceAndPort
    <2>2. Respects(job, Here, P, at, at + 1, p)
      BY <2>1, ScriptsRespect DEF Here, P, Leads
    <2>3. at <= SweepAt(job)
      BY <1>1, <2>2 DEF Respects, Ready
    <2> QED
      BY <2>3 DEF PortKept
  <1>6. OwnServer(p)'
    BY <1>2, <1>3, <1>4, <1>5 DEF OwnServer
  <1>7. proc'[p].state = "none" \/ Leftover(p)'
    BY <1>2, <1>3, <1>4, <1>5 DEF Leftover
  <1>8. (proc[p].by # session)' /\ (Leftover(p) => Leftover(p)')
    <2>1. session # 0 /\ NoProcess.by = 0
      BY <1>1, CommandsAssumption DEF NoProcess, Control
    <2> QED
      BY <1>2, <1>3, <1>5, <2>1 DEF Leftover
  <1> QED
    BY <1>1, <1>3, <1>4, <1>6, <1>7, <1>8 DEF Behaves, Stopped, OwnKept, Resting, Creating
(* The steps that put a process on their port.                             *)
LEMMA PutAt ==
  ASSUME ServerTypes, NEW p \in Ports, NEW x, NEW q \in Ports, Put(q, x)
  PROVE  proc'[p] = IF p = q THEN x ELSE proc[p]
  BY DEF Put, ServerTypes

LEMMA ElsewhereBehaves ==
  ASSUME Control, ServerTypes, over = "no", Advance, NEW p \in PortsOf(job), p # P,
         NEW x, Put(P, x), worn' \subseteq worn, Here # "stopAll"
  PROVE  Behaves(p)
  <1>1. proc'[p] = proc[p]
    BY PutAt, PlaceAndPort
  <1>2. OwnKept(p)
    BY <1>1, OwnStays DEF OwnKept, OwnServer
  <1>3. (proc[p].by # session => (proc[p].by # session)') /\ (Leftover(p) => Leftover(p)')
    BY <1>1 DEF Leftover, Advance
  <1> QED
    BY <1>1, <1>2, <1>3 DEF Behaves, Stopped

LEMMA LaunchedOnes ==
  ASSUME NEW t \in Processes, NEW x \in Launched(t)
  PROVE  /\ x \in [state : {"none", "starting", "up", "stopping"}, by : {0, session, t.by}, lost : BOOLEAN,
                  valgrind : BOOLEAN]
         /\ x.state = "none" \/ x.by = session \/ (x.by = t.by /\ x.valgrind = t.valgrind /\ t.state # "none")
         /\ x.lost => t.lost /\ x.by = t.by /\ (t.state = "stopping" => x.state = "stopping")
         /\ x.state = "stopping" => t.state = "stopping"
  <1> DEFINE Possible == [state : {"none", "starting", "up", "stopping"}, by : {0, session, t.by}, lost : BOOLEAN,
                          valgrind : BOOLEAN]
  <1>n. NoProcess \in Possible /\ NoProcess.state = "none" /\ ~ NoProcess.lost
    BY DEF NoProcess
  <1>p. ASSUME NEW s \in {"starting", "up"}
        PROVE  Process(s) \in Possible /\ Process(s).state = s /\ Process(s).by = session /\ ~ Process(s).lost
    <2>1. Profiling \in BOOLEAN
      BY DEF Profiling
    <2> QED
      BY <2>1 DEF Process
  <1>t. t \in Possible
    BY DEF Processes
  <1> HIDE DEF Possible
  <1>1. CASE t.state = "none"
    <2>1. x \in {NoProcess, Process("starting"), Process("up")}
      BY <1>1 DEF Launched
    <2> QED
      BY <1>1, <2>1, <1>n, <1>p DEF Possible
  <1>2. CASE t.state = "stopping"
    <2>1. x \in {NoProcess, Process("starting"), Process("up"), t}
      BY <1>2 DEF Launched
    <2> QED
      BY <1>2, <2>1, <1>n, <1>p, <1>t DEF Possible
  <1>3. CASE t.state \notin {"none", "stopping"}
    <2>1. x \in {t, [t EXCEPT !.state = "up"]}
      BY <1>3 DEF Launched
    <2>2. [t EXCEPT !.state = "up"] \in Processes /\ [t EXCEPT !.state = "up"].by = t.by
          /\ [t EXCEPT !.state = "up"].valgrind = t.valgrind
          /\ [t EXCEPT !.state = "up"].lost = t.lost /\ [t EXCEPT !.state = "up"].state = "up"
      BY DEF Processes
    <2> QED
      BY <1>3, <1>t, <2>1, <2>2 DEF Possible, Processes
  <1> QED
    BY <1>1, <1>2, <1>3 DEF Possible

LEMMA LaunchBehaves ==
  ASSUME Control, ServerTypes, over = "no", Advance, NEW p \in PortsOf(job),
         NEW t \in Processes, t.lost = proc[P].lost, t.by = proc[P].by, t.valgrind = proc[P].valgrind,
         t.state = proc[P].state \/ (t.state = "stopping" /\ proc[P].state # "none"),
         NEW x \in Launched(t), Put(P, x), worn' = worn,
         Here \in Starting \/ (Here = "profile" /\ proc[P].state \notin Resting)
  PROVE  Behaves(p)
  <1>1. Here \notin {"stopAll", "clear", "stop", "stopIfUp"} \cup Creating
    BY DEF Starting, Creating
  <1>2. CASE p # P
    BY <1>1, <1>2, ElsewhereBehaves
  <1>3. CASE p = P
    <2>1. proc'[p] = x
      BY <1>3, PutAt, PlaceAndPort
    <2>2. OwnKept(p)
      BY <1>1, <1>3, <2>1, LaunchedOnes, OwnStays DEF OwnKept
    <2>3. p = P /\ Here \in Starting \cup {"profile"}
      BY <1>3
    <2>4. proc[p].state \in Resting => Here \in Starting
      BY <1>3
    <2> QED
      BY <1>1, <2>1, <2>2, <2>3, <2>4 DEF Behaves, Stopped
  <1> QED
    BY <1>2, <1>3

LEMMA StartBehaves ==
  ASSUME Control, ServerTypes, Start \/ (StartOrExit /\ Advance), NEW p \in PortsOf(job)
  PROVE  Behaves(p)
  <1>1. Here \in Starting /\ over = "no" /\ Advance /\ worn' = worn
    BY DEF Start, StartOrExit, Doing, Here, Starting
  <1>2. PICK x \in Launched(proc[P]) : Put(P, x)
    BY DEF Start, StartOrExit
  <1>3. proc[P] \in Processes
    BY <1>1, PlaceAndPort DEF ServerTypes
  <1> QED
    BY <1>1, <1>2, <1>3, LaunchBehaves

LEMMA ProfileBehaves ==
  ASSUME Control, ServerTypes, Profile, Advance, NEW p \in PortsOf(job)
  PROVE  Behaves(p)
  <1>1. Here = "profile" /\ over = "no" /\ worn' = worn
    BY DEF Profile, Doing, Here
  <1>2. proc[P] \in Processes
    BY <1>1, PlaceAndPort DEF ServerTypes
  <1>3. over' # "exit"
    BY DEF Advance
  <1>4. Up(P) /\ \E x \in Launched([proc[P] EXCEPT !.state = "stopping"]) : Put(P, x)
    BY <1>3 DEF Profile, Exit
  <1> DEFINE t == [proc[P] EXCEPT !.state = "stopping"]
  <1>5. t \in Processes /\ t.state = "stopping" /\ t.lost = proc[P].lost /\ t.by = proc[P].by
        /\ t.valgrind = proc[P].valgrind
    BY <1>2 DEF Processes
  <1>6. PICK x \in Launched(t) : Put(P, x)
    BY <1>4
  <1>7. proc[P].state \notin Resting
    BY <1>4 DEF Up, Resting
  <1> HIDE DEF t
  <1> QED
    BY <1>1, <1>5, <1>6, <1>7, LaunchBehaves DEF Resting
(* rm -rf of a directory that a server has open would show in a test, were *)
(* the server not told to stop before.                                     *)
LEMMA ClearBehaves ==
  ASSUME Control, ServerTypes, Clear \/ (ClearMySQLd /\ Advance), NEW p \in PortsOf(job), PortKept(p)
  PROVE  Behaves(p)
  <1>1. Here = "clear" /\ over = "no" /\ Advance /\ worn' = worn \ {P}
    BY DEF Clear, ClearMySQLd, Doing, Here, Exit, Advance
  <1>2. /\ job \in Jobs /\ at \in 1 .. Len(Script(job)) /\ p \in Ports /\ P \in Ports /\ at \in 1 .. 23
        /\ job.options.server = "drizzled" => p # "mysql"
    BY <1>1, PlaceAndPort
  <1>3. proc[P] \in Processes
    BY <1>2 DEF ServerTypes
  <1> DEFINE l == Lost(P)
             s == [proc[P] EXCEPT !.state = "stopping"]
  <1>4. /\ l \in Processes /\ l.state = proc[P].state /\ l.by = proc[P].by /\ l.valgrind = proc[P].valgrind
        /\ l.lost => l.state # "none"
    BY <1>3 DEF Lost, Processes
  <1>5. /\ s \in Processes /\ s.state = "stopping" /\ s.by = proc[P].by /\ s.lost = proc[P].lost
        /\ s.valgrind = proc[P].valgrind
    BY <1>3 DEF Processes
  <1> HIDE DEF l, s
  <1>6. \/ Put(P, l)
        \/ Put(P, s) /\ proc[P].state = "up" /\ P = "mysql"
    BY <1>1 DEF Clear, ClearMySQLd, Bootstrap, Stopping, Exit, Advance, Up, l, s
  <1>7. CASE p # P
    BY <1>1, <1>6, <1>7, ElsewhereBehaves
  <1>8. CASE p = P /\ Put(P, s) /\ P = "mysql"
    <2>1. proc'[p] = s
      BY <1>2, <1>8, PutAt
    <2>2. OwnKept(p)
      BY <1>2, <1>8 DEF OwnKept
    <2>3. (proc[p].by # session => (proc[p].by # session)') /\ (Leftover(p) => Leftover(p)')
      BY <1>1, <1>5, <1>8, <2>1 DEF Leftover, Advance
    <2> QED
      BY <1>1, <1>5, <1>8, <2>1, <2>2, <2>3 DEF Behaves, Stopped, Starting, Creating, Resting
  <1>9. CASE p = P /\ Put(P, l)
    <2>1. proc'[p] = l
      BY <1>2, <1>9, PutAt
    <2>2. ASSUME job.options.server = "drizzled", at > SweepAt(job), OwnServer(p)
          PROVE  OwnServer(p)'
      <3>1. Ready(job, Here, P, at, p)
        <4>1. Leads(job, Here, at, at + 1)
          BY DEF Leads
        <4> QED
          BY <1>2, <4>1, ScriptsRespect DEF Respects, Here, P
      <3>2. CASE at \in Gone(job, p)
        <4>1. proc[p].state \in {"none", "stopping"}
          BY <3>2 DEF PortKept
        <4> QED
          BY <1>1, <1>4, <1>9, <2>1, <2>2, <4>1 DEF OwnServer, Advance
      <3>3. CASE at = 13 /\ p = Port(job) /\ job.command = "randgen" /\ job.options.profiler
        <4>1. Late(p)'
          BY <1>1, <3>3 DEF Late, Advance, Port
        <4> QED
          BY <1>1, <1>4, <1>9, <2>1, <2>2, <4>1 DEF OwnServer, Advance
      <3>4. CASE at \in Swept(job)
        <4>1. proc[p].state \in {"none", "stopping"} \/ Leftover(p)
          BY <3>4 DEF PortKept
        <4> QED
          BY <1>1, <1>4, <1>9, <2>1, <2>2, <4>1 DEF OwnServer, Advance, Leftover
      <3> QED
        BY <1>1, <1>9, <2>2, <3>1, <3>2, <3>3, <3>4 DEF Ready
    <2>3. OwnKept(p)
      BY <1>1, <2>2 DEF OwnKept
    <2>4. (proc[p].by # session => (proc[p].by # session)') /\ (Leftover(p) => Leftover(p)')
      BY <1>1, <1>4, <1>9, <2>1 DEF Leftover, Advance
    <2> QED
      BY <1>1, <1>4, <1>9, <2>1, <2>3, <2>4 DEF Behaves, Stopped, Starting, Creating
  <1> QED
    BY <1>6, <1>7, <1>8, <1>9

LEMMA CreateBehaves ==
  ASSUME Control, ServerTypes, CreateDatabase, Advance, NEW p \in PortsOf(job)
  PROVE  Behaves(p)
  <1>1. Here \in Creating /\ over = "no" /\ worn' = worn /\ over' # "exit"
    BY DEF CreateDatabase, Create, Doing, Here, Creating, Advance
  <1>2. Up(P) /\ proc' = proc
    BY <1>1 DEF CreateDatabase, Create, Exit
  <1>3. OwnKept(p)
    BY <1>1, <1>2, OwnStays DEF OwnKept, OwnServer, Creating
  <1>4. (proc[p].by # session => (proc[p].by # session)') /\ (Leftover(p) => Leftover(p)')
    BY <1>2 DEF Leftover, Advance
  <1> QED
    BY <1>1, <1>2, <1>3, <1>4 DEF Behaves, Stopped, Creating, Up

LEMMA StopBehaves ==
  ASSUME Control, ServerTypes, Stop \/ StopIfUp, Advance, NEW p \in PortsOf(job)
  PROVE  Behaves(p)
  <1>1. Here \in {"stop", "stopIfUp"} /\ over = "no" /\ worn' = worn /\ over' # "exit"
    BY DEF Stop, StopIfUp, Doing, Here, Advance
  <1>2. \/ Up(P) /\ Stopping(P)
        \/ ~ Up(P) /\ proc' = proc /\ Here = "stopIfUp"
    BY <1>1 DEF Stop, StopIfUp, Exit, Doing, Here
  <1> DEFINE s == [proc[P] EXCEPT !.state = "stopping"]
  <1>3. proc[P] \in Processes /\ p \in Ports /\ P \in Ports
    BY <1>1, PlaceAndPort DEF ServerTypes
  <1>4. /\ s.state = "stopping" /\ s.by = proc[P].by /\ s.lost = proc[P].lost /\ s.valgrind = proc[P].valgrind
    BY <1>3 DEF Processes
  <1>5. Stopping(P) => Put(P, s)
    BY DEF Stopping
  <1> HIDE DEF s
  <1>6. CASE p # P /\ Put(P, s)
    BY <1>1, <1>6, ElsewhereBehaves
  <1>7. CASE p = P /\ Put(P, s) /\ Up(P)
    <2>1. proc'[p] = s
      BY <1>3, <1>7, PutAt
    <2>2. OwnKept(p)
      BY <1>1, <1>4, <1>7, <2>1, OwnStays DEF OwnKept, Up
    <2>3. (proc[p].by # session => (proc[p].by # session)') /\ (Leftover(p) => Leftover(p)')
      BY <1>4, <1>7, <2>1 DEF Leftover, Advance
    <2> QED
      BY <1>1, <1>4, <1>7, <2>1, <2>2, <2>3 DEF Behaves, Stopped, Starting, Creating, Resting
  <1>8. CASE ~ Up(P) /\ proc' = proc /\ Here = "stopIfUp"
    <2>1. OwnKept(p)
      BY <1>1, <1>8, OwnStays DEF OwnKept, OwnServer
    <2>2. p = P /\ proc[p].state # "starting" => proc[p].state \in Resting
      BY <1>3, <1>8 DEF Up, Resting, Processes
    <2>3. (proc[p].by # session => (proc[p].by # session)') /\ (Leftover(p) => Leftover(p)')
      BY <1>8 DEF Leftover, Advance
    <2> QED
      BY <1>1, <1>8, <2>1, <2>2, <2>3 DEF Behaves, Stopped, Creating
  <1> QED
    BY <1>2, <1>5, <1>6, <1>7, <1>8
LEMMA MoveBehaves ==
  ASSUME Control, ServerTypes, Servers, Moves, Advance, NEW p \in PortsOf(job)
  PROVE  Behaves(p)
  <1>1. over = "no" /\ PortKept(p)
    BY MovesMove DEF Control, Moved, Servers
  <1>2. CASE Start \/ StartOrExit
    BY <1>2, StartBehaves
  <1>3. CASE Profile
    BY <1>3, ProfileBehaves
  <1>4. CASE Clear \/ ClearMySQLd
    BY <1>1, <1>4, ClearBehaves
  <1>5. CASE CreateDatabase
    BY <1>5, CreateBehaves
  <1>6. CASE Stop \/ StopIfUp
    BY <1>6, StopBehaves
  <1>7. CASE StopAll
    BY <1>1, <1>7, StopAllBehaves
  <1>8. CASE StopAllMySQLd
    <2>1. Here = "stopAll" /\ job.options.server # "drizzled" /\ worn' = worn /\ proc' = proc
      BY <1>8 DEF StopAllMySQLd, Doing, Here, OfDrizzle
    <2> QED
      BY <1>1, <2>1, UntouchedBehaves DEF Creating
  <1>9. CASE Workload
    <2>1. Here = "workload" /\ proc' = proc
      BY <1>9 DEF Workload, Doing, Here, Exit, Advance
    <2> QED
      BY <1>1, <2>1, UntouchedBehaves DEF Creating
  <1>10. CASE Skip \/ Build \/ Ask \/ ResetCounters \/ Rsync \/ Average
    <2>1. Here \in {"skip", "build", "ask", "reset", "rsync", "average"} /\ worn' = worn /\ proc' = proc
      BY <1>10 DEF Skip, Build, Ask, ResetCounters, Rsync, Average, Try, Doing, Here
    <2> QED
      BY <1>1, <2>1, UntouchedBehaves DEF Creating
  <1>11. CASE Measure \/ Scrape \/ Doxy \/ RemoveFile \/ Verdict \/ Log \/ Mail
    <2>1. /\ Here \in {"measure", "scrape", "doxy", "removeFile", "verdict", "log", "mail"}
          /\ worn' = worn /\ proc' = proc
      BY <1>11 DEF Measure, Scrape, Doxy, RemoveFile, Verdict, Log, Mail, Doing, Here
    <2> QED
      BY <1>1, <2>1, UntouchedBehaves DEF Creating
  <1> QED
    BY <1>2, <1>3, <1>4, <1>5, <1>6, <1>7, <1>8, <1>9, <1>10, <1>11 DEF Moves

LEMMA PortStep ==
  ASSUME Control, over = "no", NEW p \in PortsOf(job), PortKept(p), Behaves(p),
         job' = job, session' = session, Leads(job, Here, at, at')
  PROVE  PortKept(p)'
  <1>1. /\ job \in Jobs /\ at \in 1 .. Len(Script(job))
    BY PlaceAndPort
  <1>2. Respects(job, Here, P, at, at', p)
    BY <1>1, ScriptsRespect DEF Here, P
  <1>3. busy => Here \in Tests
    BY DEF Control, Here
  <1>4. at' \in Cleared(job, p) => p \notin worn'
    BY <1>2, <1>3 DEF Respects, KeepsCleared, Behaves, PortKept, Tests
  <1>5. at' \in Settled(job, p) => proc'[p].state # "starting"
    BY <1>2 DEF Respects, KeepsSettled, Behaves, PortKept
  <1>6. at' \in Gone(job, p) => proc'[p].state \in {"none", "stopping"}
    BY <1>2 DEF Respects, KeepsGone, Behaves, Stopped, PortKept, Resting
  <1>7. job.options.server = "drizzled" /\ at' > SweepAt(job) => OwnServer(p)'
    BY <1>2 DEF Respects, KeepsSwept, Behaves, OwnKept, PortKept
  <1>8. at' <= SweepAt(job) => (proc[p].by # session)'
    <2>1. at' <= SweepAt(job) => at <= SweepAt(job) /\ Here \notin Starting \cup {"profile"}
      BY <1>2 DEF Respects, KeepsSwept
    <2> QED
      BY <2>1 DEF Behaves, PortKept
  <1>9. at' \in Swept(job) => proc'[p].state \in {"none", "stopping"} \/ Leftover(p)'
    <2>1. ASSUME at' \in Swept(job)
          PROVE  \/ at \in Swept(job) /\ Here \notin Starting \cup {"profile"}
                 \/ Here = "stopAll" /\ job.options.server = "drizzled"
      BY <1>2, <2>1 DEF Respects, KeepsSwept
    <2> QED
      BY <2>1 DEF Behaves, PortKept, Resting
  <1> QED
    BY <1>4, <1>5, <1>6, <1>7, <1>8, <1>9 DEF PortKept

LEMMA AdvanceServers ==
  ASSUME Control, over = "no", Servers, Advance, \A p \in PortsOf(job) : Behaves(p)
  PROVE  Servers' /\ NothingLeft'
  <1>1. /\ job' = job /\ session' = session /\ at' = at + 1 /\ job \in Jobs
        /\ over' = "done" => at' = Len(Script(job)) + 1
    BY PlaceAndPort DEF Advance
  <1>2. ASSUME NEW p \in PortsOf(job)
        PROVE  PortKept(p)'
    BY <1>1, PortStep DEF Servers, Leads
  <1>3. ASSUME NEW p \in PortsOf(job), over' = "done"
        PROVE  proc'[p].state \in {"none", "stopping"}
    BY <1>1, <1>2, <1>3, Ends DEF PortKept
  <1> QED
    BY <1>1, <1>2, <1>3 DEF Servers, NothingLeft

LEMMA ExitServers ==
  ASSUME Exit
  PROVE  Servers' /\ NothingLeft'
  BY DEF Exit, Servers, NothingLeft

LEMMA AgainServers ==
  ASSUME Control, ServerTypes, Servers, Again
  PROVE  Servers' /\ NothingLeft'
  <1>1. Here = "again" /\ over = "no" /\ ~ busy /\ proc' = proc /\ worn' = worn
    BY AgainControl DEF Again
  <1>2. CASE Advance
    <2>1. \A p \in PortsOf(job) : Behaves(p)
      BY <1>1, <1>2, UntouchedBehaves DEF Creating
    <2> QED
      BY <1>1, <1>2, <2>1, AdvanceServers
  <1>3. CASE Exit
    BY <1>3, ExitServers
  <1>4. CASE at' = TestAt(job) /\ round' = round + 1 /\ job' = job /\ session' = session /\ over' = over
    <2>1. round' > 1
      <3>1. round \in Nat /\ round >= 1
        <4>1. round \in 1 .. job.tests /\ job.tests \in Nat
          BY PlaceAndPort, JobTypes, <1>1 DEF Control
        <4> QED
          BY <4>1
      <3> QED
        BY <1>4, <3>1
    <2>2. ASSUME NEW p \in PortsOf(job)
          PROVE  PortKept(p)'
      <3>1. OwnServer(p) => OwnServer(p)'
        BY <1>1, <1>4, <2>1 DEF OwnServer, Late, Port
      <3>4. (proc[p].by # session => (proc[p].by # session)') /\ (Leftover(p) => Leftover(p)')
        BY <1>1, <1>4 DEF Leftover
      <3>2. Behaves(p)
        BY <1>1, <3>1, <3>4 DEF Behaves, OwnKept, Stopped, Creating
      <3>3. Leads(job, Here, at, at')
        BY <1>1, <1>4 DEF Leads
      <3> QED
        BY <1>1, <1>4, <3>2, <3>3, PortStep DEF Servers
    <2> QED
      BY <1>1, <1>4, <2>2 DEF Servers, NothingLeft
  <1> QED
    BY <1>2, <1>3, <1>4, AgainControl DEF Moved

LEMMA NewSessionServers ==
  ASSUME Control, ServerTypes, NewSession
  PROVE  Servers' /\ NothingLeft'
  <1>1. PICK j \in Jobs : job' = j
    BY DEF NewSession
  <1>2. at' = 1 /\ over' = "no" /\ SweepAt(j) \in 2 .. 3
    BY ScriptPlaces DEF NewSession
  <1>3. ~ (1 > SweepAt(j))
    BY <1>2
  <1>4. ASSUME NEW p \in PortsOf(j)
        PROVE  1 \notin Cleared(j, p) /\ 1 \notin Settled(j, p) /\ 1 \notin Gone(j, p) /\ 1 \notin Swept(j)
    BY Ends
  <1>5. ASSUME NEW p \in PortsOf(j)
        PROVE  proc'[p].by # session'
    <2>1. p \in Ports
      BY JobTypes DEF PortsOf, Ports, Port
    <2>2. proc[p].by \in 0 .. session /\ session \in Nat /\ session' = session + 1 /\ proc' = proc
      BY <2>1, CommandsAssumption DEF ServerTypes, Processes, NewSession, Control
    <2> QED
      BY <2>2
  <1> QED
    BY <1>1, <1>2, <1>3, <1>4, <1>5 DEF Servers, PortKept, NothingLeft

LEMMA EndsTestServers ==
  ASSUME Control, ServerTypes, Servers, EndsTest
  PROVE  Servers' /\ NothingLeft'
  <1>1. over = "no" /\ Here \in Tests /\ (Advance \/ Exit)
    BY EndsTestControl
  <1>2. worn' = worn /\ proc' = proc
    BY DEF EndsTest, EndTest, EndLoad, PassTest, FailTest, CheckFails, Ending
  <1>3. CASE Advance
    <2>1. \A p \in PortsOf(job) : Behaves(p)
      BY <1>1, <1>2, <1>3, UntouchedBehaves DEF Creating, Tests
    <2> QED
      BY <1>1, <1>3, <2>1, AdvanceServers
  <1> QED
    BY <1>1, <1>3, ExitServers

LEMMA OtherServers ==
  ASSUME Control, ServerTypes, Servers, NothingLeft, Other
  PROVE  Servers' /\ NothingLeft'
  <1>1. CASE BeginTest
    BY <1>1 DEF BeginTest, Servers, PortKept, OwnServer, Leftover, Late, Port, NothingLeft
  <1>2. CASE Kill
    BY <1>2, ExitServers DEF Kill
  <1>3. ASSUME NEW q \in Ports, ServerUp(q)
        PROVE  Servers' /\ NothingLeft'
    <2> DEFINE u == [proc[q] EXCEPT !.state = "up"]
    <2>1. proc[q] \in Processes /\ proc[q].state = "starting"
      BY <1>3 DEF ServerTypes, ServerUp
    <2>2. u.state = "up" /\ u.by = proc[q].by /\ u.lost = proc[q].lost /\ u.valgrind = proc[q].valgrind
      BY <2>1 DEF Processes
    <2>3. Put(q, u)
      BY <1>3 DEF ServerUp
    <2> HIDE DEF u
    <2>4. \A p \in Ports : proc'[p] = IF p = q THEN u ELSE proc[p]
      BY <1>3, <2>3, PutAt
    <2>5. \A p \in PortsOf(job) : p \in Ports
      BY JobTypes DEF PortsOf, Ports, Port, Control
    <2>6. UNCHANGED <<job, session, at, round, over, busy, worn>>
      BY <1>3 DEF ServerUp, Free
    <2>7. ASSUME NEW p \in Ports, PortKept(p)
          PROVE  PortKept(p)'
      BY <2>1, <2>2, <2>4, <2>6, <2>7 DEF PortKept, OwnServer, Leftover, Late, Port
    <2> QED
      BY <2>1, <2>4, <2>5, <2>6, <2>7 DEF Servers, NothingLeft
  <1>4. ASSUME NEW q \in Ports, ServerEnds(q)
        PROVE  Servers' /\ NothingLeft'
    <2>1. NoProcess.state = "none" /\ ~ NoProcess.lost /\ NoProcess.by = 0
      BY DEF NoProcess
    <2>2. \A p \in Ports : proc'[p] = IF p = q THEN NoProcess ELSE proc[p]
      BY <1>4, PutAt DEF ServerEnds
    <2>3. \A p \in PortsOf(job) : p \in Ports
      BY JobTypes DEF PortsOf, Ports, Port, Control
    <2>4. UNCHANGED <<job, session, at, round, over, busy, worn>>
      BY <1>4 DEF ServerEnds, Free
    <2>5. ASSUME NEW p \in Ports, PortKept(p), over = "no"
          PROVE  PortKept(p)'
      <3>1. session \in Nat /\ session # 0
        BY <2>5, CommandsAssumption DEF Control
      <3> QED
        BY <2>1, <2>2, <2>4, <2>5, <3>1 DEF PortKept, OwnServer, Leftover, Late, Port
    <2> QED
      BY <2>1, <2>2, <2>3, <2>4, <2>5 DEF Servers, NothingLeft
  <1> QED
    BY <1>1, <1>2, <1>3, <1>4 DEF Other

LEMMA ServersStep ==
  ASSUME Control, ServerTypes, Servers, NothingLeft, CommandsNext
  PROVE  Servers' /\ NothingLeft'
  <1>1. CASE Moves
    <2>1. over = "no" /\ (Advance \/ Exit)
      BY <1>1, MovesMove DEF Control, Moved
    <2>2. CASE Advance
      BY <1>1, <2>1, <2>2, MoveBehaves, AdvanceServers
    <2> QED
      BY <2>1, <2>2, ExitServers
  <1> QED
    BY <1>1, NextCases, NewSessionServers, AgainServers, EndsTestServers, OtherServers
LEMMA PutTyped ==
  ASSUME ServerTypes, NEW q \in Ports, NEW x \in Processes, Put(q, x)
  PROVE  proc' \in [Ports -> Processes]
  BY DEF ServerTypes, Put

LEMMA LaunchTyped ==
  ASSUME NEW t \in Processes, NEW x \in Launched(t), session \in Nat
  PROVE  x \in Processes
  <1>1. \A b \in {0, session, t.by} : b \in 0 .. session
    BY DEF Processes
  <1> QED
    BY <1>1, LaunchedOnes DEF Processes

LEMMA MoveTyped ==
  ASSUME Control, ServerTypes, Moves
  PROVE  proc' \in [Ports -> Processes] /\ worn' \subseteq Ports
  <1>1. over = "no" /\ P \in Ports /\ proc[P] \in Processes /\ session \in Nat
    <2>1. over = "no"
      BY MovesMove DEF Control, Moved
    <2> QED
      BY <2>1, PlaceAndPort, CommandsAssumption DEF Control, ServerTypes
  <1> DEFINE l == Lost(P)
             s == [proc[P] EXCEPT !.state = "stopping"]
             n == NoProcess
  <1>2. l \in Processes /\ s \in Processes /\ n \in Processes
    <2>1. n \in Processes
      BY <1>1 DEF NoProcess, Processes
    <2>2. s \in Processes
      BY <1>1 DEF Processes
    <2>3. l \in Processes
      BY <1>1 DEF Lost, Processes
    <2> QED
      BY <2>1, <2>2, <2>3
  <1> HIDE DEF l, s, n
  <1>3. CASE Start \/ StartOrExit
    <2>1. worn' = worn /\ \E x \in Launched(proc[P]) : Put(P, x)
      BY <1>3 DEF Start, StartOrExit
    <2> QED
      BY <1>1, <2>1, LaunchTyped, PutTyped DEF ServerTypes
  <1>4. CASE Profile
    <2>1. worn' = worn /\ (proc' = proc \/ Put(P, s) \/ \E x \in Launched(s) : Put(P, x))
      BY <1>4 DEF Profile, Stopping, s
    <2> QED
      BY <1>1, <1>2, <2>1, LaunchTyped, PutTyped DEF ServerTypes
  <1>5. CASE Clear \/ ClearMySQLd
    <2>1. worn' \subseteq worn /\ (proc' = proc \/ Put(P, s) \/ Put(P, l) \/ Put(P, n))
      BY <1>5 DEF Clear, ClearMySQLd, Bootstrap, Stopping, s, l, n
    <2> QED
      BY <1>1, <1>2, <2>1, PutTyped DEF ServerTypes
  <1>6. CASE CreateDatabase \/ Stop \/ StopIfUp
    <2>1. worn' = worn /\ (proc' = proc \/ Put(P, s) \/ Put(P, n))
      BY <1>6 DEF CreateDatabase, Create, Stop, StopIfUp, Stopping, s, n
    <2> QED
      BY <1>1, <1>2, <2>1, PutTyped DEF ServerTypes
  <1>7. CASE StopAll
    <2>1. worn' = worn /\ proc' = [p \in Ports |-> IF p = "mysql" \/ proc[p].valgrind THEN proc[p] ELSE n]
      BY <1>7 DEF StopAll, n
    <2> QED
      BY <1>2, <2>1 DEF ServerTypes
  <1>8. CASE Workload
    <2>1. worn' = worn \cup {P} /\ (proc' = proc \/ \E x \in Launched(proc[P]) : Put(P, x))
      BY <1>8 DEF Workload
    <2> QED
      BY <1>1, <2>1, LaunchTyped, PutTyped DEF ServerTypes
  <1>9. CASE StopAllMySQLd \/ Skip \/ Build \/ Ask \/ ResetCounters \/ Rsync \/ Average
    BY <1>9 DEF StopAllMySQLd, Skip, Build, Ask, ResetCounters, Rsync, Average, Try, ServerTypes
  <1>10. CASE Measure \/ Scrape \/ Doxy \/ RemoveFile \/ Verdict \/ Log \/ Mail
    BY <1>10 DEF Measure, Scrape, Doxy, RemoveFile, Verdict, Log, Mail, ServerTypes
  <1> QED
    BY <1>3, <1>4, <1>5, <1>6, <1>7, <1>8, <1>9, <1>10 DEF Moves

LEMMA OtherTyped ==
  ASSUME Control, ServerTypes, Other
  PROVE  proc' \in [Ports -> Processes] /\ worn' \subseteq Ports /\ session' = session
  <1>1. CASE BeginTest \/ Kill
    <2>1. \A p \in PortsOf(job) : p \in Ports
      BY JobTypes DEF PortsOf, Ports, Port, Control
    <2> QED
      BY <1>1, <2>1 DEF BeginTest, Kill, Exit, ServerTypes
  <1>2. ASSUME NEW q \in Ports, ServerUp(q)
        PROVE  proc' \in [Ports -> Processes] /\ worn' \subseteq Ports /\ session' = session
    <2>1. [proc[q] EXCEPT !.state = "up"] \in Processes
      BY DEF ServerTypes, Processes
    <2> QED
      BY <1>2, <2>1, PutTyped DEF ServerUp, Free, ServerTypes
  <1>3. ASSUME NEW q \in Ports, ServerEnds(q)
        PROVE  proc' \in [Ports -> Processes] /\ worn' \subseteq Ports /\ session' = session
    <2>1. NoProcess \in Processes
      BY CommandsAssumption DEF NoProcess, Processes, Control
    <2> QED
      BY <1>3, <2>1, PutTyped DEF ServerEnds, Free, ServerTypes
  <1> QED
    BY <1>1, <1>2, <1>3 DEF Other

LEMMA TestPlaces ==
  ASSUME Control, over = "no"
  PROVE  /\ job \in Jobs /\ at \in 1 .. 23 /\ at \in 1 .. Len(Script(job)) /\ Landmarks(job, at, Here)
         /\ Here \in Tests \cup {"workload", "measure"} => at < LogAt(job)
         /\ Here = "countedTest" => P = Port(job)
  <1>1. /\ job \in Jobs /\ at \in 1 .. 23 /\ at \in 1 .. Len(Script(job))
    BY PlaceAndPort
  <1>2. Landmarks(job, at, Here)
    BY <1>1, ScriptLandmarks DEF Here
  <1>3. TestAt(job) < LogAt(job) /\ TestAt(job) \in 1 .. 11 /\ LogAt(job) \in 3 .. 24
    BY <1>1, LandmarksInOrder, ScriptPlaces
  <1>4. Here \in Tests \cup {"workload", "measure"} => at < LogAt(job)
    BY <1>1, <1>2, <1>3 DEF Landmarks, Tests
  <1>5. ASSUME Here = "countedTest"
        PROVE  P = Port(job)
    <2>1. job.command \in {"drizzleslap", "randgen"} /\ at = TestAt(job)
      BY <1>2, <1>5 DEF Landmarks
    <2>2. CASE job.command = "drizzleslap"
      <3>1. at \in 1 .. 18
        BY <1>1, <2>2, ScriptLengths
      <3> QED
        BY <1>1, <2>2, <3>1, DrizzleSlapSteps DEF DrizzleSlapStep, P
    <2>3. CASE job.command = "randgen"
      <3>1. RandgenStep(job, at, Here, P)
        BY <1>1, <2>3, RandgenSteps DEF Here, P
      <3> QED
        BY <1>5, <3>1 DEF RandgenStep
    <2> QED
      BY <2>1, <2>2, <2>3
  <1> QED
    BY <1>1, <1>2, <1>4, <1>5

LEMMA BadStep ==
  ASSUME Control, ServerTypes, CommandsNext
  PROVE  /\ bad' \in {bad, bad \cup {session}}
         /\ bad' # bad => over = "no" /\ at < LogAt(job)
  <1>1. CASE Moves
    <2>1. over = "no"
      BY <1>1, MovesMove DEF Control, Moved
    <2>2. CASE Workload \/ Measure
      BY <2>1, <2>2, TestPlaces DEF Workload, Measure, Doing, Here
    <2>3. CASE ~ (Workload \/ Measure)
      BY <1>1, <2>3 DEF Moves, TestsKept, Skip, Build, Ask, StopAll, StopAllMySQLd, Clear, ClearMySQLd,
         Start, StartOrExit, CreateDatabase, Create, Profile, Stop, StopIfUp, ResetCounters, Rsync, Average,
         Try, Scrape, Doxy, RemoveFile, Verdict, Log, Mail
    <2> QED
      BY <2>2, <2>3
  <1>2. CASE NewSession \/ Again
    BY <1>2 DEF NewSession, Again, TestsKept
  <1>3. CASE EndsTest
    BY <1>3, EndsTestControl, TestPlaces
       DEF EndsTest, EndTest, EndLoad, PassTest, FailTest, CheckFails, Ending
  <1>4. CASE Other
    <2>1. busy => over = "no" /\ Here \in Tests
      BY DEF Control, Here
    <2> QED
      BY <1>4, <2>1, TestPlaces DEF Other, BeginTest, Kill, ServerUp, ServerEnds, Free
  <1> QED
    BY <1>1, <1>2, <1>3, <1>4, NextCases

LEMMA TypesStep ==
  ASSUME Control, ServerTypes, CommandsNext
  PROVE  ServerTypes'
  <1>1. session \in Nat /\ session' \in Nat /\ session <= session'
    <2>1. session' = session \/ session' = session + 1
      BY NextCases, MovesMove, AgainControl, EndsTestControl, OtherTyped
         DEF Moved, Advance, Exit, NewSession, Control
    <2> QED
      BY <2>1, CommandsAssumption DEF Control
  <1>2. proc' \in [Ports -> Processes] /\ worn' \subseteq Ports
    <2>1. CASE NewSession \/ Again \/ EndsTest
      BY <2>1 DEF NewSession, Again, EndsTest, EndTest, EndLoad, PassTest, FailTest, CheckFails, Ending, ServerTypes
    <2> QED
      BY <2>1, NextCases, MoveTyped, OtherTyped
  <1>3. \A x \in Processes : x \in Processes'
    <2>1. \A b \in 0 .. session : b \in 0 .. session'
      BY <1>1
    <2> QED
      BY <2>1 DEF Processes
  <1>4. bad' \subseteq 1 .. session'
    <2>1. bad \subseteq 1 .. session /\ (over = "no" => session > 0)
      BY DEF ServerTypes, Control
    <2>2. \A b \in 1 .. session : b \in 1 .. session'
      BY <1>1
    <2>3. over = "no" => session \in 1 .. session'
      BY <1>1, <2>1
    <2> QED
      BY <2>1, <2>2, <2>3, BadStep
  <1> QED
    BY <1>2, <1>3, <1>4 DEF ServerTypes
-----------------------------------------------------------------------------
(* What comes of failed tests.                                             *)
LEMMA VerdictPlaces ==
  ASSUME Control, over = "no", Advance, busy' = FALSE, failed' > 0, at <= VerdictAt(job),
         Here # "verdict"
  PROVE  Counted'
  <1> DEFINE L == Len(Script(job))
  <1>1. /\ job \in Jobs /\ at \in 1 .. 23 /\ Landmarks(job, at, Here)
        /\ VerdictAt(job) \in 0 .. 23 /\ VerdictAt(job) <= L /\ L \in 1 .. 23
    BY TestPlaces, ScriptPlaces, LandmarksInOrder
  <1>2. at # VerdictAt(job)
    BY <1>1 DEF Landmarks
  <1> HIDE DEF L
  <1>3. at # L /\ at + 1 <= VerdictAt(job)
    BY <1>1, <1>2
  <1> QED
    BY <1>3 DEF Counted, Advance, L

LEMMA CountedMoves ==
  ASSUME Control, ServerTypes, Counted, Moves
  PROVE  Counted'
  <1>1. Moved /\ over = "no" /\ ~ busy /\ busy' = FALSE /\ failed' = failed
    BY MovesMove DEF Control, Moved
  <1>2. CASE Exit
    BY <1>2 DEF Counted, Exit
  <1>3. CASE Advance
    <2>1. over' # "exit" /\ session' = session
      BY <1>3 DEF Advance
    <2>2. bad' = bad
      BY <2>1 DEF Moves, TestsKept, Skip, Build, Ask, StopAll, StopAllMySQLd, Clear, ClearMySQLd,
         Start, StartOrExit, CreateDatabase, Create, Profile, Stop, StopIfUp, ResetCounters, Rsync, Average,
         Try, Scrape, Doxy, RemoveFile, Verdict, Log, Mail, Workload, Measure, Exit
    <2>3. CASE session \in bad
      <3>1. failed > 0 /\ at <= VerdictAt(job)
        BY <1>1, <2>3 DEF Counted
      <3>2. Here # "verdict"
        BY <1>1, <1>3, <3>1 DEF Moved
      <3> QED
        BY <1>1, <1>3, <3>1, <3>2, VerdictPlaces
    <2> QED
      BY <2>1, <2>2, <2>3 DEF Counted
  <1> QED
    BY <1>1, <1>2, <1>3 DEF Moved

LEMMA CountedAgain ==
  ASSUME Control, ServerTypes, Counted, Again
  PROVE  Counted'
  <1>1. Here = "again" /\ ~ busy /\ over = "no" /\ bad' = bad /\ failed' = failed /\ busy' = busy
    BY AgainControl DEF Again, TestsKept
  <1>2. CASE Moved /\ Exit
    BY <1>2 DEF Counted, Exit
  <1>3. CASE Moved /\ Advance
    <2>1. session' = session
      BY <1>3 DEF Advance
    <2>2. CASE session \in bad
      <3>1. failed' > 0 /\ at <= VerdictAt(job) /\ Here # "verdict" /\ busy' = FALSE
        BY <1>1, <2>2 DEF Counted, Control
      <3> QED
        BY <1>1, <1>3, <3>1, VerdictPlaces
    <2> QED
      BY <1>1, <2>1, <2>2 DEF Counted
  <1>4. CASE /\ at' = TestAt(job) /\ job' = job /\ session' = session /\ over' = over
    <2>1. job \in Jobs /\ at \in 1 .. 23 /\ Landmarks(job, at, Here)
      BY <1>1, TestPlaces
    <2>2. TestAt(job) < AgainAt(job) /\ at = AgainAt(job)
      BY <1>1, <2>1, LandmarksInOrder DEF Landmarks
    <2>3. VerdictAt(job) \in 0 .. 23 /\ TestAt(job) \in 1 .. 11
      BY <2>1, ScriptPlaces
    <2>4. at <= VerdictAt(job) => TestAt(job) <= VerdictAt(job)
      BY <2>1, <2>2, <2>3
    <2> QED
      BY <1>1, <1>4, <2>4 DEF Counted
  <1> QED
    BY <1>2, <1>3, <1>4, AgainControl DEF Moved

LEMMA CountedEnds ==
  ASSUME Control, ServerTypes, Counted, EndsTest
  PROVE  Counted'
  <1>1. busy /\ busy' = FALSE /\ over = "no" /\ Here \in Tests /\ (Advance \/ Exit)
    BY EndsTestControl
  <1>2. /\ job \in Jobs /\ at \in 1 .. 23 /\ Landmarks(job, at, Here)
        /\ Here = "countedTest" => P = Port(job)
        /\ VerdictAt(job) \in 0 .. 23 /\ failed \in Nat
    BY <1>1, TestPlaces, ScriptPlaces DEF Control
  <1>3. CASE Exit
    BY <1>3 DEF Counted, Exit
  <1>4. CASE (EndTest \/ EndLoad) /\ Advance
    <2>1. Here \in {"test", "load"} /\ bad' = bad /\ session' = session
      BY <1>4 DEF EndTest, EndLoad, Here, Exit, Advance
    <2>2. job.command \in {"crashme", "sqlbench", "dbt2"}
      BY <1>2, <2>1 DEF Landmarks
    <2>3. VerdictAt(job) = 0
      BY <1>2, <2>2, LandmarksInOrder
    <2>4. session \notin bad
      BY <1>1, <1>2, <2>2, <2>3 DEF Counted
    <2> QED
      BY <2>1, <2>4 DEF Counted
  <1>5. CASE PassTest
    <2>1. Here = "countedTest" /\ bad' = bad /\ session' = session /\ failed' = failed /\ Advance /\ Believed
      BY <1>5 DEF PassTest, Here, Advance
    <2>2. job.command = "randgen" => proc[Port(job)].state # "none"
      BY <1>2, <2>1 DEF Believed, Up
    <2>3. CASE session \in bad
      <3>1. failed > 0 /\ at <= VerdictAt(job)
        BY <1>1, <2>2, <2>3 DEF Counted
      <3> QED
        BY <1>1, <2>1, <3>1, VerdictPlaces
    <2> QED
      BY <2>1, <2>3 DEF Counted
  <1>6. CASE FailTest
    <2>1. Here = "countedTest" /\ failed' = failed + 1 /\ Advance
      BY <1>6 DEF FailTest, Here
    <2>2. job.command \in {"drizzleslap", "randgen"} /\ at = TestAt(job)
      BY <1>2, <2>1 DEF Landmarks
    <2>3. TestAt(job) < VerdictAt(job)
      BY <1>2, <2>2, LandmarksInOrder
    <2>4. failed' > 0 /\ at <= VerdictAt(job)
      BY <1>2, <2>1, <2>2, <2>3
    <2> QED
      BY <1>1, <2>1, <2>4, VerdictPlaces
  <1> QED
    BY <1>1, <1>3, <1>4, <1>5, <1>6 DEF EndsTest, CheckFails

LEMMA CountedOther ==
  ASSUME Control, ServerTypes, Counted, Other
  PROVE  Counted'
  <1>1. CASE BeginTest
    BY <1>1 DEF BeginTest, Doing, Counted
  <1>2. CASE Kill
    BY <1>2 DEF Kill, Exit, Counted
  <1>3. Port(job) \in Ports
    BY JobTypes DEF Control
  <1>4. ASSUME NEW q \in Ports, ServerUp(q)
        PROVE  Counted'
    <2>1. proc[q].state = "starting"
      BY <1>4 DEF ServerUp
    <2>2. UNCHANGED <<job, session, at, over, busy, failed, bad>>
      BY <1>4 DEF ServerUp, Free
    <2>3. proc[Port(job)].state = "none" => proc'[Port(job)] = proc[Port(job)]
      BY <1>3, <1>4, <2>1, PutAt DEF ServerUp
    <2> QED
      BY <2>2, <2>3 DEF Counted, Port
  <1>5. ASSUME NEW q \in Ports, ServerEnds(q)
        PROVE  Counted'
    <2>1. UNCHANGED <<job, session, at, over, busy, failed>> /\ Put(q, NoProcess)
      BY <1>5 DEF ServerEnds, Free
    <2>2. proc'[Port(job)] = IF Port(job) = q THEN NoProcess ELSE proc[Port(job)]
      BY <1>3, <2>1, PutAt
    <2>3. NoProcess.state = "none"
      BY DEF NoProcess
    <2>4. CASE bad' = bad
      BY <2>1, <2>2, <2>3, <2>4 DEF Counted, Port
    <2>5. CASE busy /\ q = P /\ job.command = "randgen"
      <3>1. over = "no" /\ Here \in Tests
        BY <2>5 DEF Control, Here
      <3>2. Here = "countedTest"
        BY <2>5, <3>1, TestPlaces DEF Landmarks, Tests
      <3>3. P = Port(job)
        BY <3>1, <3>2, TestPlaces
      <3> QED
        BY <2>1, <2>2, <2>3, <2>5, <3>1, <3>3 DEF Counted, Port
    <2> QED
      BY <1>5, <2>4, <2>5 DEF ServerEnds
  <1> QED
    BY <1>1, <1>2, <1>4, <1>5 DEF Other

LEMMA CountedStep ==
  ASSUME Control, ServerTypes, Counted, CommandsNext
  PROVE  Counted'
  <1>1. CASE NewSession
    <2>1. session' = session + 1 /\ bad' = bad /\ session \in Nat /\ bad \subseteq 1 .. session
      BY <1>1, CommandsAssumption DEF NewSession, Control, ServerTypes
    <2>2. session + 1 \notin 1 .. session
      BY <2>1
    <2> QED
      BY <2>1, <2>2 DEF Counted
  <1> QED
    BY <1>1, NextCases, CountedMoves, CountedAgain, CountedEnds, CountedOther
-----------------------------------------------------------------------------
(* The result files, and what is logged of them.                           *)
LEMMA ReplacedPlaces ==
  ASSUME NEW j \in Jobs
  PROVE  \/ ReplacedAt(j) = 8 /\ j.command = "drizzleslap" /\ TestAt(j) = 9
         \/ ReplacedAt(j) = TestAt(j) /\ j.command \in {"sqlbench", "lcov", "sloc"}
         \/ ReplacedAt(j) = 24 /\ j.command \in {"crashme", "dbt2", "doxy", "randgen"}
  BY JobTypes DEF ReplacedAt, TestAt

(* A step that leaves the files alone, and that is none of the places.     *)
LEMMA FilesStay ==
  ASSUME Control, over = "no", OwnFiles, Advance, files' = files, failed' = failed,
         Here \notin {"test", "countedTest", "workload", "measure", "doxy", "removeFile"}
  PROVE  OwnFiles'
  <1>1. /\ job \in Jobs /\ at \in 1 .. 23 /\ Landmarks(job, at, Here)
        /\ TestAt(job) \in 1 .. 11 /\ ReplacedAt(job) \in 1 .. 24
    BY TestPlaces, ScriptPlaces
  <1>2. job' = job /\ session' = session /\ round' = round /\ at' = at + 1
    BY DEF Advance
  <1>3. at # TestAt(job) /\ ~ (job.command = "drizzleslap" /\ at = 8)
    BY <1>1 DEF Landmarks
  <1>4. at + 1 <= TestAt(job) <=> at <= TestAt(job)
    BY <1>1, <1>3
  <1>5. at + 1 > ReplacedAt(job) => at > ReplacedAt(job)
    <2>1. at # ReplacedAt(job)
      BY <1>1, <1>3, ReplacedPlaces
    <2> QED
      BY <1>1, <2>1
  <1>6. Done' = Done
    BY <1>2, <1>4 DEF Done
  <1> QED
    BY <1>2, <1>5, <1>6 DEF OwnFiles

LEMMA FilesMoves ==
  ASSUME Control, OwnFiles, Moves
  PROVE  OwnFiles'
  <1>1. Moved /\ over = "no" /\ ~ busy /\ failed' = failed
    BY MovesMove DEF Control, Moved
  <1>2. CASE Exit
    BY <1>2 DEF OwnFiles, Exit
  <1> SUFFICES ASSUME Advance PROVE OwnFiles'
    BY <1>1, <1>2 DEF Moved
  <1>3. job' = job /\ session' = session /\ round' = round /\ at' = at + 1 /\ over' # "exit"
    BY DEF Advance
  <1>4. /\ job \in Jobs /\ at \in 1 .. 23 /\ Landmarks(job, at, Here) /\ round \in Nat
        /\ TestAt(job) \in 1 .. 11 /\ ReplacedAt(job) \in 1 .. 24
    BY <1>1, TestPlaces, PlaceAndPort, ScriptPlaces
  <1>5. CASE RemoveFile
    <2>1. /\ Here = "removeFile" /\ job.command = "drizzleslap" /\ at = 8
          /\ files' = {f \in files : f.command # "drizzleslap"}
      BY <1>4, <1>5 DEF RemoveFile, Doing, Here, Landmarks
    <2>2. TestAt(job) = 9 /\ round = 1
      BY <1>1, <1>4, <2>1 DEF TestAt, Control
    <2>3. Done' = {}
      BY <1>3, <2>1, <2>2 DEF Done
    <2> QED
      BY <1>3, <2>1, <2>3 DEF OwnFiles
  <1>6. CASE Workload
    <2>1. /\ Here = "workload" /\ job.command = "dbt2" /\ at = 9 /\ TestAt(job) = 9 /\ ReplacedAt(job) = 24
          /\ files' = {f \in files : f.command # "dbt2" \/ f.test # round} \cup {ResultOf(session, round)}
      <3>1. Here = "workload" /\ at = TestAt(job) /\ job.command = "dbt2"
        BY <1>4, <1>6 DEF Workload, Doing, Here, Landmarks
      <3> QED
        BY <1>3, <1>6, <3>1 DEF Workload, Exit, TestAt, ReplacedAt
    <2>2. /\ ResultOf(session, round).command = "dbt2" /\ ResultOf(session, round).test = round
          /\ ResultOf(session, round).session = session
      BY <2>1 DEF ResultOf
    <2>3. Done = 1 .. round - 1 /\ Done' = 1 .. round
      BY <1>3, <2>1 DEF Done, Measuring
    <2>4. \A t \in 1 .. round : t = round \/ t \in 1 .. round - 1
      BY <1>4
    <2>5. ASSUME NEW f \in files', f.command = "dbt2", f.test \in Done'
          PROVE  f.session = session
      <3>1. CASE f = ResultOf(session, round)
        BY <2>2, <3>1
      <3>2. CASE f \in files /\ f.test # round
        <4>1. f.test \in Done
          BY <2>3, <2>4, <2>5, <3>2
        <4> QED
          BY <1>1, <2>1, <2>5, <3>2, <4>1 DEF OwnFiles
      <3> QED
        BY <2>1, <2>5, <3>1, <3>2
    <2>6. ASSUME failed = 0, NEW t \in Done'
          PROVE  \E f \in files' : f.command = "dbt2" /\ f.test = t /\ f.session = session
      <3>1. CASE t = round
        <4>1. ResultOf(session, round) \in files'
          BY <2>1
        <4> QED
          BY <2>2, <3>1, <4>1
      <3>2. CASE t # round
        <4>1. t \in Done
          BY <2>3, <2>4, <2>6, <3>2
        <4>2. PICK f \in files : f.command = "dbt2" /\ f.test = t /\ f.session = session
          BY <1>1, <2>1, <2>6, <4>1 DEF OwnFiles
        <4>3. f \in files'
          BY <2>1, <3>2, <4>2
        <4> QED
          BY <4>2, <4>3
      <3> QED
        BY <3>1, <3>2
    <2>7. ~ (at' > ReplacedAt(job))
      BY <1>3, <2>1
    <2> QED
      BY <1>1, <1>3, <2>1, <2>5, <2>6, <2>7 DEF OwnFiles
  <1>7. CASE Measure
    <2>1. /\ Here = "measure" /\ job.command \in Measuring /\ at = TestAt(job) /\ ReplacedAt(job) = TestAt(job)
          /\ files' = {f \in files : f.command # job.command} \cup Results(job)
      <3>1. Here = "measure" /\ at = TestAt(job) /\ job.command \in Measuring
        BY <1>4, <1>7 DEF Measure, Doing, Here, Landmarks
      <3> QED
        BY <1>3, <1>7, <3>1 DEF Measure, Exit, ReplacedAt, Measuring
    <2>2. Done' = 1 .. job.tests
      BY <1>3, <1>4, <2>1 DEF Done
    <2>3. ASSUME NEW f \in files', f.command = job.command
          PROVE  f.session = session
      BY <2>1, <2>3 DEF Results
    <2>4. ASSUME NEW t \in Done'
          PROVE  \E f \in files' : f.command = job.command /\ f.test = t /\ f.session = session
      <3> DEFINE r == [command |-> job.command, test |-> t, session |-> session]
      <3>1. r \in files'
        BY <2>1, <2>2, <2>4 DEF Results
      <3>2. r.command = job.command /\ r.test = t /\ r.session = session
        OBVIOUS
      <3> QED
        BY <3>1, <3>2
    <2> QED
      BY <1>3, <2>1, <2>3, <2>4 DEF OwnFiles, Measuring
  <1>8. CASE Moves /\ ~ (RemoveFile \/ Workload \/ Measure)
    <2>1. files' = files
      BY <1>8 DEF Moves, TestsKept, Skip, Build, Ask, StopAll, StopAllMySQLd, Clear, ClearMySQLd,
         Start, StartOrExit, CreateDatabase, Create, Profile, Stop, StopIfUp, ResetCounters, Rsync, Average,
         Try, Scrape, Doxy, Verdict, Log, Mail
    <2>2. Here \notin {"test", "countedTest", "workload", "measure", "doxy", "removeFile"}
      BY <1>3, <1>8 DEF Moves, Skip, Build, Ask, StopAll, StopAllMySQLd, Clear, ClearMySQLd,
         Start, StartOrExit, CreateDatabase, Create, Profile, Stop, StopIfUp, ResetCounters, Rsync, Average,
         Try, Scrape, Doxy, Verdict, Log, Mail, Doing, Here, Exit
    <2> QED
      BY <1>1, <2>1, <2>2, FilesStay
  <1> QED
    BY <1>5, <1>6, <1>7, <1>8
LEMMA FilesAgain ==
  ASSUME Control, OwnFiles, Again
  PROVE  OwnFiles'
  <1>1. Here = "again" /\ over = "no" /\ files' = files /\ failed' = failed
    BY AgainControl DEF Again, TestsKept
  <1>2. CASE Moved
    BY <1>1, <1>2, FilesStay DEF Moved, Exit, OwnFiles
  <1>3. CASE at' = TestAt(job) /\ round' = round + 1 /\ job' = job /\ session' = session /\ over' = over
    <2>1. /\ job \in Jobs /\ at \in 1 .. Len(Script(job)) /\ at \in 1 .. 23 /\ Landmarks(job, at, Here)
          /\ round \in Nat /\ TestAt(job) \in 1 .. 11 /\ ReplacedAt(job) \in 1 .. 24
      BY <1>1, TestPlaces, PlaceAndPort, ScriptPlaces
    <2>2. at = AgainAt(job) /\ TestAt(job) < AgainAt(job)
      BY <1>1, <2>1, LandmarksInOrder DEF Landmarks
    <2>3. job.command \in {"dbt2", "drizzleslap", "randgen"}
      <3>1. ~ (AgainAt(job) > Len(Script(job)))
        <4>1. Len(Script(job)) \in 1 .. 23
          BY <2>1, ScriptPlaces
        <4> DEFINE L == Len(Script(job))
        <4> HIDE DEF L
        <4>2. at \in 1 .. L /\ L \in 1 .. 23
          BY <2>1, <4>1 DEF L
        <4>3. ~ (at > L)
          BY <4>2
        <4> QED
          BY <2>2, <4>3 DEF L
      <3> QED
        BY <2>1, <3>1, LandmarksInOrder
    <2>4. Done = 1 .. round /\ Done' = 1 .. round
      <3>1. ~ (at <= TestAt(job)) /\ round + 1 - 1 = round /\ TestAt(job) <= TestAt(job)
        <4>1. \A m, n \in Nat : m < n => ~ (n <= m)
          OBVIOUS
        <4>2. \A n \in Nat : n <= n /\ n + 1 - 1 = n
          OBVIOUS
        <4>3. TestAt(job) \in Nat /\ at \in Nat /\ TestAt(job) < at
          BY <2>1, <2>2
        <4> QED
          BY <2>1, <4>1, <4>2, <4>3
      <3>2. Done = 1 .. round
        BY <2>3, <3>1 DEF Done, Measuring
      <3>3. Done' = 1 .. round
        <4>1. TestAt(job)' = TestAt(job)
          BY <1>3
        <4>2. at' <= TestAt(job)'
          BY <1>3, <3>1, <4>1
        <4>3. round' = round + 1
          BY <1>3
        <4>4. round' - 1 = round
          BY <2>1, <4>3
        <4> QED
          BY <4>2, <4>4 DEF Done
      <3> QED
        BY <3>2, <3>3
    <2>5. TestAt(job) > ReplacedAt(job) => at > ReplacedAt(job)
      <3>1. \A k, m, n \in Nat : m < n /\ m > k => n > k
        OBVIOUS
      <3>2. \A n : n \in 1 .. 11 \/ n \in 1 .. 23 \/ n \in 1 .. 24 => n \in Nat
        OBVIOUS
      <3>3. TestAt(job) \in Nat /\ at \in Nat /\ ReplacedAt(job) \in Nat
        BY <2>1, <3>2
      <3>4. TestAt(job) < at
        BY <2>2
      <3> QED
        BY <3>1, <3>3, <3>4
    <2> QED
      BY <1>1, <1>3, <2>4, <2>5 DEF OwnFiles
  <1> QED
    BY <1>2, <1>3, AgainControl

LEMMA FilesEnds ==
  ASSUME Control, OwnFiles, EndsTest
  PROVE  OwnFiles'
  <1>1. over = "no" /\ (Advance \/ Exit) /\ failed \in Nat
    BY EndsTestControl DEF Control
  <1>2. CASE Exit
    BY <1>2 DEF OwnFiles, Exit
  <1> SUFFICES ASSUME Advance PROVE OwnFiles'
    BY <1>1, <1>2
  <1>3. job' = job /\ session' = session /\ round' = round /\ at' = at + 1 /\ over' # "exit"
    BY DEF Advance
  <1>4. /\ job \in Jobs /\ at \in 1 .. 23 /\ Landmarks(job, at, Here) /\ round \in Nat
        /\ TestAt(job) \in 1 .. 11 /\ ReplacedAt(job) \in 1 .. 24
    BY <1>1, TestPlaces, PlaceAndPort, ScriptPlaces
  <1>r. \A n : /\ ResultOf(session, n).command = job.command /\ ResultOf(session, n).test = n
               /\ ResultOf(session, n).session = session
    BY DEF ResultOf
  <1>5. CASE EndTest
    <2>1. /\ Here = "test" /\ at = TestAt(job) /\ job.command \in {"crashme", "sqlbench"}
          /\ files' = {f \in files : f.command # job.command} \cup {ResultOf(session, 1)}
      BY <1>3, <1>4, <1>5 DEF EndTest, Here, Landmarks, Exit
    <2>2. Done' = {1}
      BY <1>3, <1>4, <2>1 DEF Done, Measuring
    <2>3. ASSUME NEW f \in files', f.command = job.command
          PROVE  f.session = session /\ f.test = 1
      BY <1>r, <2>1, <2>3
    <2>4. \E f \in files' : f.command = job.command /\ f.test = 1 /\ f.session = session
      BY <1>r, <2>1
    <2> QED
      BY <1>3, <2>1, <2>2, <2>3, <2>4 DEF OwnFiles
  <1>6. CASE EndLoad
    <2>1. Here = "load" /\ files' = files /\ failed' = failed
      BY <1>6 DEF EndLoad, Here
    <2> QED
      BY <1>1, <2>1, FilesStay
  <1>7. CASE PassTest \/ FailTest
    <2>1. /\ Here = "countedTest" /\ at = TestAt(job) /\ job.command \in {"drizzleslap", "randgen"}
      BY <1>4, <1>7 DEF PassTest, FailTest, Here, Landmarks
    <2>2. \/ files' = files \cup {ResultOf(session, round)} /\ failed' = failed
          \/ files' = files /\ failed' # 0
      BY <1>1, <1>7 DEF PassTest, FailTest
    <2>3. Done = 1 .. round - 1 /\ Done' = 1 .. round
      BY <1>3, <1>4, <2>1 DEF Done, Measuring
    <2>4. \A t \in 1 .. round : t = round \/ t \in 1 .. round - 1
      BY <1>4
    <2>5. ASSUME NEW f \in files', f.command = job.command, at + 1 > ReplacedAt(job)
          PROVE  f.session = session
      <3>1. at > ReplacedAt(job)
        BY <1>4, <2>1, <2>5, ReplacedPlaces
      <3>2. CASE f \in files
        BY <1>1, <2>5, <3>1, <3>2 DEF OwnFiles
      <3> QED
        BY <1>r, <2>2, <3>2
    <2>6. ASSUME failed' = 0, NEW t \in 1 .. round
          PROVE  \E f \in files' : f.command = job.command /\ f.test = t /\ f.session = session
      <3>1. files' = files \cup {ResultOf(session, round)} /\ failed = 0
        BY <2>2, <2>6
      <3>2. CASE t = round
        BY <1>r, <3>1, <3>2
      <3>3. CASE t \in 1 .. round - 1
        <4>1. PICK f \in files : f.command = job.command /\ f.test = t /\ f.session = session
          BY <1>1, <2>3, <3>1, <3>3 DEF OwnFiles
        <4>2. f \in files'
          BY <3>1
        <4> QED
          BY <4>1, <4>2
      <3> QED
        BY <2>4, <3>2, <3>3
    <2> QED
      BY <1>3, <2>1, <2>3, <2>5, <2>6 DEF OwnFiles
  <1> QED
    BY <1>3, <1>5, <1>6, <1>7 DEF EndsTest, CheckFails, Exit

LEMMA FilesOther ==
  ASSUME Control, OwnFiles, Other
  PROVE  OwnFiles'
  <1>1. CASE Kill
    BY <1>1 DEF Kill, Exit, OwnFiles
  <1>2. CASE BeginTest \/ \E p \in Ports : ServerUp(p) \/ ServerEnds(p)
    <2>1. UNCHANGED <<job, session, at, round, over, failed, files>>
      BY <1>2 DEF BeginTest, ServerUp, ServerEnds, Free
    <2> QED
      BY <2>1 DEF OwnFiles, Done
  <1> QED
    BY <1>1, <1>2 DEF Other

LEMMA FilesStep ==
  ASSUME Control, OwnFiles, CommandsNext
  PROVE  OwnFiles'
  <1>1. CASE NewSession
    <2>1. PICK j \in Jobs : job' = j
      BY <1>1 DEF NewSession
    <2>2. at' = 1 /\ round' = 1
      BY <1>1 DEF NewSession
    <2>3. TestAt(j) \in 1 .. 11 /\ ReplacedAt(j) \in 1 .. 24
      BY ScriptPlaces
    <2>4. ~ (1 > ReplacedAt(j)) /\ 1 <= TestAt(j)
      BY <2>3
    <2>5. Done' = {}
      BY <2>1, <2>2, <2>4 DEF Done
    <2> QED
      BY <2>1, <2>2, <2>4, <2>5 DEF OwnFiles
  <1> QED
    BY <1>1, NextCases, FilesMoves, FilesAgain, FilesEnds, FilesOther
-----------------------------------------------------------------------------
(* The rows of the results database.                                       *)
LEMMA LogPlaces ==
  ASSUME NEW j \in Jobs, j.command \notin {"crashme", "doxy", "randgen"}
  PROVE  /\ LogAt(j) <= Len(Script(j)) /\ VerdictAt(j) < LogAt(j)
         /\ j.command \in {"dbt2", "drizzleslap"} => AgainAt(j) < LogAt(j)
         /\ j.command # "dbt2" => ReplacedAt(j) < LogAt(j)
  <1>1. j.command \in {"dbt2", "drizzleslap", "lcov", "sloc", "sqlbench"}
    BY JobTypes
  <1>2. VerdictAt(j) < LogAt(j)
    BY <1>1 DEF VerdictAt, LogAt
  <1>3. LogAt(j) <= Len(Script(j))
    <2> DEFINE L == Len(Script(j))
    <2>1. /\ j.command = "sqlbench" => LogAt(j) = 8 /\ L = 10
          /\ j.command = "dbt2" => LogAt(j) = 11 /\ L = 12
          /\ j.command = "drizzleslap" => LogAt(j) = 17 /\ L = 18
          /\ j.command = "lcov" => LogAt(j) = 6 /\ L = 6
          /\ j.command = "sloc" => LogAt(j) = 3 /\ L = 3
      BY ScriptLengths DEF LogAt
    <2> HIDE DEF L
    <2>2. LogAt(j) <= L
      BY <1>1, <2>1
    <2> QED
      BY <2>2 DEF L
  <1> QED
    BY <1>1, <1>2, <1>3, LandmarksInOrder

(* A step that logs nothing.                                               *)
LEMMA RowsStay ==
  ASSUME Recorded, rows' = rows, job' = job, session' = session,
         bad' \in {bad, bad \cup {session}}, bad' # bad => over = "no" /\ at <= LogAt(job),
         \/ over' = "exit"
         \/ over' = over /\ at' = at
         \/ /\ over = "no" /\ over' # "exit"
            /\ over' = "no" /\ at' <= LogAt(job) => at <= LogAt(job)
            /\ Stores(job) /\ (over' = "done" \/ at' > LogAt(job)) => at > LogAt(job)
  PROVE  Recorded'
  <1>1. \A r \in rows : r.session \in 1 .. session /\ r.session \notin bad' /\ r.of = r.session
    BY DEF Recorded
  <1>2. over' = "no" /\ at' <= LogAt(job) => \A r \in rows : r.session # session
    BY DEF Recorded
  <1>3. Stores(job) /\ (over' = "done" \/ (over' = "no" /\ at' > LogAt(job))) =>
          {r.test : r \in {x \in rows : x.session = session}} = Measured(job)
    BY DEF Recorded
  <1> QED
    BY <1>1, <1>2, <1>3 DEF Recorded

LEMMA RowsAdvance ==
  ASSUME Control, ServerTypes, Recorded, CommandsNext, over = "no", Advance \/ Exit, rows' = rows,
         Here # "log"
  PROVE  Recorded'
  <1>1. /\ job \in Jobs /\ at \in 1 .. 23 /\ Landmarks(job, at, Here) /\ LogAt(job) \in 3 .. 24
    BY TestPlaces, ScriptPlaces
  <1>2. job' = job /\ session' = session
    BY DEF Advance, Exit
  <1>3. bad' \in {bad, bad \cup {session}} /\ (bad' # bad => at <= LogAt(job))
    BY <1>1, BadStep
  <1>4. CASE Exit
    BY <1>2, <1>3, <1>4, RowsStay DEF Exit
  <1>5. CASE Advance
    <2> DEFINE L == Len(Script(job))
    <2>1. at' = at + 1 /\ over' = IF at = L THEN "done" ELSE "no"
      BY <1>5 DEF Advance
    <2>2. Stores(job) => at # LogAt(job) /\ LogAt(job) <= L
      BY <1>1, LogPlaces DEF Landmarks, Stores
    <2>3. L \in 1 .. 23
      BY <1>1, ScriptPlaces
    <2> HIDE DEF L
    <2>4. at + 1 <= LogAt(job) => at <= LogAt(job)
      BY <1>1
    <2>5. Stores(job) /\ (at = L \/ at + 1 > LogAt(job)) => at > LogAt(job)
      BY <1>1, <2>2, <2>3
    <2> QED
      BY <1>2, <1>3, <2>1, <2>4, <2>5, RowsStay
  <1> QED
    BY <1>4, <1>5

LEMMA RowsAgain ==
  ASSUME Control, ServerTypes, Recorded, Again, CommandsNext
  PROVE  Recorded'
  <1>1. Here = "again" /\ over = "no" /\ rows' = rows /\ bad' = bad
    BY AgainControl DEF Again, TestsKept
  <1>2. CASE Moved
    BY <1>1, <1>2, RowsAdvance DEF Moved
  <1>3. CASE at' = TestAt(job) /\ job' = job /\ session' = session /\ over' = over
    <2>1. /\ job \in Jobs /\ at \in 1 .. 23 /\ at \in 1 .. Len(Script(job)) /\ Landmarks(job, at, Here)
          /\ LogAt(job) \in 3 .. 24 /\ TestAt(job) \in 1 .. 11
      BY <1>1, TestPlaces, ScriptPlaces
    <2>2. at = AgainAt(job) /\ TestAt(job) < LogAt(job)
      BY <1>1, <2>1, LandmarksInOrder DEF Landmarks
    <2> DEFINE L == Len(Script(job))
    <2>3. \/ AgainAt(job) < LogAt(job)
          \/ LogAt(job) > L
          \/ AgainAt(job) > L
      BY <2>1, LandmarksInOrder
    <2>4. at \in 1 .. L /\ L \in 1 .. 23 /\ at \in Nat /\ LogAt(job) \in Nat /\ TestAt(job) \in Nat
      <3>1. \A n : n \in 1 .. 23 \/ n \in 3 .. 24 \/ n \in 1 .. 11 => n \in Nat
        OBVIOUS
      <3>2. at \in Nat /\ LogAt(job) \in Nat /\ TestAt(job) \in Nat
        BY <2>1, <3>1
      <3>3. at \in 1 .. L /\ L \in 1 .. 23
        BY <2>1, ScriptPlaces
      <3> QED
        BY <3>2, <3>3
    <2> HIDE DEF L
    <2>5. at <= LogAt(job)
      BY <2>2, <2>3, <2>4
    <2>6. ~ (at' > LogAt(job))
      <3>1. ~ (TestAt(job) > LogAt(job))
        BY <2>2, <2>4
      <3> QED
        BY <1>3, <3>1
    <2> QED
      BY <1>1, <1>3, <2>5, <2>6, RowsStay
  <1> QED
    BY <1>2, <1>3, AgainControl

LEMMA RowsNewSession ==
  ASSUME Control, ServerTypes, Recorded, NewSession
  PROVE  Recorded'
  <1>1. PICK j \in Jobs : job' = j
    BY DEF NewSession
  <1>2. session' = session + 1 /\ at' = 1 /\ over' = "no" /\ rows' = rows /\ bad' = bad /\ session \in Nat
    BY CommandsAssumption DEF NewSession, Control
  <1>3. \A n \in 1 .. session : n \in 1 .. session + 1 /\ n # session + 1
    BY <1>2
  <1>4. \A a \in 3 .. 24 : ~ (1 > a)
    OBVIOUS
  <1>5. ~ (1 > LogAt(j))
    BY <1>4, ScriptPlaces
  <1>6. \A r \in rows : r.session \in 1 .. session' /\ r.session # session' /\ r.session \notin bad' /\ r.of = r.session
    BY <1>2, <1>3 DEF Recorded
  <1> QED
    BY <1>1, <1>2, <1>5, <1>6 DEF Recorded

(* What is logged: the session's own results, of tests that passed, and if *)
(* the session goes on all of them.                                        *)
LEMMA OwnAtLog ==
  ASSUME Control, OwnFiles, Counted, over = "no", ~ busy, Here = "log"
  PROVE  /\ job.command \in {"dbt2", "drizzleslap", "lcov", "sloc", "sqlbench"} /\ at = LogAt(job)
         /\ session \notin bad /\ \A f \in ToLog : f.session = session
         /\ Stores(job) => {f.test : f \in ToLog} = Measured(job)
  <1>1. /\ job \in Jobs /\ at \in 1 .. 23 /\ at \in 1 .. Len(Script(job)) /\ at = LogAt(job)
        /\ LogAt(job) \in 3 .. 24 /\ VerdictAt(job) \in 0 .. 23 /\ AgainAt(job) \in 10 .. 20
        /\ TestAt(job) \in 1 .. 11 /\ ReplacedAt(job) \in 1 .. 24
    BY TestPlaces, ScriptPlaces DEF Landmarks
  <1>2. job.command \notin {"crashme", "doxy", "randgen"}
    <2> DEFINE L == Len(Script(job))
    <2>1. at \in 1 .. L /\ L \in 1 .. 23 /\ (job.command \in {"crashme", "doxy", "randgen"} => LogAt(job) > L)
      BY <1>1, ScriptPlaces, LandmarksInOrder
    <2> HIDE DEF L
    <2>2. ~ (LogAt(job) > L)
      BY <1>1, <2>1
    <2> QED
      BY <2>1, <2>2
  <1>3. job.command \in {"dbt2", "drizzleslap", "lcov", "sloc", "sqlbench"}
    BY <1>1, <1>2, JobTypes
  <1>4. /\ VerdictAt(job) < at /\ TestAt(job) < at
        /\ job.command \in {"dbt2", "drizzleslap"} => AgainAt(job) < at
        /\ job.command # "dbt2" => ReplacedAt(job) < at
    BY <1>1, <1>2, LogPlaces, LandmarksInOrder
  <1>5. /\ at > VerdictAt(job) /\ ~ (at <= VerdictAt(job)) /\ ~ (at <= TestAt(job))
        /\ job.command \in {"dbt2", "drizzleslap"} => at > AgainAt(job)
        /\ job.command # "dbt2" => at > ReplacedAt(job)
    <2>1. \A m, n \in Nat : m < n => n > m /\ ~ (n <= m)
      OBVIOUS
    <2>2. /\ at \in Nat /\ VerdictAt(job) \in Nat /\ AgainAt(job) \in Nat /\ TestAt(job) \in Nat
          /\ ReplacedAt(job) \in Nat
      <3>1. \A n : n \in 1 .. 23 \/ n \in 0 .. 23 \/ n \in 10 .. 20 \/ n \in 1 .. 11 \/ n \in 1 .. 24 => n \in Nat
        OBVIOUS
      <3> QED
        BY <1>1, <3>1
    <2> QED
      BY <1>4, <2>1, <2>2
  <1>6. session \notin bad /\ failed = 0 /\ (job.command \in {"dbt2", "drizzleslap"} => round = job.tests)
    BY <1>5 DEF Counted, Control
  <1>7. /\ job.command \in {"dbt2", "drizzleslap", "lcov", "sloc"} => Done = 1 .. job.tests
        /\ job.command = "sqlbench" => Done = {1}
    BY <1>3, <1>5, <1>6 DEF Done, Measuring
  <1>8. ASSUME NEW f \in ToLog
        PROVE  f.session = session /\ f.test \in Done
    <2>1. f \in files /\ f.command = job.command /\ f.test \in 1 .. job.tests
      BY DEF ToLog
    <2>2. job.command # "dbt2" => f.session = session /\ (job.command = "sqlbench" => f.test = 1)
      BY <1>5, <2>1 DEF OwnFiles
    <2>3. f.test \in Done
      BY <1>3, <1>7, <2>1, <2>2
    <2>4. job.command = "dbt2" => f.session = session
      BY <2>1, <2>3 DEF OwnFiles
    <2> QED
      BY <2>2, <2>3, <2>4
  <1>9. ASSUME NEW t \in Done
        PROVE  \E f \in ToLog : f.test = t
    <2>1. PICK f \in files : f.command = job.command /\ f.test = t
      BY <1>6 DEF OwnFiles
    <2>2. 1 \in 1 .. job.tests
      BY <1>1, JobTypes
    <2>3. t \in 1 .. job.tests
      BY <1>3, <1>7, <2>2
    <2>4. f \in ToLog
      BY <2>1, <2>3 DEF ToLog
    <2> QED
      BY <2>1, <2>4
  <1>10. {f.test : f \in ToLog} = Done
    BY <1>8, <1>9
  <1>11. Stores(job) => Done = Measured(job)
    BY <1>7 DEF Stores, Measured
  <1> QED
    BY <1>1, <1>3, <1>6, <1>8, <1>10, <1>11

LEMMA RowsLog ==
  ASSUME Control, ServerTypes, OwnFiles, Counted, Recorded, Log
  PROVE  Recorded'
  <1>1. Here = "log" /\ over = "no" /\ ~ busy /\ bad' = bad /\ (Advance \/ Exit)
    BY DEF Log, Doing, Here
  <1>2. job' = job /\ session' = session
    BY <1>1 DEF Advance, Exit
  <1> DEFINE row(f) == [command |-> job.command, session |-> session, test |-> f.test, of |-> f.session]
             kept(some) == {r \in rows : job.command = "sloc" => r.command # "sloc" \/ \A f \in some : f.test # r.test}
  <1>3. PICK some \in SUBSET ToLog :
          /\ rows' = kept(some) \cup {row(f) : f \in some}
          /\ Exit \/ (some = ToLog /\ Advance)
    BY DEF Log
  <1>4. \A f : row(f).session = session /\ row(f).test = f.test /\ row(f).of = f.session
    OBVIOUS
  <1>5. kept(some) \subseteq rows /\ (job.command # "sloc" => kept(some) = rows)
    OBVIOUS
  <1> HIDE DEF row, kept
  <1>6. session \in 1 .. session
    BY <1>1, CommandsAssumption DEF Control
  <1>7. \A r \in rows' : r.session \in 1 .. session /\ r.session \notin bad /\ r.of = r.session
    <2>1. \A f \in some : f.session = session
      BY <1>1, OwnAtLog
    <2> QED
      BY <1>1, <1>3, <1>4, <1>5, <1>6, <2>1, OwnAtLog DEF Recorded
  <1>8. CASE Exit
    BY <1>1, <1>2, <1>7, <1>8 DEF Recorded, Exit
  <1>9. CASE some = ToLog /\ Advance
    <2>1. at' = at + 1 /\ at = LogAt(job) /\ job \in Jobs /\ LogAt(job) \in 3 .. 24
      BY <1>1, <1>9, OwnAtLog, TestPlaces, ScriptPlaces DEF Advance
    <2>2. ~ (LogAt(job) + 1 <= LogAt(job)) /\ LogAt(job) <= LogAt(job)
      BY <2>1
    <2>3. ~ (at' <= LogAt(job))
      BY <2>1, <2>2
    <2>4. ASSUME Stores(job)
          PROVE  {r.test : r \in {x \in rows' : x.session = session}} = Measured(job)
      <3>1. rows' = rows \cup {row(f) : f \in ToLog}
        BY <1>3, <1>5, <1>9, <2>4 DEF Stores
      <3>2. \A r \in rows : r.session # session
        BY <1>1, <2>1, <2>2 DEF Recorded
      <3>3. {x \in rows' : x.session = session} = {row(f) : f \in ToLog}
        BY <1>4, <3>1, <3>2
      <3>4. {r.test : r \in {row(f) : f \in ToLog}} = {f.test : f \in ToLog}
        BY <1>4
      <3> QED
        BY <1>1, <2>4, <3>3, <3>4, OwnAtLog
    <2> QED
      BY <1>1, <1>2, <1>7, <2>3, <2>4 DEF Recorded
  <1> QED
    BY <1>3, <1>8, <1>9

LEMMA RowsStep ==
  ASSUME Control, ServerTypes, OwnFiles, Counted, Recorded, CommandsNext
  PROVE  Recorded'
  <1>1. CASE Moves /\ ~ Log
    <2>1. over = "no" /\ (Advance \/ Exit)
      BY <1>1, MovesMove DEF Control, Moved
    <2>2. rows' = rows
      BY <1>1 DEF Moves, TestsKept, Skip, Build, Ask, StopAll, StopAllMySQLd, Clear, ClearMySQLd,
         Start, StartOrExit, CreateDatabase, Create, Profile, Stop, StopIfUp, ResetCounters, Rsync, Average,
         Try, Scrape, Doxy, Workload, Measure, RemoveFile, Verdict, Mail
    <2>3. Here # "log"
      BY <1>1 DEF Moves, Skip, Build, Ask, StopAll, StopAllMySQLd, Clear, ClearMySQLd,
         Start, StartOrExit, CreateDatabase, Create, Profile, Stop, StopIfUp, ResetCounters, Rsync, Average,
         Try, Scrape, Doxy, Workload, Measure, RemoveFile, Verdict, Mail, Doing, Here
    <2> QED
      BY <2>1, <2>2, <2>3, RowsAdvance
  <1>2. CASE EndsTest
    <2>1. over = "no" /\ (Advance \/ Exit) /\ Here # "log"
      BY <1>2, EndsTestControl DEF Tests
    <2>2. rows' = rows
      BY <1>2 DEF EndsTest, EndTest, EndLoad, PassTest, FailTest, CheckFails, Ending
    <2> QED
      BY <2>1, <2>2, RowsAdvance
  <1>3. CASE Other
    <2>1. /\ rows' = rows /\ job' = job /\ session' = session /\ at' = at
          /\ over' = "exit" \/ over' = over
      BY <1>3 DEF Other, BeginTest, Kill, Exit, ServerUp, ServerEnds, Free
    <2>2. job \in Jobs /\ (over = "no" => at \in 1 .. 23) /\ LogAt(job) \in 3 .. 24
      BY TestPlaces, ScriptPlaces DEF Control
    <2>3. over = "no" /\ at < LogAt(job) => at <= LogAt(job)
      BY <2>2
    <2>4. bad' \in {bad, bad \cup {session}} /\ (bad' # bad => over = "no" /\ at <= LogAt(job))
      BY <2>3, BadStep
    <2> QED
      BY <2>1, <2>4, RowsStay
  <1> QED
    BY <1>1, <1>2, <1>3, NextCases, RowsAgain, RowsLog, RowsNewSession
-----------------------------------------------------------------------------
CommandsInv ==
  Control /\ ServerTypes /\ Servers /\ NothingLeft /\ Counted /\ OwnFiles /\ Recorded

LEMMA CommandsInitially ==
  ASSUME CommandsInit
  PROVE  CommandsInv
  <1>1. PICK j \in Jobs : job = j
    BY DEF CommandsInit
  <1>2. /\ session = 0 /\ at = 1 /\ round = 1 /\ over = "exit" /\ busy = FALSE /\ failed = 0
        /\ proc = [p \in Ports |-> NoProcess] /\ worn = {} /\ files = {} /\ rows = {} /\ bad = {}
    BY DEF CommandsInit
  <1>3. Control
    <2>1. \A l \in 1 .. 23 : 1 \in 1 .. l + 1
      OBVIOUS
    <2>2. 1 \in 1 .. Len(Script(j)) + 1 /\ 1 \in 1 .. j.tests
      BY <2>1, ScriptPlaces, JobTypes
    <2>3. 0 \in 0 .. MaxSessions /\ 0 <= 1 /\ 0 < 1
      BY CommandsAssumption
    <2> QED
      BY <1>1, <1>2, <2>2, <2>3 DEF Control
  <1>4. ServerTypes
    BY <1>2 DEF ServerTypes, Processes, NoProcess
  <1> QED
    BY <1>2, <1>3, <1>4 DEF CommandsInv, Servers, NothingLeft, Counted, OwnFiles, Recorded

LEMMA CommandsStep ==
  ASSUME CommandsInv, [CommandsNext]_commandsVars
  PROVE  CommandsInv'
  <1>1. CASE CommandsNext
    BY <1>1, ControlStep, TypesStep, ServersStep, CountedStep, FilesStep, RowsStep DEF CommandsInv
  <1>2. CASE UNCHANGED commandsVars
    BY <1>2 DEF commandsVars, CommandsInv, Control, ServerTypes, Processes, Servers, PortKept, OwnServer, Leftover, Late,
       NothingLeft, Counted, OwnFiles, Done, Recorded
  <1> QED
    BY <1>1, <1>2

LEMMA CommandsInvariant == CommandsSpec => []CommandsInv
  BY CommandsInitially, CommandsStep, PTL DEF CommandsSpec

(* The state of the sessions is well typed, and a command that returns has *)
(* told all its servers to stop.                                           *)
THEOREM HostLeftFree == CommandsSpec => []Consistent
  <1>1. ASSUME CommandsInv PROVE Consistent
    <2>1. failed \in 0 .. job.tests
      <3>1. failed \in Nat /\ failed <= round /\ round \in 1 .. job.tests /\ job.tests \in Nat
        BY <1>1, JobTypes DEF CommandsInv, Control
      <3> QED
        BY <3>1
    <2> QED
      BY <1>1, <2>1 DEF CommandsInv, Control, ServerTypes, Processes, Consistent, TypeOK
  <1> QED
    BY <1>1, CommandsInvariant, PTL

(* A test of a drizzled begins on cleared directories, with servers that   *)
(* the session has started itself, unless an earlier session has left one  *)
(* under the profiler: stopAll does not find that.                         *)
THEOREM CleanStart == CommandsSpec => []FreshServer
  <1>1. ASSUME CommandsInv, NEW d \in Tests, Doing(d), job.options.server = "drizzled", NEW p \in PortsOf(job)
        PROVE  /\ p \notin worn
               /\ Up(p) => Leftover(p) \/ (proc[p].by = session /\ (proc[p].lost => MayBeLate(p)))
    <2>1. over = "no" /\ ~ busy /\ Here \in Tests /\ Control /\ PortKept(p)
      BY <1>1 DEF CommandsInv, Servers, Doing, Here
    <2>2. job \in Jobs /\ at \in 1 .. Len(Script(job)) /\ Landmarks(job, at, Here)
      BY <2>1, TestPlaces
    <2>3. at \in Cleared(job, p) /\ at > SweepAt(job)
      <3>1. Leads(job, Here, at, at + 1)
        BY DEF Leads
      <3>2. Respects(job, Here, P, at, at + 1, p)
        BY <2>2, <3>1, ScriptsRespect DEF Here, P
      <3> QED
        BY <2>1, <3>2 DEF Respects, Ready
    <2>4. Late(p) => MayBeLate(p)
      <3>1. job.command = "randgen" => at = 11
        BY <2>1, <2>2 DEF Landmarks, Tests, TestAt
      <3> QED
        BY <3>1 DEF Late, MayBeLate
    <2> QED
      BY <1>1, <2>1, <2>3, <2>4 DEF PortKept, OwnServer, Leftover, Up
  <1>2. CommandsInv => FreshServer
    BY <1>1 DEF FreshServer
  <1> QED
    BY <1>2, CommandsInvariant, PTL

(* A session with a failed test does not return, and has logged nothing.   *)
THEOREM FailedIsTold == CommandsSpec => []HonestExit
  <1>1. CommandsInv => HonestExit
    BY DEF CommandsInv, HonestExit, Counted, Recorded
  <1> QED
    BY <1>1, CommandsInvariant, PTL

(* What a session has logged are results of its own tests: all of them, if *)
(* it returns.                                                             *)
THEOREM LoggedIsMeasured == CommandsSpec => []OwnResults
  <1>1. CommandsInv => OwnResults
    BY DEF CommandsInv, OwnResults, Recorded, Stores
  <1> QED
    BY <1>1, CommandsInvariant, PTL
====
