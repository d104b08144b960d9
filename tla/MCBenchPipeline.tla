--------------------------- MODULE MCBenchPipeline --------------------------
(* Small instances of BenchPipeline. *)
EXTENDS BenchPipeline, TLC

Job(n, l, i, p, s, d) ==
  [revisions |-> n, levels |-> l, iterations |-> i, profiler |-> p, status |-> s, store |-> d]
Mixed == {Job(1, <<1, 2>>, 1, FALSE, FALSE, TRUE), Job(2, <<1>>, 1, TRUE, FALSE, FALSE),
          Job(2, <<1>>, 2, FALSE, TRUE, TRUE), Job(1, <<2, 1, 1>>, 1, FALSE, FALSE, TRUE)}
Dbs  == {[use |-> "mysql", before |-> 0], [use |-> "drizzle", before |-> 1]}

Symmetric == Permutations(Pipelines) \cup Permutations(Hosts)
=============================================================================
