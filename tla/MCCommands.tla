----------------------------- MODULE MCCommands -----------------------------
(* Jobs for the model checker: each command, each adapter, each option.      *)
EXTENDS Commands

Plain == [server |-> "drizzled", build |-> FALSE, force |-> FALSE, profiler |-> FALSE,
          validator |-> FALSE, store |-> TRUE, mail |-> FALSE, rsync |-> FALSE]
J(c, n, o) == [command |-> c, old |-> FALSE, tests |-> n, options |-> o]
SomeJobs == {
  J("doxy", 1, Plain),
  J("lcov", 2, [Plain EXCEPT !.build = TRUE, !.rsync = TRUE]),
  J("sloc", 2, Plain),
  J("crashme", 1, [Plain EXCEPT !.server = "mysqld"]),
  J("sqlbench", 1, [Plain EXCEPT !.build = TRUE, !.force = TRUE]),
  J("dbt2", 2, [Plain EXCEPT !.mail = TRUE]),
  J("dbt2", 1, [Plain EXCEPT !.profiler = TRUE]),
  J("drizzleslap", 2, Plain),
  J("drizzleslap", 1, [Plain EXCEPT !.server = "mysqld"]),
  J("drizzleslap", 1, [Plain EXCEPT !.store = FALSE, !.mail = TRUE]),
  J("randgen", 2, [Plain EXCEPT !.validator = TRUE]),
  J("randgen", 2, [Plain EXCEPT !.profiler = TRUE]),
  [J("randgen", 1, [Plain EXCEPT !.profiler = TRUE]) EXCEPT !.old = TRUE],
  [J("randgen", 1, Plain) EXCEPT !.old = TRUE]}
=============================================================================
