------------------------------ MODULE MCReports -----------------------------
(* Reports of each kind, asked for and mailed, over a few runs of two        *)
(* branches and two revisions.                                               *)
EXTENDS Reports

Trunk  == <<"_">>   \* a wildcard to LIKE
Stage  == <<"s">>
L(b, r, p)  == [branch |-> b, revision |-> r, place |-> p]
MCLogged == {L(Trunk, <<"1">>, "here"), L(Trunk, <<"1", "2">>, "here"), L(Trunk, <<"1">>, "there"),
             L(Stage, <<"1">>, "here")}
A(r, m, b)  == [report |-> r, mailed |-> m, branch |-> b, revision |-> <<"1">>, place |-> "here"]
MCAsks == {A("sysbench", FALSE, Trunk), A("sysbench", TRUE, Trunk), A("sqlbench", FALSE, Trunk),
           A("drizzleslap", FALSE, Trunk), A("dbt2", TRUE, Stage)}
MCKeys == {[name |-> "test", level |-> 1], [name |-> "test", level |-> 2]}
=============================================================================
