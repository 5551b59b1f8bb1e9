--------------------------- MODULE MCChiReconcile ---------------------------
(***************************************************************************)
(* Instances of ChiReconcile: a shard of two, and a shard that comes and   *)
(* goes; a new installation walks both at the same time.                   *)
(***************************************************************************)
EXTENDS ChiReconcile

MCHostSeq == <<"a", "b", "c">>
MCShardOf == [h \in {"a", "b", "c"} |-> IF h = "c" THEN 2 ELSE 1]

\* v2 has another image, v3 another environment, v4 does not start
MCVers == {"v1", "v2", "v3", "v4"}
MCImage == [v \in MCVers |-> IF v = "v2" THEN "new" ELSE "old"]
MCEnv == [v \in MCVers |-> IF v = "v3" THEN "new" ELSE "old"]

Make(hosts, ver, setting, mode) ==
    [hosts |-> hosts, ver |-> ver, conf |-> setting, mode |-> mode, rolling |-> FALSE]
Start == Make({"a", "b"}, "v1", "c1", "run")
New == Make({"a", "b", "c"}, "v1", "c1", "run")

\* an image, with a shard added; a setting; an environment and a setting, with a
\* replica removed; what does not start; everything stopped; a rolling restart
PassSpecs == {Start, Make({"a", "b", "c"}, "v2", "c1", "run"),
              Make({"a", "b"}, "v1", "c2", "run"),
              Make({"a"}, "v3", "c2", "run"),
              Make({"a", "b"}, "v4", "c1", "run"),
              Make({"a", "b"}, "v1", "c1", "stop"),
              [Start EXCEPT !.rolling = TRUE]}

\* the defaults, and the strictest
Policy(create, other, again) ==
    [create |-> create, update |-> other, recreate |-> again, loss |-> again]
Defaults == Policy("ignore", "abort", "recreate")
BothPolicies == {Defaults, Policy("abort", "ignore", "abort")}
DefaultPolicy == {Defaults}

\* a setting alone, on an installation that is new
NewSpecs == {New, Make({"a", "b", "c"}, "v1", "c2", "run")}
=============================================================================
