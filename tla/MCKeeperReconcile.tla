------------------------- MODULE MCKeeperReconcile -------------------------
(* Small instances of KeeperReconcile.                                     *)
EXTENDS KeeperReconcile, TLC

CONSTANTS a, b, c, d,       \* hosts
          t1, t2            \* StatefulSet template revisions

MCHosts3 == {a, b, c}
MCHosts4 == {a, b, c, d}

MCPos3 == a :> 1 @@ b :> 2 @@ c :> 3
MCPos4 == a :> 1 @@ b :> 2 @@ c :> 3 @@ d :> 4

MCOneShard  == [h \in Hosts |-> 1]
MCTwoShards == [h \in Hosts |-> IF h \in {c, d} THEN 2 ELSE 1]

MCSpec(ms, t) ==
    [members |-> ms, tmpl |-> t, conf |-> 0, settings |-> 0,
     stop |-> FALSE, suspend |-> FALSE, refused |-> FALSE]

\* One membership, a template change and a settings change that restarts.
MCRollSpecs == {MCSpec(Hosts, t1), MCSpec(Hosts, t2),
                [MCSpec(Hosts, t2) EXCEPT !.settings = 1]}

\* Growth, shrink, stop, suspend and a refused specification.
MCScaleSpecs == {MCSpec({a, b, c}, t1), MCSpec(Hosts, t2), MCSpec({a, b}, t2),
                 [MCSpec({a, b, c}, t1) EXCEPT !.stop = TRUE],
                 [MCSpec({a, b, c}, t1) EXCEPT !.suspend = TRUE],
                 [MCSpec({a, b, c}, t1) EXCEPT !.refused = TRUE]}

MCTemplateSpecs == {MCSpec(Hosts, t1), MCSpec(Hosts, t2)}

=============================================================================
