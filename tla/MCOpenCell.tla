---------------------------- MODULE MCOpenCell ----------------------------
(* A small cell: lengths in steps, one segment long enough to interrupt.   *)
EXTENDS OpenCell

Lengths == {<<{"home", "above_bin"}, 1>>,
            <<{"above_bin", "bin"}, 2>>,
            <<{"above_bin", "above_fixture"}, 4>>,
            <<{"above_fixture", "fixture"}, 3>>}

MCDistance ==
    [a \in Waypoints |-> [b \in Waypoints |->
        IF \E l \in Lengths : l[1] = {a, b}
          THEN (CHOOSE l \in Lengths : l[1] = {a, b})[2]
          ELSE 0]]
=============================================================================
