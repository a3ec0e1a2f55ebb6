--------------------------- MODULE MCReactionTrials ---------------------------
(* The cell's geometry reduced to one real segment: the trials are the subject. *)
EXTENDS ReactionTrials

MCDistance ==
    [a \in Waypoints |-> [b \in Waypoints |->
        IF {a, b} = {"home", "above_bin"} THEN 2 ELSE 0]]
=============================================================================
