------------------------- MODULE MCSharedMemoryCell -------------------------
(* The cell's geometry reduced to one real segment: the link is the subject. *)
EXTENDS SharedMemoryCell

MCDistance ==
    [a \in Waypoints |-> [b \in Waypoints |->
        IF {a, b} = {"home", "above_bin"} THEN 2 ELSE 0]]
=============================================================================
