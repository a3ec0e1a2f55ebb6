----------------------------- MODULE MCHttpCell -----------------------------
(* The cell's geometry reduced to one real segment: the link is the subject. *)
EXTENDS HttpCell

MCDistance ==
    [a \in Waypoints |-> [b \in Waypoints |->
        IF {a, b} = {"home", "above_bin"} THEN 2 ELSE 0]]

\* The http run tells states apart by all but the decision stamps and the reaction
\* computed from them.  No guard and no other assignment reads either, and no
\* property of that run does but for their type, so states that differ in nothing
\* else have the same future.
Undated(signal) == [signal EXCEPT !.asserted = 0]

UndatedView ==
    <<format, now, starts, up, Undated(current), permits, lapsedAt, diedAt,
      Undated(latest), lastSuccess, everReceived, readinessSequence,
      pollerPc, fetchedAt, Undated(reply), countVars,
      readerPc, sampledAt, Undated(loaded), Undated(lastGood), movedAt,
      phase, phaseBeforeHold, motion, cyclesWithoutSafety, cyclesOnStaleSafety,
      hasStopMeasurement, lastSequence, wasPermitted>>
=============================================================================
