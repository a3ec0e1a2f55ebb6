----------------------------- MODULE SafetyLink -----------------------------
(***************************************************************************)
(* What passes between the safety runtime and the cell: the signal the     *)
(* runtime writes (SafetySignal), the view of it a link hands to the cell  *)
(* (SafetyView), and the two ways a link builds a view.  Instants are      *)
(* readings of the machine's monotonic clock, in ticks.                    *)
(***************************************************************************)
EXTENDS Naturals

Instant == Nat

SafetySignal == [sequence  : Nat,
                 asserted  : Instant,
                 published : Instant,
                 permitted : BOOLEAN]

\* A default-constructed SafetySignal: it permits torque, and it carries a
\* publish stamp no clock has shown since the machine booted.
DefaultSignal ==
    [sequence |-> 0, asserted |-> 0, published |-> 0, permitted |-> TRUE]

SafetyView == [valid     : BOOLEAN,
               permitted : BOOLEAN,
               asserted  : Instant,
               observed  : Instant,
               published : Instant,
               sequence  : Nat]

\* A default-constructed SafetyView: the link has never produced a reading.
NoView == [valid |-> FALSE, permitted |-> FALSE, asserted |-> 0,
           observed |-> 0, published |-> 0, sequence |-> 0]

\* The view of a signal that was read successfully.
ViewOf(signal, observed, published) ==
    [valid     |-> TRUE,
     permitted |-> signal.permitted,
     asserted  |-> signal.asserted,
     observed  |-> observed,
     published |-> published,
     sequence  |-> signal.sequence]
=============================================================================
