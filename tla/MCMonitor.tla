----------------------------- MODULE MCMonitor -----------------------------
(***************************************************************************)
(* Small instances of Monitor for TLC.  The data of the three sensors are  *)
(* disjoint, so that a reading filed under another sensor shows.  The      *)
(* temperatures hold a pair inside the jump limit, a pair at it, a pair    *)
(* outside it, and the 0 that disarms the filter.                          *)
(***************************************************************************)
EXTENDS Monitor

MCReadings ==
  (READ_VOLTAGE :> {230})
    @@ (READ_TEMPERATURE :> {0, 3, 8})
    @@ (READ_STATE_PONDING :> {1})

\* One value per sensor: what a stable lift would answer.
MCStableReadings ==
  (READ_VOLTAGE :> {230})
    @@ (READ_TEMPERATURE :> {200})
    @@ (READ_STATE_PONDING :> {1})

MCNoise == {777}

MCOneLimit == [k \in Limited |-> {[min |-> 15, max |-> 250]}]

\* The second voltage pair is upside down: the panel does not compare min with
\* max, and every reading alarms.
MCTwoLimits ==
  (READ_VOLTAGE :> {[min |-> 200, max |-> 250], [min |-> 250, max |-> 200]})
    @@ (READ_TEMPERATURE :> {[min |-> 15, max |-> 30]})

=============================================================================
