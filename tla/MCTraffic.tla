------------------------------- MODULE MCTraffic -------------------------------
(***************************************************************************)
(* Instances of Traffic.  Two orders fit a batch: a window at three orders *)
(* a minute has one batch, of one order or, with the half carried over, of *)
(* two; at six it has two batches; and at one, below an order a window, it *)
(* may have none.                                                          *)
(***************************************************************************)
EXTENDS Traffic

SteadyRates == {0, 1, 3, 6}
SlowRates == {0, 1}
NoFaults == {}
OneSplit == {"pinned"}
OneBurst == {2}
OneMilli == {1}
=============================================================================
