-------------------------------- MODULE MCBench --------------------------------
(* The instance of Bench that TLC checks.                                    *)
EXTENDS Bench

MCTimes == <<2, 4, 5>>

\* Both orders of the faults that interact, two jitters, and a chain that
\* cannot be built.
MCChains ==
  {<<>>, <<"unknown">>, <<"noise", "packet_loss">>, <<"jitter", "outage">>,
   <<"outage", "jitter">>, <<"jitter", "jitter">>}

MCOutage == 3..4

=============================================================================
