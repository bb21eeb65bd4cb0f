-------------------------- MODULE MCDaemonLifecycle --------------------------
(* Instances of DaemonLifecycle for TLC. *)
EXTENDS DaemonLifecycle

\* Everything asked for, no directory for an index, and the index turned off.  A part that is asked
\* for may fail to come up, so a node without identity, DHT, publisher or API is among these too.
Everything == [identity |-> TRUE, noIndex |-> FALSE, index |-> TRUE, dht |-> TRUE, publish |-> TRUE, api |-> TRUE]
WithAndWithoutIndex ==
    {Everything, [Everything EXCEPT !.index = FALSE], [Everything EXCEPT !.index = FALSE, !.noIndex = TRUE]}
=============================================================================
