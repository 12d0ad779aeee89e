-------------------------- MODULE MCDNP3MasterPort --------------------------
(* Instances of DNP3MasterPort for TLC.                                    *)
EXTENDS DNP3MasterPort

Conf(server, watchdog, trigger, quality, stable, enables, disables, changes, opens, demands) ==
    [server |-> server, watchdog |-> watchdog, trigger |-> trigger, quality |-> quality,
     stability |-> stable, enables |-> enables, disables |-> disables,
     changes |-> changes, opens |-> opens, demands |-> demands]

\* A serial or UDP channel (no watchdog) that is disabled and enabled again;
\* a TCP channel, whose watchdog restarts it, also while the port is being
\* disabled; a connection that must be stable before it counts; and a port
\* that connects on demand.
MCConfs == { Conf("PERSISTENT", FALSE, "ON_FIRST", TRUE,  FALSE, 2, 1, 0, 2, 0),
             Conf("PERSISTENT", TRUE,  "ON_EVERY", FALSE, FALSE, 1, 0, 2, 2, 0),
             Conf("PERSISTENT", TRUE,  "ON_FIRST", FALSE, FALSE, 1, 1, 1, 2, 0),
             Conf("PERSISTENT", FALSE, "ON_EVERY", FALSE, TRUE,  1, 1, 1, 2, 0),
             Conf("ONDEMAND",   TRUE,  "ON_FIRST", FALSE, FALSE, 1, 0, 1, 2, 2) }

\* A connection that must be stable, with the port disabled at any time.
Stability == { Conf("PERSISTENT", FALSE, "NEVER", FALSE, TRUE, 1, 1, 0, 1, 0) }

\* A link that comes and goes while the port rides through.
Bouncing == { Conf("PERSISTENT", FALSE, "NEVER", FALSE, FALSE, 1, 0, 2, 2, 0) }

\* On demand, the upstream port connecting and disconnecting.
OnDemand == { Conf("ONDEMAND", FALSE, "ON_FIRST", FALSE, FALSE, 1, 0, 0, 2, 2) }
=============================================================================
