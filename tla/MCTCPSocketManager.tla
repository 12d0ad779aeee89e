------------------------- MODULE MCTCPSocketManager --------------------------
(* Five managers: a client and a server that are opened and closed while    *)
(* connections come and go, a server whose address may fail to resolve or   *)
(* bind, and a throttled client that is written to, closed in one setup     *)
(* and connected twice in the other.                                        *)
EXTENDS TCPSocketManager

Client == [IsServer |-> FALSE, Endpoints |-> 1, AutoReopen |-> TRUE, RetryTime |-> 0,
           BufferLimit |-> 2, Parts |-> 2, Throttled |-> FALSE,
           ResolveMayFail |-> FALSE, BindMayFail |-> FALSE, CancelMayFail |-> FALSE,
           MaxCalls |-> 3, MaxWrites |-> 0, MaxConnects |-> 2, MaxStale |-> 0]

Server == [Client EXCEPT !.IsServer = TRUE]

UnluckyServer == [Server EXCEPT !.RetryTime = 100, !.ResolveMayFail = TRUE,
                                !.BindMayFail = TRUE, !.MaxStale = 1]

Writer == [Client EXCEPT !.RetryTime = 100, !.BufferLimit = 1, !.Throttled = TRUE,
                         !.CancelMayFail = TRUE, !.MaxCalls = 1, !.MaxWrites = 2]

ClosedWriter == [Writer EXCEPT !.MaxCalls = 2, !.MaxConnects = 1]

MCSetups == {Client, Server, UnluckyServer, Writer, ClosedWriter}
=============================================================================
