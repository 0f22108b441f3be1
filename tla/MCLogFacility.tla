----------------------------- MODULE MCLogFacility -----------------------------
(* A server with two threads and a client with one, on a ring of two slots. *)
EXTENDS LogFacility

CONSTANTS server, client, s1, s2, c1

MCProcesses == {server, client}
MCThreads   == {s1, s2, c1}
MCProcessOf == [t \in MCThreads |-> IF t = c1 THEN client ELSE server]

LoneServer    == {server}
ServerThreads == {s1, s2}
OnlyServer    == [t \in ServerThreads |-> server]

=============================================================================
