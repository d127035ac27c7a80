------------------------------- MODULE MCTLS -------------------------------
EXTENDS TLS

Server(vers, suites, groups, auth, tickets) ==
  [vers |-> vers, suites |-> suites, groups |-> groups, auth |-> auth, tickets |-> tickets]

Client(vers, suites, groups, chain, wss, cached) ==
  [vers |-> vers, suites |-> suites, groups |-> groups, chain |-> chain,
   wss |-> wss, cache |-> cached]

Both == <<13, 12>>
All == {"ecdhe", "rsa"}

MCServers ==
  { Server(Both, <<"ecdhe", "rsa">>, <<"x", "p">>, auth, TRUE) : auth \in {"none", "request", "require"} }
  \cup { Server(Both, <<"ecdhe">>, <<"p">>, "none", TRUE),
         Server(<<12>>, <<"ecdhe", "rsa">>, <<"x">>, "request", FALSE) }

MCClients ==
  { Client(vers, All, <<"x", "p">>, chain, TRUE, TRUE) : vers \in {Both, <<12>>}, chain \in 0 .. 2 }
  \cup { Client(Both, All, <<"x">>, 0, FALSE, TRUE),
         Client(<<12>>, {"rsa"}, <<"x">>, 0, TRUE, FALSE),
         Client(<<13>>, All, <<"x">>, 1, TRUE, FALSE) }
=============================================================================
