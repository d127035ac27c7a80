-------------------------------- MODULE TLS --------------------------------
(***************************************************************************)
(* A client that connects to the server several times, one connection      *)
(* after the other, with what its session cache keeps in between.          *)
(***************************************************************************)
EXTENDS TLSClient

Init ==
  /\ sc \in ServerConfigs /\ cc \in ClientConfigs
  /\ s = NewServer /\ c = NewClient
  /\ toS = <<>> /\ got = 0 /\ toC = <<>>
  /\ keys = <<>> /\ cache = NoSession /\ now = 0 /\ conns = 1

\* The next connection, some time later; the client may have been configured
\* for other versions of TLS meanwhile.
Reconnect ==
  /\ s.at = "closed" /\ c.at = "closed" /\ conns < MaxConns
  /\ conns' = conns + 1
  /\ now' \in now .. MaxTime
  /\ \E new \in ClientConfigs :
       new = [cc EXCEPT !.vers = new.vers] /\ cc' = new
  /\ s' = NewServer /\ c' = NewClient
  /\ toS' = <<>> /\ got' = 0 /\ toC' = <<>>
  /\ UNCHANGED <<sc, keys, cache>>

Next == ServerNext \/ ClientNext \/ Reconnect

Spec == Init /\ [][Next]_vars

(***************************************************************************)
(* Properties.                                                             *)
(***************************************************************************)
Upto(n) == [i \in 1 .. n |-> i]

\* Two ends that have both completed a handshake agree on its version, its
\* cipher suite, on whether it resumed a session and on every message of it;
\* while nothing is in flight each end reads with the key and the sequence
\* number the other writes with (handshake_server.go, handshake_server_tls13.go,
\* conn.go handleKeyUpdate).
Agreement ==
  /\ s.complete /\ c.complete =>
       /\ s.vers = c.vers /\ s.suite = c.suite /\ s.resumed = c.resumed /\ s.tx = c.tx
  /\ s.complete /\ c.at = "data" /\ s.at = "idle" /\ toS = <<>> /\ toC = <<>> =>
       s.in = c.out /\ s.out = c.in

\* The application gets the client's data in order, without a gap and once,
\* and the client the replies, however the records are cut by the reads, keys
\* are updated and the connection ends (conn.go Read and readRecordOrCCS,
\* oknet/conn.go ReadToInboundBuffer).
DataInOrder ==
  /\ IsPrefix(s.delivered \o s.inbound, Upto(c.sent))
  /\ IsPrefix(c.received, Upto(s.replies))

\* Everything written has arrived, and both ends wait.
Quiet ==
  /\ s.at = "idle" /\ got = 2 * Len(toS)
  /\ toC = <<>> /\ c.at \notin {"start", "closed"}

\* Neither end waits for the other for ever: when both wait and the connection
\* is open, the handshake is complete at both ends and all data delivered.
\* There are two exceptions: a TLS 1.2 resumption, in which the server never
\* sends its Finished; and a connection on which a read cut an application
\* data record after its header, which reads nothing more
\* (handshake_server.go:810, conn.go:796-804).
NoStall ==
  Quiet =>
    \/ s.vers = 12 /\ s.resumed /\ s.status >= 24
    \/ s.complete /\ s.inErr
    \/ s.complete /\ c.complete /\ s.delivered = Upto(c.sent)

\* The client's certificate flight did not arrive in one read.
CertificateCut ==
  \/ s.vers = 12 /\ s.certs > 0 /\ ~s.pub
  \/ s.vers = 13 /\ s.status >= 8 /\ s.certMsg /\ s.verified < s.certs

\* A connection on which nothing was tampered with fails only when the two
\* configurations have no version, suite or curve in common, when a required
\* certificate is missing, and in the cases the event-driven server does not
\* manage: a HelloRetryRequest, more than one client certificate in TLS 1.3,
\* a client certificate flight cut by a read, and a reply on a TCP connection,
\* which is sent in the clear (handshake_server_tls13.go:483, 902,
\* handshake_server.go:655-690, internal/server/dispatch.go:157).
FailsOnlyWhen ==
  s.alert # "none" \/ c.alert # "none" =>
    \/ mutualVersion(sc.vers, cc.vers) = 0
    \/ ~\E i \in DOMAIN sc.suites : sc.suites[i] \in cc.suites /\ cipherSuiteOk(sc.suites[i], s.ch)
    \/ s.vers = 13 /\ ~Contains(sc.groups, s.ch.share)
    \/ requestClientCert(s) /\ requiresClientCert /\ cc.chain = 0
    \/ requestClientCert(s) /\ s.vers = 13 /\ cc.chain > 1
    \/ requestClientCert(s) /\ CertificateCut
    \/ ~cc.wss /\ s.replies > 0
=============================================================================
