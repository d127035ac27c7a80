----------------------------- MODULE TLSRecord -----------------------------
(***************************************************************************)
(* The record layer, the key schedule and the session tickets of           *)
(* pkg/oknet/crypto/tls (Go's crypto/tls changed so that a server can be   *)
(* driven by an event loop), and the state of one connection between a     *)
(* client and the server.                                                  *)
(*                                                                         *)
(* Cryptography is symbolic: a secret is the tuple of what it is derived   *)
(* from, a record is opened by the key and the sequence number it was      *)
(* sealed with, and a transcript is the sequence of the names of the       *)
(* messages hashed into it (the network changes nothing, so the name of a  *)
(* message on a connection fixes its bytes).                               *)
(***************************************************************************)
EXTENDS Naturals, Sequences, SequencesExt, TLC

CONSTANTS
  ServerConfigs,     \* the tls.Config a server may run with
  ClientConfigs,     \* the tls.Config a client may connect with
  MaxConns,          \* connections made one after the other
  MaxTime,           \* last instant of the clock
  Rotation,          \* ticketKeyRotation
  Lifetime,          \* ticketKeyLifetime = maxSessionTicketLifetime
  MaxData,           \* application records each side sends on a connection
  MaxUpdates         \* key updates the client sends on a connection

ASSUME TLSConstants ==
  /\ MaxConns \in Nat \ {0} /\ MaxTime \in Nat /\ MaxData \in Nat
  /\ Rotation \in Nat \ {0} /\ Lifetime \in Nat /\ MaxUpdates \in Nat

VARIABLES
  sc,      \* the server's Config
  cc,      \* the client's Config on this connection
  s,       \* the server's Conn and handshake state
  c,       \* the client's Conn and handshake state
  toS,     \* records written by the client and not yet taken by the server
  got,     \* how many halves of toS (header, body) the server's buffers hold
  toC,     \* records written by the server and not yet read by the client
  keys,    \* autoSessionTicketKeys: the instants at which they were made
  cache,   \* the client's ClientSessionCache entry for this server
  now,     \* the clock
  conns    \* connections made so far

vars == <<sc, cc, s, c, toS, got, toC, keys, cache, now, conns>>

(***************************************************************************)
(* Half connections.                                                       *)
(***************************************************************************)

\* A halfConn before any key is set.
Half == [key |-> <<"plain">>, next |-> <<>>, n |-> 0]

prepareCipherSpec(h, key) == [h EXCEPT !.next = key]

\* The prepared key becomes the current one and the sequence number restarts.
\* The caller has prepared a key.
changeCipherSpec(h) == [key |-> h.next, next |-> <<>>, n |-> 0]

setTrafficSecret(h, secret) == [h EXCEPT !.key = secret, !.n = 0]

\* k records more have been sealed or opened: nothing is counted while there
\* is no key.
incSeq(h, k) == IF h.key = <<"plain">> THEN h ELSE [h EXCEPT !.n = @ + k]

\* encrypt and the header written by writeRecordLocked: one record of type
\* typ, sealed with the current key and sequence number.
Seal(h, typ, body) == [typ |-> typ, key |-> h.key, n |-> h.n, body |-> body]

\* writeHandshakeRecord for each of msgs: every message is a record.
Records(h, msgs) == [i \in DOMAIN msgs |-> Seal(incSeq(h, i - 1), "hs", msgs[i])]

\* decrypt opens a record sealed with this key and number; in TLS 1.3 a
\* ChangeCipherSpec is not encrypted.
Opens(h, vers, rec) ==
  \/ vers = 13 /\ rec.typ = "ccs"
  \/ rec.key = h.key /\ rec.n = h.n

(***************************************************************************)
(* Key schedule.  secrets are tuples of what they are derived from.        *)
(***************************************************************************)

\* masterFromPreMasterSecret: the randoms are those of this connection.
masterFromPreMasterSecret(pre) == <<pre, conns>>

keysFromMasterSecret(master, dir) == <<"key", dir, master, conns>>

\* clientSum and serverSum of TLS 1.2 and finishedHash of TLS 1.3.
finishedSum(base, tx) == <<"finished", base, tx>>

\* deriveSecret over the transcript, for one direction.
deriveSecret(secret, label, tx) == <<label, secret, tx>>

nextTrafficSecret(secret) == <<"update", secret>>

\* sharedKey of an ECDHE exchange over a group, on this connection; NoShare
\* is the nil slice extract turns into zeros.
ECDH(group) == <<"ecdh", group, conns>>
NoShare == <<"zeros">>

(***************************************************************************)
(* Negotiation.                                                            *)
(***************************************************************************)

\* mutualVersion: the first of the peer's versions that is supported.
mutualVersion(own, peer) ==
  LET both == SelectSeq(peer, LAMBDA v : Contains(own, v))
  IN IF both = <<>> THEN 0 ELSE Head(both)

maxSupportedVersion(own) == Head(own)

\* A curve of the client's is supported.
supportsECDHE(hello) ==
  \E i \in DOMAIN hello.groups : Contains(sc.groups, hello.groups[i])

\* The certificate is an RSA one, so it signs and decrypts; an ECDHE suite
\* needs a common curve as well.
cipherSuiteOk(suite, hello) == suite = "rsa" \/ supportsECDHE(hello)

\* The first suite, in the server's order, that the client offers.
selectCipherSuite(ids, hello) ==
  LET ok == SelectSeq(ids, LAMBDA x : x \in hello.suites /\ cipherSuiteOk(x, hello))
  IN IF ok = <<>> THEN "none" ELSE Head(ok)

requiresClientCert == sc.auth = "require"

(***************************************************************************)
(* Session tickets.                                                        *)
(***************************************************************************)

NoTicket == [vers |-> 0]

\* The keys are rotated when the newest is not fresh; expired ones go.
ticketKeys ==
  IF keys # <<>> /\ now - Head(keys) < Rotation
    THEN keys
    ELSE <<now>> \o SelectSeq(keys, LAMBDA k : now - k < Lifetime)

\* sessionState and sessionStateTLS13.
sessionState(vers, suite, secret, at, certs) ==
  [vers |-> vers, suite |-> suite, secret |-> secret, at |-> at, certs |-> certs]

\* encryptTicket: a session under the newest key of the connection.
encryptTicket(ks, session) == session @@ [key |-> Head(ks)]

\* decryptTicket: the key of the ticket must be one of the connection's keys.
decryptTicket(ks, ticket) == ticket # NoTicket /\ Contains(ks, ticket.key)

\* What both versions ask of a ticket once it is open: its age, and that the
\* certificates in it agree with what the configuration wants.
TicketUsable(ticket) ==
  /\ now - ticket.at <= Lifetime
  /\ requiresClientCert => ticket.certs > 0
  /\ ticket.certs > 0 => sc.auth # "none"

NoSession == [vers |-> 0]

(***************************************************************************)
(* Messages: those that carry nothing but their name, and transcripts.     *)
(***************************************************************************)
Msg(name) == [m |-> name]

\* transcriptMsg and the transcript argument of writeHandshakeRecord.
Hash(tx, msgs) == tx \o [i \in DOMAIN msgs |-> msgs[i].m]
=============================================================================
