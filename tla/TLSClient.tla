----------------------------- MODULE TLSClient -----------------------------
(***************************************************************************)
(* The client side (handshake_client.go, handshake_client_tls13.go): the   *)
(* blocking client of the package, which waits for each message.           *)
(*                                                                         *)
(* c.at is the message it waits for, "start" before the ClientHello,       *)
(* "data" once the handshake is complete, "closed".  The client moves only *)
(* between two calls of the server: a call of the server neither reads     *)
(* what the client writes meanwhile nor changes what the client has still  *)
(* to read, so its steps commute with the client's.                        *)
(***************************************************************************)
EXTENDS TLSServer

NewClient ==
  [at |-> "start", vers |-> 0, in |-> Half, out |-> Half, alert |-> "none",
   hello |-> NoMsg, suite |-> "none", session |-> NoSession, resumed |-> FALSE,
   ticket |-> FALSE, group |-> "none", early |-> NoShare, secret |-> <<>>,
   tx |-> <<>>, certReq |-> FALSE, app |-> <<>>, res |-> <<>>,
   dummyCCS |-> FALSE, complete |-> FALSE, sent |-> 0, received |-> <<>>,
   updates |-> 0]

(***************************************************************************)
(* Reading and writing.                                                    *)
(***************************************************************************)
Turn == s.at \in {"idle", "closed"}

\* The messages a state can go on with.
Expects ==
  [ serverHello |-> {"SH", "HRR"}, secondHello |-> {"SH", "HRR"},
    serverParameters |-> {"EE"}, serverCertificate |-> {"CR", "CERT"},
    certificate |-> {"CERT"}, certificateVerify |-> {"CV"},
    serverFinished |-> {"FINs"}, certificate12 |-> {"CERT"},
    keyExchange |-> {"SKX", "CR", "SHD"}, certificateRequest |-> {"CR", "SHD"},
    serverHelloDone |-> {"SHD"}, sessionTicket |-> {"NST"},
    changeCipherSpec |-> {"CCS"}, finished |-> {"FINs"} ]

Waiting == c.at \in DOMAIN Expects

Rec == Head(toC)

\* The next record opens and is the one waited for.
Receives(at, name) ==
  /\ Turn /\ c.at = at /\ toC # <<>>
  /\ Opens(c.in, c.vers, Rec) /\ Rec.typ \in {"hs", "ccs"} /\ Rec.body.m = name
  /\ toC' = Tail(toC)

Opened == [c EXCEPT !.in = incSeq(@, 1)]

\* The message hashed as it is read.
Heard == [Opened EXCEPT !.tx = Hash(@, <<Rec.body>>)]

\* A session that was offered and did not lead to a connection is dropped.
DropSession ==
  IF ~c.complete /\ c.hello.m = "CH" /\ (c.hello.ticket # NoTicket \/ c.hello.psk # NoTicket)
    THEN NoSession ELSE cache

\* sendAlert, and the end of the connection.
ClientFail(alert) ==
  /\ c' = [c EXCEPT !.at = "closed", !.alert = alert]
  /\ toS' = Append(toS, Seal(c.out, "alert", Msg(alert)))
  /\ cache' = DropSession

Say(st, msgs) == [st EXCEPT !.out = incSeq(@, Len(msgs)), !.tx = Hash(@, msgs)]

(***************************************************************************)
(* ClientHello.                                                            *)
(***************************************************************************)

\* loadSession: what the cache offers, whether it stays there, and whether it
\* becomes a pre-shared key or a session ticket.
sessionOk ==
  /\ cc.cache /\ cache # NoSession /\ Contains(cc.vers, cache.vers)
  /\ cache.vers = 12 => cache.suite \in cc.suites
  /\ cache.vers = 13 => now <= cache.useBy

makeClientHello(session, share) ==
  [m |-> "CH", vers |-> cc.vers, suites |-> cc.suites, groups |-> cc.groups,
   share |-> share, tickets |-> cc.cache, pskMode |-> cc.cache /\ Head(cc.vers) = 13,
   ticket |-> IF session.vers = 12 THEN session.ticket ELSE NoTicket,
   psk |-> IF session.vers = 13 THEN session.ticket ELSE NoTicket,
   binder |-> IF session.vers = 13 THEN binderSum(session.secret, <<"CH">>) ELSE <<>>]

clientHandshake ==
  /\ c.at = "start"
  /\ LET session == IF sessionOk THEN cache ELSE NoSession
         share   == IF Head(cc.vers) = 13 THEN Head(cc.groups) ELSE "none"
         hello   == makeClientHello(session, share)
     IN /\ c' = [c EXCEPT !.at = "serverHello", !.hello = hello, !.session = session,
                          !.group = share,
                          !.early = IF session.vers = 13 THEN <<"psk", session.secret>> ELSE NoShare]
        /\ toS' = Append(toS, Seal(c.out, "hs", hello))
  /\ cache' = IF cc.cache /\ cache.vers = 13 /\ Contains(cc.vers, 13) /\ now > cache.useBy
                THEN NoSession ELSE cache
  /\ UNCHANGED toC

(***************************************************************************)
(* ServerHello: pickTLSVersion and the downgrade canary, then the          *)
(* handshake of the version.                                               *)
(***************************************************************************)
BadVersion(sh) ==
  \/ mutualVersion(cc.vers, <<sh.vers>>) = 0
  \/ sh.vers = 12 /\ maxSupportedVersion(cc.vers) = 13 /\ sh.canary

\* processServerHello and establishHandshakeKeys of TLS 1.3, the transcript
\* being tx; the dummy ChangeCipherSpec goes out in the clear.
HandshakeKeys(st, tx, sh) ==
  LET early == IF sh.psk THEN st.early ELSE NoShare
      hs    == <<"handshake", ECDH(sh.group), early>>
  IN [st EXCEPT !.at = "serverParameters", !.vers = 13, !.suite = sh.suite,
        !.resumed = sh.psk, !.tx = tx, !.secret = hs, !.dummyCCS = TRUE,
        !.out = setTrafficSecret(@, deriveSecret(hs, "c hs", tx)),
        !.in = setTrafficSecret(@, deriveSecret(hs, "s hs", tx))]

DummyCCS == IF c.dummyCCS THEN <<>> ELSE << Seal(c.out, "ccs", Msg("CCS")) >>

\* processServerHello of TLS 1.2: a session is resumed when the server echoes
\* the session id.
processServerHello(sh) ==
  LET resume == c.session # NoSession /\ sh.echo
      st     == [c EXCEPT !.vers = 12, !.suite = sh.suite, !.ticket = sh.tickets,
                          !.resumed = resume, !.tx = <<"CH", "SH">>]
  IN IF ~resume THEN [st EXCEPT !.at = "certificate12"]
     ELSE [st EXCEPT !.at = IF sh.tickets THEN "sessionTicket" ELSE "changeCipherSpec",
             !.secret = c.session.secret,
             !.in = prepareCipherSpec(@, keysFromMasterSecret(c.session.secret, "s")),
             !.out = prepareCipherSpec(@, keysFromMasterSecret(c.session.secret, "c"))]

readServerHello ==
  /\ Receives("serverHello", "SH") \/ Receives("secondHello", "SH")
  /\ LET sh == Rec.body
     IN IF BadVersion(sh) THEN ClientFail("protocol_version")
           ELSE IF sh.vers = 12 /\ sh.echo /\ c.session # NoSession
                   /\ (c.session.vers # 12 \/ c.session.suite # sh.suite)
             THEN ClientFail("handshake_failure")
           ELSE IF sh.vers = 12
             THEN c' = processServerHello(sh) /\ UNCHANGED <<toS, cache>>
           ELSE IF sh.group # c.group \/ (sh.psk /\ c.hello.psk = NoTicket)
             THEN ClientFail("illegal_parameter")
             ELSE /\ c' = HandshakeKeys(c, Hash(IF c.at = "serverHello" THEN <<"CH">> ELSE c.tx,
                                                <<sh>>), sh)
                  /\ toS' = toS \o DummyCCS
                  /\ UNCHANGED cache

\* The second ClientHello.  With a pre-shared key the HelloRetryRequest is
\* written to the transcript a second time and not to the one the binder is
\* computed over.
processHelloRetryRequest ==
  /\ Receives("serverHello", "HRR")
  /\ LET hrr   == Rec.body
         psk   == c.hello.psk # NoTicket
         hello == [c.hello EXCEPT !.share = hrr.group,
                     !.binder = IF psk THEN binderSum(c.session.secret, <<"hash", "CH">>) ELSE @]
         tx    == <<"hash", "HRR">> \o (IF psk THEN <<"HRR">> ELSE <<>>)
     IN /\ c' = [c EXCEPT !.at = "secondHello", !.vers = 13, !.suite = hrr.suite,
                   !.group = hrr.group, !.hello = hello, !.dummyCCS = TRUE,
                   !.tx = Hash(tx, <<hello>>)]
        /\ toS' = toS \o DummyCCS \o << Seal(c.out, "hs", hello) >>
  /\ UNCHANGED cache

(***************************************************************************)
(* TLS 1.3.                                                                *)
(***************************************************************************)
readServerParameters ==
  /\ Receives("serverParameters", "EE")
  /\ c' = [Heard EXCEPT !.at = IF c.resumed THEN "serverFinished" ELSE "serverCertificate"]
  /\ UNCHANGED <<toS, cache>>

readServerCertificate ==
  \/ /\ Receives("serverCertificate", "CR")
     /\ c' = [Heard EXCEPT !.at = "certificate", !.certReq = TRUE]
     /\ UNCHANGED <<toS, cache>>
  \/ /\ Receives("serverCertificate", "CERT") \/ Receives("certificate", "CERT")
     /\ c' = [Heard EXCEPT !.at = "certificateVerify"]
     /\ UNCHANGED <<toS, cache>>
  \/ /\ Receives("certificateVerify", "CV")
     /\ IF Rec.body.sig # <<"s", c.tx>> THEN ClientFail("decrypt_error")
        ELSE c' = [Heard EXCEPT !.at = "serverFinished"] /\ UNCHANGED <<toS, cache>>

\* readServerFinished, sendClientCertificate, sendClientFinished.
readServerFinished ==
  /\ Receives("serverFinished", "FINs")
  /\ LET tx     == Append(c.tx, "FINs")
         master == <<"master", c.secret>>
         cert   == IF c.certReq THEN << [m |-> "CERTc", certs |-> cc.chain] >> ELSE <<>>
         cv     == IF c.certReq /\ cc.chain > 0
                     THEN << [m |-> "CVc", sig |-> <<"c", Hash(tx, cert)>>] >> ELSE <<>>
         fin    == << [m |-> "FINc", sum |-> finishedSum(c.out.key, Hash(tx, cert \o cv))] >>
         msgs   == cert \o cv \o fin
     IN IF Rec.body.sum # finishedSum(c.in.key, c.tx) THEN ClientFail("decrypt_error")
        ELSE /\ toS' = toS \o Records(c.out, msgs)
             /\ c' = [c EXCEPT !.at = "data", !.complete = TRUE, !.tx = Hash(tx, msgs),
                        !.in = setTrafficSecret(@, deriveSecret(master, "s ap", tx)),
                        !.out = setTrafficSecret(@, deriveSecret(master, "c ap", tx)),
                        !.res = deriveSecret(master, "res", Hash(tx, msgs))]
             /\ UNCHANGED cache

(***************************************************************************)
(* TLS 1.2.                                                                *)
(***************************************************************************)

\* Certificate, and the optional ServerKeyExchange and CertificateRequest.
readServerFlight ==
  \/ /\ Receives("certificate12", "CERT")
     /\ c' = [Heard EXCEPT !.at = "keyExchange"]
     /\ UNCHANGED <<toS, cache>>
  \/ /\ Receives("keyExchange", "SKX")
     /\ c' = [Heard EXCEPT !.at = "certificateRequest", !.group = Rec.body.group]
     /\ UNCHANGED <<toS, cache>>
  \/ /\ Receives("keyExchange", "CR") \/ Receives("certificateRequest", "CR")
     /\ c' = [Heard EXCEPT !.at = "serverHelloDone", !.certReq = TRUE]
     /\ UNCHANGED <<toS, cache>>

\* ServerHelloDone: Certificate, ClientKeyExchange, CertificateVerify, then
\* establishKeys, ChangeCipherSpec and Finished.
sendFinished12(st) ==
  LET fin == [m |-> "FINc", sum |-> finishedSum(<<st.secret, "c">>, st.tx)]
      out == changeCipherSpec(st.out)
  IN [st |-> Say([st EXCEPT !.out = out], <<fin>>),
      records |-> << Seal(st.out, "ccs", Msg("CCS")) >> \o Records(out, <<fin>>)]

readServerHelloDone ==
  /\ \/ Receives("keyExchange", "SHD") \/ Receives("certificateRequest", "SHD")
     \/ Receives("serverHelloDone", "SHD")
  /\ LET cert   == IF c.certReq THEN << [m |-> "CERTc", certs |-> cc.chain] >> ELSE <<>>
         pre    == IF c.suite = "rsa" THEN <<"rsa", conns>> ELSE ECDH(c.group)
         ckx    == << [m |-> "CKX", pre |-> pre] >>
         cv     == IF c.certReq /\ cc.chain > 0
                     THEN << [m |-> "CVc", sig |-> <<"c", Hash(Heard.tx, cert \o ckx)>>] >>
                     ELSE <<>>
         master == masterFromPreMasterSecret(pre)
         st     == [Say(Heard, cert \o ckx \o cv) EXCEPT !.secret = master,
                      !.in = prepareCipherSpec(@, keysFromMasterSecret(master, "s")),
                      !.out = prepareCipherSpec(@, keysFromMasterSecret(master, "c"))]
         done   == sendFinished12(st)
     IN /\ c' = [done.st EXCEPT !.at = IF c.ticket THEN "sessionTicket" ELSE "changeCipherSpec"]
        /\ toS' = toS \o Records(c.out, cert \o ckx \o cv) \o done.records
  /\ UNCHANGED cache

\* The new session is put into the cache when the handshake is complete.
readSessionTicket ==
  /\ Receives("sessionTicket", "NST")
  /\ c' = [Heard EXCEPT !.at = "changeCipherSpec",
             !.session = [vers |-> 12, suite |-> c.suite, secret |-> c.secret,
                          ticket |-> Rec.body.ticket, useBy |-> 0]]
  /\ UNCHANGED <<toS, cache>>

readChangeCipherSpec ==
  /\ c.vers = 12 /\ Receives("changeCipherSpec", "CCS")
  /\ c' = [c EXCEPT !.at = "finished", !.in = changeCipherSpec(@)]
  /\ UNCHANGED <<toS, cache>>

readFinished12 ==
  /\ Receives("finished", "FINs")
  /\ IF Rec.body.sum # finishedSum(<<c.secret, "s">>, c.tx) THEN ClientFail("handshake_failure")
     ELSE /\ c' = [Heard EXCEPT !.at = "data", !.complete = TRUE]
          /\ UNCHANGED toS
          /\ cache' = IF cc.cache /\ c.ticket THEN c.session ELSE cache

(***************************************************************************)
(* What the client refuses, and the end of the stream.                     *)
(***************************************************************************)
ignoreCCS ==
  /\ c.vers = 13 /\ (Waiting \/ c.at = "data")
  /\ Turn /\ toC # <<>> /\ Rec.typ = "ccs"
  /\ toC' = Tail(toC)
  /\ UNCHANGED <<c, toS, cache>>

\* A record that does not open, or a message that is not waited for.
clientRefuses ==
  /\ Turn /\ (Waiting \/ c.at = "data") /\ toC # <<>>
  /\ ~(c.vers = 13 /\ Rec.typ = "ccs")
  /\ \/ ~Opens(c.in, c.vers, Rec)
     \/ Rec.typ = "raw"
     \/ Waiting /\ Rec.typ \in {"hs", "ccs"} /\ Rec.body.m \notin Expects[c.at]
     \/ Waiting /\ Rec.typ = "data"
  /\ toC' = Tail(toC)
  /\ ClientFail("unexpected_message")

clientEOF ==
  /\ s.at = "closed" /\ toC = <<>> /\ (Waiting \/ c.at = "data")
  /\ c' = [c EXCEPT !.at = "closed"]
  /\ cache' = DropSession
  /\ UNCHANGED <<toS, toC>>

(***************************************************************************)
(* After the handshake.                                                    *)
(***************************************************************************)
Write ==
  /\ Turn /\ c.at = "data" /\ c.sent < MaxData
  /\ c' = [c EXCEPT !.sent = @ + 1, !.out = incSeq(@, 1)]
  /\ toS' = Append(toS, Seal(c.out, "data", c.sent + 1))
  /\ UNCHANGED <<toC, cache>>

\* This package answers a KeyUpdate and starts none; other clients do.
KeyUpdate ==
  /\ Turn /\ c.at = "data" /\ c.vers = 13 /\ c.updates < MaxUpdates
  /\ \E req \in BOOLEAN :
       toS' = Append(toS, Seal(c.out, "hs", [m |-> "KU", req |-> req]))
  /\ c' = [c EXCEPT !.updates = @ + 1,
                    !.out = setTrafficSecret(@, nextTrafficSecret(@.key))]
  /\ UNCHANGED <<toC, cache>>

Read ==
  /\ Turn /\ c.at = "data" /\ toC # <<>>
  /\ Rec.typ # "ccs" /\ Rec.typ # "raw" /\ Opens(c.in, c.vers, Rec)
  /\ toC' = Tail(toC)
  /\ IF Rec.typ = "data"
       THEN c' = [Opened EXCEPT !.received = Append(@, Rec.body)] /\ UNCHANGED <<toS, cache>>
     ELSE IF Rec.body.m = "KU"
       THEN /\ c' = [c EXCEPT !.in = setTrafficSecret(@, nextTrafficSecret(@.key))]
            /\ UNCHANGED <<toS, cache>>
     ELSE IF Rec.body.m = "NST"
       THEN /\ c' = Opened
            /\ cache' = [vers |-> 13, suite |-> c.suite, secret |-> c.res,
                         ticket |-> Rec.body.ticket, useBy |-> now + Lifetime]
            /\ UNCHANGED toS
       ELSE ClientFail("unexpected_message")

\* Close: close_notify, then the connection.
Close ==
  /\ Turn /\ c.at = "data"
  /\ c' = [c EXCEPT !.at = "closed"]
  /\ toS' = Append(toS, Seal(c.out, "alert", Msg("close_notify")))
  /\ UNCHANGED <<toC, cache>>

ClientNext ==
  /\ \/ clientHandshake \/ readServerHello \/ processHelloRetryRequest
     \/ readServerParameters \/ readServerCertificate \/ readServerFinished
     \/ readServerFlight \/ readServerHelloDone \/ readSessionTicket
     \/ readChangeCipherSpec \/ readFinished12 \/ ignoreCCS \/ clientRefuses
     \/ clientEOF \/ Write \/ KeyUpdate \/ Read \/ Close
  /\ UNCHANGED <<sc, cc, s, got, keys, now, conns>>
=============================================================================
