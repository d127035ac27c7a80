----------------------------- MODULE TLSServer -----------------------------
(***************************************************************************)
(* The server side of a TLS connection as the event loop drives it         *)
(* (oknet.TLSConn.ReadToInboundBuffer, tls.Conn.Read, handshake_server.go  *)
(* and handshake_server_tls13.go).                                         *)
(*                                                                         *)
(* Every read event puts what has arrived into the buffers and calls Read, *)
(* which calls the handshake from its first function until a record is     *)
(* missing (ErrDataNotEnough) or the handshake is complete.  Each function *)
(* looks at handshakeStatus and returns at once when it has been done, so  *)
(* that the next call comes to where the last one stopped; local variables *)
(* (msg, pub) are new in every call.                                       *)
(*                                                                         *)
(* s.at is the function that comes next in the call, "idle" between calls. *)
(* What a call writes stays in the outbound buffer until the call ends; a  *)
(* call that fails closes the connection and releases that buffer.         *)
(*                                                                         *)
(* A record holds one handshake message here, and handOffset is left out.  *)
(* The code never sets it back to 0 (conn.go:1220-1224): after two         *)
(* messages in one record it points past what the next record brings, so   *)
(* that a TLS 1.2 flight stands still, and in TLS 1.3 the first            *)
(* application data ends the connection, since Read takes the buffer for   *)
(* unread handshake data (conn.go:1495).                                   *)
(***************************************************************************)
EXTENDS TLSRecord

NoMsg == [m |-> "none"]

\* A Conn made by tls.Server, and the handshake states it makes.
NewServer ==
  [at |-> "idle", status |-> 0, vers |-> 0, in |-> Half, out |-> Half,
   hand |-> <<>>, inErr |-> FALSE, alert |-> "none", ks |-> <<>>,
   ch |-> NoMsg, msg |-> NoMsg, pub |-> FALSE, suite |-> "none",
   ticketOk |-> FALSE, resumed |-> FALSE, at0 |-> 0, group |-> "none",
   shared |-> NoShare, early |-> NoShare, secret |-> <<>>, tx |-> <<>>,
   certs |-> 0, certMsg |-> FALSE, verified |-> 0, dummyCCS |-> FALSE,
   fin |-> <<>>, app |-> <<>>, complete |-> FALSE, inbound |-> <<>>,
   delivered |-> <<>>, replies |-> 0, wrote |-> 0]

(***************************************************************************)
(* The functions of the two handshakes in their order, and the constants   *)
(* handshakeStatus is compared with.                                       *)
(***************************************************************************)
Handshake13 ==
  << "readClientHello", "processClientHello13", "checkForResumption13",
     "pickCertificate", "sendServerParameters", "sendServerCertificate",
     "sendServerFinished", "readClientCertificate", "readClientFinished",
     "complete" >>

FullHandshake ==
  << "readClientHello", "processClientHello", "checkForResumption",
     "pickCipherSuite", "doFullHandshake", "readHandshake1" >>
  \o (IF sc.auth = "none" THEN <<>> ELSE << "handleCertificateMsg", "readHandshake2" >>)
  \o << "handleVerifyConnection", "readHandshake3", "establishKeys",
        "readChangeCipherSpec", "readFinished", "sendSessionTicket",
        "sendFinished", "complete" >>

ResumeHandshake ==
  << "readClientHello", "processClientHello", "checkForResumption",
     "doResumeHandshake", "establishKeys", "sendSessionTicket", "sendFinished",
     "readChangeCipherSpec", "readFinished", "complete" >>

Steps(st) == IF st.vers = 13 THEN Handshake13
             ELSE IF st.resumed THEN ResumeHandshake ELSE FullHandshake

Level(st) ==
  LET full == [ readClientHello |-> 1, processClientHello13 |-> 2,
                checkForResumption13 |-> 3, pickCertificate |-> 4,
                sendServerParameters |-> 5, sendServerCertificate |-> 6,
                sendServerFinished |-> 7, readClientCertificate |-> 8,
                readClientFinished |-> 9, processClientHello |-> 11,
                checkForResumption |-> 12, doResumeHandshake |-> 13,
                pickCipherSuite |-> 17, doFullHandshake |-> 18,
                readHandshake1 |-> 19, handleCertificateMsg |-> 20,
                readHandshake2 |-> 21, handleVerifyConnection |-> 22,
                readHandshake3 |-> 23, establishKeys |-> 24,
                readChangeCipherSpec |-> 25, readFinished |-> 26,
                sendSessionTicket |-> IF st.resumed THEN 15 ELSE 27,
                sendFinished |-> IF st.resumed THEN 16 ELSE 28,
                complete |-> 29 ]
  IN full[st.at]

\* The call comes to the function after the current one.
Following(st) ==
  LET q == Steps(st)
      i == CHOOSE j \in DOMAIN q : q[j] = st.at
  IN [st EXCEPT !.at = q[i + 1]]

\* The current function is done.
Proceed(st) == [Following(st) EXCEPT !.status = Level(st)]

Calls(f) == s.at = f /\ s.status < Level(s)

\* A function that has been done returns at once.
Skip ==
  /\ s.at \notin {"idle", "data", "post", "closed"}
  /\ \/ s.status >= Level(s)
     \/ s.at = "sendSessionTicket" /\ ~s.ticketOk
  /\ s' = Following(s)
  /\ UNCHANGED <<toS, got, toC, keys>>

(***************************************************************************)
(* How a call ends.                                                        *)
(***************************************************************************)

\* An error other than ErrDataNotEnough: the reactor closes the connection;
\* the alert and what the call has written are released with the buffer.
Fail(alert) ==
  /\ s' = [s EXCEPT !.at = "closed", !.alert = alert]
  /\ toC' = SubSeq(toC, 1, Len(toC) - s.wrote)

\* Faulty variant: what was handed over stays in the buffer.
ReturnKeeps(st) == [st EXCEPT !.at = "idle", !.delivered = @ \o st.inbound]

\* A short read ends the call and OnData takes what was decrypted.
Return(st) == [st EXCEPT !.at = "idle", !.delivered = @ \o st.inbound, !.inbound = <<>>]

(***************************************************************************)
(* The record layer.                                                       *)
(***************************************************************************)

\* The event loop: at least one byte arrived; n == 0 is the end of the
\* stream.  got counts half records: the header of a record, its body.
ReadToInboundBuffer ==
  /\ s.at = "idle" /\ got < 2 * Len(toS)
  /\ got' \in got + 1 .. 2 * Len(toS)
  /\ s' = [s EXCEPT !.at = IF s.complete THEN "data" ELSE "readClientHello",
                    !.msg = NoMsg, !.pub = FALSE, !.wrote = 0]
  /\ UNCHANGED <<toS, toC, keys>>

EndOfStream ==
  /\ s.at = "idle" /\ c.at = "closed" /\ got = 2 * Len(toS)
  /\ s' = [s EXCEPT !.at = "closed"]
  /\ UNCHANGED <<toS, got, toC, keys>>

\* Whether a chain of n certificates is accepted; those the clients of this
\* model send verify.
processCertsFromClient(n) == requiresClientCert => n > 0

requestClientCert(st) == sc.auth # "none" /\ ~st.resumed

\* The current function calls readHandshake and no message is buffered.
WantsMessage ==
  /\ s.hand = <<>>
  /\ \/ s.at \in {"readClientHello", "readHandshake1", "readHandshake2",
                  "readFinished", "readClientFinished"}
     \/ s.at = "readHandshake3" /\ s.certs > 0
     \/ /\ s.at = "readClientCertificate" /\ requestClientCert(s)
        /\ ~s.certMsg \/ s.verified < s.certs
  /\ s.status < Level(s)

WantsRecord ==
  \/ s.at = "data"
  \/ Calls("readChangeCipherSpec")
  \/ WantsMessage

\* Faulty variant: the error of a cut record stays during the handshake too.
DataNotEnoughSticky ==
  /\ WantsRecord
  /\ got < 2 \/ s.inErr
  /\ s' = Return([s EXCEPT
            !.inErr = s.inErr \/ got = 1,
            !.status = IF s.at = "readClientCertificate" /\ s.certMsg THEN 8 ELSE @])
  /\ UNCHANGED <<toS, got, toC, keys>>

\* Faulty variant: past the ClientHello, a function that lacks a record counts as done.
DataNotEnoughDone ==
  /\ WantsRecord
  /\ got < 2 \/ s.inErr
  /\ s' = Return([s EXCEPT
            !.inErr = s.at = "data" /\ (s.inErr \/ got = 1),
            !.status = IF s.at \in {"data", "readClientHello"} THEN @ ELSE Level(s)])
  /\ UNCHANGED <<toS, got, toC, keys>>

\* readFromUntil finds too little.  handshakeContext clears the error a cut
\* record leaves in c.in; Read does not.  readClientCertificate takes the
\* lack of a CertificateVerify for an error: it compares with ring.ErrIsEmpty.
DataNotEnough ==
  /\ WantsRecord
  /\ got < 2 \/ s.inErr
  /\ s' = Return([s EXCEPT
            !.inErr = s.at = "data" /\ (s.inErr \/ got = 1),
            !.status = IF s.at = "readClientCertificate" /\ s.certMsg THEN 8 ELSE @])
  /\ UNCHANGED <<toS, got, toC, keys>>

\* A record is there: readRecordOrCCS, and Read for application data.  For a
\* TLS 1.2 record that an alert follows in rawInput, Read reads the alert
\* before it returns the data: the data is lost if the alert is cut, and with
\* the connection if it is whole.
readRecordOrCCS ==
  LET rec == Head(toS)
      st  == [s EXCEPT !.in = incSeq(@, 1)]
      alertFollows == got > 2 /\ s.vers = 12 /\ toS[2].typ = "alert"
  IN /\ WantsRecord /\ got >= 2 /\ ~s.inErr
     /\ toS' = Tail(toS) /\ got' = got - 2
     /\ CASE ~Opens(s.in, s.vers, rec) -> Fail("bad_record_mac")
          [] rec.typ = "alert" -> Fail("none")
          [] rec.typ = "ccs" /\ s.vers = 13 -> UNCHANGED <<s, toC>>
          [] rec.typ = "ccs" /\ s.vers # 13 ->
               IF s.at = "readChangeCipherSpec"
                 THEN s' = Proceed([s EXCEPT !.in = changeCipherSpec(@)]) /\ UNCHANGED toC
                 ELSE Fail("unexpected_message")
          [] rec.typ = "data" ->
               IF s.at # "data" THEN Fail("unexpected_message")
               ELSE IF alertFollows /\ got = 3
                 THEN s' = [Return(st) EXCEPT !.inErr = TRUE] /\ UNCHANGED toC
               ELSE IF alertFollows THEN Fail("none")
                 ELSE s' = [st EXCEPT !.inbound = Append(@, rec.body)] /\ UNCHANGED toC
          [] rec.typ = "hs" ->
               IF s.at = "readChangeCipherSpec" THEN Fail("unexpected_message")
               ELSE /\ s' = [st EXCEPT !.hand = <<rec.body>>,
                                       !.at = IF @ = "data" THEN "post" ELSE @]
                    /\ UNCHANGED toC
     /\ UNCHANGED keys

\* The message readHandshake returns, and the state without it.
Message == Head(s.hand)
Taken == [s EXCEPT !.hand = <<>>]

\* A function that reads a message has one.
Reads(f) == Calls(f) /\ s.hand # <<>>

\* Faulty variant: the server goes on writing with the old key.
answerKeyUpdateOld(out) == incSeq(out, 1)

\* handleKeyUpdate, when an answer was asked for: the next secret is in use
\* after the record that announces it.
answerKeyUpdate(out) == setTrafficSecret(out, nextTrafficSecret(out.key))

\* handlePostHandshakeMessage and handleKeyUpdate; clients send KeyUpdates.
handlePostHandshakeMessage ==
  /\ s.at = "post"
  /\ IF s.vers = 13 /\ Message.m = "KU"
       THEN LET in == setTrafficSecret(s.in, nextTrafficSecret(s.in.key))
            IN IF Message.req
                 THEN /\ toC' = Append(toC, Seal(s.out, "hs", [m |-> "KU", req |-> FALSE]))
                      /\ s' = [Taken EXCEPT !.at = "data", !.in = in,
                                 !.out = answerKeyUpdate(@), !.wrote = @ + 1]
                 ELSE s' = [Taken EXCEPT !.at = "data", !.in = in] /\ UNCHANGED toC
       ELSE Fail("unexpected_message")
  /\ UNCHANGED <<toS, got, keys>>

\* The records msgs are written and hashed into the transcript.
Writes(st, msgs) ==
  [st EXCEPT !.out = incSeq(@, Len(msgs)), !.wrote = @ + Len(msgs),
             !.tx = Hash(@, msgs)]

(***************************************************************************)
(* readClientHello, for both versions.                                     *)
(***************************************************************************)
readClientHello ==
  /\ Reads("readClientHello")
  /\ keys' = ticketKeys
  /\ LET vers == mutualVersion(sc.vers, Message.vers)
     IN IF vers = 0 THEN Fail("protocol_version")
        ELSE /\ s' = Proceed([Taken EXCEPT !.vers = vers, !.ch = Message, !.ks = ticketKeys])
             /\ UNCHANGED toC
  /\ UNCHANGED <<toS, got>>

(***************************************************************************)
(* TLS 1.3.                                                                *)
(***************************************************************************)

\* The server's preference among the client's groups: one it has sent a share
\* for, or the first it supports.
SelectedGroup(hello) ==
  IF Contains(sc.groups, hello.share) THEN hello.share
  ELSE LET both == SelectSeq(sc.groups, LAMBDA g : Contains(hello.groups, g))
       IN IF both = <<>> THEN "none" ELSE Head(both)

\* doHelloRetryRequest reads the answer to its own request, which cannot have
\* arrived: it always returns ErrDataNotEnough.
processClientHello13 ==
  /\ Calls("processClientHello13")
  /\ LET group == SelectedGroup(s.ch)
         hrr   == [m |-> "HRR", vers |-> 13, suite |-> "tls13", group |-> group]
     IN IF group = "none" THEN Fail("handshake_failure")
        ELSE IF group = s.ch.share
          THEN /\ s' = Proceed([s EXCEPT !.suite = "tls13", !.group = group,
                                         !.shared = ECDH(group)])
               /\ UNCHANGED toC
          ELSE /\ toC' = toC \o << Seal(s.out, "hs", hrr), Seal(s.out, "ccs", Msg("CCS")) >>
               /\ s' = Return([s EXCEPT !.suite = "tls13", !.dummyCCS = TRUE,
                                        !.tx = <<"hash", "HRR">>, !.status = Level(s)])
  /\ UNCHANGED <<toS, got, keys>>

binderSum(secret, tx) == finishedSum(deriveSecret(<<"psk", secret>>, "binder", <<>>), tx)

checkForResumption13 ==
  /\ Calls("checkForResumption13")
  /\ LET t == s.ch.psk
     IN IF ~(sc.tickets /\ s.ch.pskMode /\ decryptTicket(s.ks, t) /\ TicketUsable(t))
          THEN s' = Proceed(s) /\ UNCHANGED toC
        ELSE IF s.ch.binder # binderSum(t.secret, Append(s.tx, "CH"))
          THEN Fail("decrypt_error")
          ELSE /\ s' = Proceed([s EXCEPT !.resumed = TRUE, !.early = <<"psk", t.secret>>,
                                         !.certs = t.certs])
               /\ UNCHANGED toC
  /\ UNCHANGED <<toS, got, keys>>

\* The certificate signs with an algorithm every client of the model offers.
pickCertificate ==
  /\ Calls("pickCertificate")
  /\ s' = Proceed(s)
  /\ UNCHANGED <<toS, got, toC, keys>>

\* ServerHello in the clear, then the handshake keys and EncryptedExtensions.
sendServerParameters ==
  /\ Calls("sendServerParameters")
  /\ LET sh  == [m |-> "SH", vers |-> 13, suite |-> s.suite, group |-> s.group,
                 echo |-> TRUE, tickets |-> FALSE, psk |-> s.resumed, canary |-> FALSE]
         tx  == Hash(s.tx, <<s.ch, sh>>)
         hs  == <<"handshake", s.shared, s.early>>
         out == setTrafficSecret(s.out, deriveSecret(hs, "s hs", tx))
         ccs == IF s.dummyCCS THEN <<>> ELSE << Seal(s.out, "ccs", Msg("CCS")) >>
     IN /\ toC' = toC \o <<Seal(s.out, "hs", sh)>> \o ccs \o <<Seal(out, "hs", Msg("EE"))>>
        /\ s' = Proceed([s EXCEPT !.secret = hs, !.tx = Append(tx, "EE"),
                  !.in = setTrafficSecret(@, deriveSecret(hs, "c hs", tx)),
                  !.out = incSeq(out, 1), !.dummyCCS = TRUE,
                  !.wrote = @ + 2 + Len(ccs)])
  /\ UNCHANGED <<toS, got, keys>>

sendServerCertificate ==
  /\ Calls("sendServerCertificate")
  /\ LET asked == (IF requestClientCert(s) THEN <<Msg("CR")>> ELSE <<>>) \o <<Msg("CERT")>>
         cv    == [m |-> "CV", sig |-> <<"s", Hash(s.tx, asked)>>]
         msgs  == IF s.resumed THEN <<>> ELSE Append(asked, cv)
     IN /\ toC' = toC \o Records(s.out, msgs)
        /\ s' = Proceed(Writes(s, msgs))
  /\ UNCHANGED <<toS, got, keys>>

\* sendSessionTickets: what the client's Finished will be, the transcript with
\* it, and a ticket for the resumption secret if the client can use one.
Tickets(st) ==
  LET tx == Append(st.tx, "FINc")
      t  == encryptTicket(st.ks, sessionState(13, st.suite,
              deriveSecret(<<"master", st.secret>>, "res", tx), now, st.certs))
  IN IF sc.tickets /\ st.ch.pskMode THEN << [m |-> "NST", ticket |-> t] >> ELSE <<>>

sendSessionTickets(st) ==
  [st EXCEPT !.fin = finishedSum(st.in.key, st.tx),
             !.tx = Append(@, "FINc"),
             !.out = incSeq(@, Len(Tickets(st))),
             !.wrote = @ + Len(Tickets(st))]

sendServerFinished ==
  /\ Calls("sendServerFinished")
  /\ LET fin == [m |-> "FINs", sum |-> finishedSum(s.out.key, s.tx)]
         tx  == Hash(s.tx, <<fin>>)
         st  == [s EXCEPT !.tx = tx, !.wrote = @ + 1,
                   !.app = deriveSecret(<<"master", s.secret>>, "c ap", tx),
                   !.out = setTrafficSecret(@, deriveSecret(<<"master", s.secret>>, "s ap", tx))]
         wait == requestClientCert(s)
     IN /\ s' = Proceed(IF wait THEN st ELSE sendSessionTickets(st))
        /\ toC' = toC \o Records(s.out, <<fin>>)
                      \o Records(st.out, IF wait THEN <<>> ELSE Tickets(st))
  /\ UNCHANGED <<toS, got, keys>>

\* readClientCertificate.  One CertificateVerify is read for every
\* certificate of the chain; the tickets wait for the last.
skipClientCertificate ==
  /\ Calls("readClientCertificate") /\ ~requestClientCert(s)
  /\ s' = Proceed(s)
  /\ UNCHANGED <<toS, got, toC, keys>>

readCertificateMsg ==
  /\ Reads("readClientCertificate") /\ ~s.certMsg
  /\ IF Message.m # "CERTc" THEN Fail("unexpected_message")
     ELSE IF ~processCertsFromClient(Message.certs) THEN Fail("bad_certificate")
     ELSE /\ s' = [Taken EXCEPT !.certMsg = TRUE, !.certs = Message.certs,
                                !.tx = Hash(@, <<Message>>)]
          /\ UNCHANGED toC
  /\ UNCHANGED <<toS, got, keys>>

readCertificateVerify ==
  /\ Reads("readClientCertificate") /\ s.certMsg
  /\ IF Message.m # "CVc" THEN Fail("unexpected_message")
     ELSE IF Message.sig # <<"c", s.tx>> THEN Fail("decrypt_error")
     ELSE /\ s' = [Taken EXCEPT !.verified = @ + 1, !.tx = Hash(@, <<Message>>)]
          /\ UNCHANGED toC
  /\ UNCHANGED <<toS, got, keys>>

clientCertificateRead ==
  /\ Calls("readClientCertificate") /\ s.hand = <<>> /\ s.certMsg /\ s.verified = s.certs
  /\ s' = Proceed(sendSessionTickets(s))
  /\ toC' = toC \o Records(s.out, Tickets(s))
  /\ UNCHANGED <<toS, got, keys>>

\* The code compares with hs.clientFinished, which is still nil when the call
\* that met DataNotEnough after the Certificate has set the status: the honest
\* clients of this model then fail here on their own CertificateVerify, and
\* none of them sends a Finished without one.
readClientFinished ==
  /\ Reads("readClientFinished")
  /\ IF Message.m # "FINc" THEN Fail("unexpected_message")
     ELSE IF Message.sum # s.fin THEN Fail("decrypt_error")
     ELSE /\ s' = Proceed([Taken EXCEPT !.in = setTrafficSecret(@, s.app)])
          /\ UNCHANGED toC
  /\ UNCHANGED <<toS, got, keys>>

(***************************************************************************)
(* TLS 1.2.                                                                *)
(***************************************************************************)
processClientHello ==
  /\ Calls("processClientHello")
  /\ s' = Proceed(s)
  /\ UNCHANGED <<toS, got, toC, keys>>

\* Never resume a session of another version, or one whose suite is not both
\* offered and supported.
checkForResumption ==
  /\ Calls("checkForResumption")
  /\ LET t  == s.ch.ticket
         ok == /\ sc.tickets /\ decryptTicket(s.ks, t) /\ TicketUsable(t)
               /\ t.vers = s.vers /\ t.suite \in s.ch.suites
               /\ Contains(sc.suites, t.suite) /\ cipherSuiteOk(t.suite, s.ch)
     IN s' = IF ok THEN Proceed([s EXCEPT !.resumed = TRUE, !.suite = t.suite,
                                  !.secret = t.secret, !.at0 = t.at,
                                  !.ticketOk = t.key # Head(s.ks),
                                  !.certs = t.certs])
             ELSE Proceed(s)
  /\ UNCHANGED <<toS, got, toC, keys>>

\* The downgrade canary tells a client that this server could do better.
Hello12(st, echo) ==
  [m |-> "SH", vers |-> st.vers, suite |-> st.suite, group |-> "none",
   echo |-> echo, tickets |-> st.ticketOk, psk |-> FALSE,
   canary |-> st.vers < maxSupportedVersion(sc.vers)]

doResumeHandshake ==
  /\ Calls("doResumeHandshake")
  /\ s' = Proceed(Writes([s EXCEPT !.tx = <<"CH">>], <<Hello12(s, TRUE)>>))
  /\ toC' = toC \o Records(s.out, <<Hello12(s, TRUE)>>)
  /\ UNCHANGED <<toS, got, keys>>

pickCipherSuite ==
  /\ Calls("pickCipherSuite")
  /\ LET suite == selectCipherSuite(sc.suites, s.ch)
     IN IF suite = "none" THEN Fail("handshake_failure")
        ELSE s' = Proceed([s EXCEPT !.suite = suite]) /\ UNCHANGED toC
  /\ UNCHANGED <<toS, got, keys>>

\* ServerHello to ServerHelloDone.  ecdheKeyAgreement takes the first of the
\* client's curves that the server supports; RSA sends no ServerKeyExchange.
doFullHandshake ==
  /\ Calls("doFullHandshake")
  /\ LET group == IF s.suite = "rsa" THEN "none"
                  ELSE Head(SelectSeq(s.ch.groups, LAMBDA g : Contains(sc.groups, g)))
         st    == [s EXCEPT !.ticketOk = s.ch.tickets /\ sc.tickets, !.at0 = now,
                            !.tx = <<"CH">>, !.group = group]
         skx   == [m |-> "SKX", group |-> group]
         msgs  == << Hello12(st, FALSE), Msg("CERT") >>
                  \o (IF s.suite = "ecdhe" THEN <<skx>> ELSE <<>>)
                  \o (IF sc.auth = "none" THEN <<>> ELSE <<Msg("CR")>>)
                  \o << Msg("SHD") >>
     IN /\ s' = Proceed(Writes(st, msgs))
        /\ toC' = toC \o Records(s.out, msgs)
  /\ UNCHANGED <<toS, got, keys>>

\* The reads of doFullHandshake that keep the message in the local msg.
readHandshake12 ==
  /\ Reads("readHandshake1") \/ Reads("readHandshake2")
  /\ s' = Proceed([Taken EXCEPT !.msg = Message, !.tx = Hash(@, <<Message>>)])
  /\ UNCHANGED <<toS, got, toC, keys>>

handleCertificateMsg ==
  /\ Calls("handleCertificateMsg")
  /\ IF s.msg.m # "CERTc" THEN Fail("unexpected_message")
     ELSE IF ~processCertsFromClient(s.msg.certs) THEN Fail("bad_certificate")
     ELSE /\ s' = Proceed([s EXCEPT !.certs = s.msg.certs, !.pub = s.msg.certs > 0])
          /\ UNCHANGED toC
  /\ UNCHANGED <<toS, got, keys>>

handleVerifyConnection ==
  /\ Calls("handleVerifyConnection")
  /\ IF s.msg.m # "CKX" THEN Fail("unexpected_message")
     ELSE /\ s' = Proceed([s EXCEPT !.secret = masterFromPreMasterSecret(
                    IF s.suite = "rsa" THEN s.msg.pre ELSE ECDH(s.group))])
          /\ UNCHANGED toC
  /\ UNCHANGED <<toS, got, keys>>

\* CertificateVerify, if the client has certificates; it is checked with pub,
\* a local of the call that handled the Certificate.
readHandshake3 ==
  /\ Calls("readHandshake3")
  /\ s.certs > 0 => s.hand # <<>>
  /\ IF s.certs = 0 THEN s' = Proceed(s) /\ UNCHANGED toC
     ELSE IF Message.m # "CVc" THEN Fail("unexpected_message")
     ELSE IF ~s.pub \/ Message.sig # <<"c", s.tx>> THEN Fail("decrypt_error")
     ELSE s' = Proceed([Taken EXCEPT !.tx = Hash(@, <<Message>>)]) /\ UNCHANGED toC
  /\ UNCHANGED <<toS, got, keys>>

establishKeys ==
  /\ Calls("establishKeys")
  /\ s' = Proceed([s EXCEPT
            !.in = prepareCipherSpec(@, keysFromMasterSecret(s.secret, "c")),
            !.out = prepareCipherSpec(@, keysFromMasterSecret(s.secret, "s"))])
  /\ UNCHANGED <<toS, got, toC, keys>>

readFinished ==
  /\ Reads("readFinished")
  /\ IF Message.m # "FINc" THEN Fail("unexpected_message")
     ELSE IF Message.sum # finishedSum(<<s.secret, "c">>, s.tx) THEN Fail("handshake_failure")
     ELSE s' = Proceed([Taken EXCEPT !.tx = Hash(@, <<Message>>)]) /\ UNCHANGED toC
  /\ UNCHANGED <<toS, got, keys>>

\* sendSessionTicket and sendSessionTicket2; a re-wrapped ticket keeps the
\* time at which its session was made.
sendSessionTicket ==
  /\ Calls("sendSessionTicket") /\ s.ticketOk
  /\ LET t == encryptTicket(s.ks, sessionState(s.vers, s.suite, s.secret, s.at0, s.certs))
         m == << [m |-> "NST", ticket |-> t] >>
     IN s' = Proceed(Writes(s, m)) /\ toC' = toC \o Records(s.out, m)
  /\ UNCHANGED <<toS, got, keys>>

\* sendFinished and sendFinished2: ChangeCipherSpec, then Finished under the
\* new key.
sendFinished ==
  /\ Calls("sendFinished")
  /\ LET fin == [m |-> "FINs", sum |-> finishedSum(<<s.secret, "s">>, s.tx)]
         st  == [s EXCEPT !.out = changeCipherSpec(@), !.wrote = @ + 1]
     IN /\ toC' = toC \o << Seal(s.out, "ccs", Msg("CCS")) >> \o Records(st.out, <<fin>>)
        /\ s' = Proceed(Writes(st, <<fin>>))
  /\ UNCHANGED <<toS, got, keys>>

\* isHandshakeComplete; Read goes on to application data.
complete ==
  /\ s.at = "complete"
  /\ s' = [s EXCEPT !.complete = TRUE, !.at = "data", !.status = IF s.vers = 13 THEN 10 ELSE @]
  /\ UNCHANGED <<toS, got, toC, keys>>

(***************************************************************************)
(* Replies of the application to what was delivered.  A WSSConn writes     *)
(* through tls.Conn; dataOut gives a plain TLSConn's frames to             *)
(* WriteToOutboundBuffer, which does not encrypt them.                     *)
(***************************************************************************)
dataOut ==
  /\ s.at = "idle" /\ s.replies < Len(s.delivered)
  /\ IF cc.wss
       THEN /\ toC' = Append(toC, Seal(s.out, "data", s.replies + 1))
            /\ s' = [s EXCEPT !.replies = @ + 1, !.out = incSeq(@, 1)]
       ELSE /\ toC' = Append(toC, Seal(Half, "raw", s.replies + 1))
            /\ s' = [s EXCEPT !.replies = @ + 1]
  /\ UNCHANGED <<toS, got, keys>>

ServerNext ==
  /\ \/ Skip \/ ReadToInboundBuffer \/ EndOfStream \/ DataNotEnough
     \/ readRecordOrCCS \/ handlePostHandshakeMessage \/ readClientHello
     \/ processClientHello13 \/ checkForResumption13 \/ pickCertificate
     \/ sendServerParameters \/ sendServerCertificate \/ sendServerFinished
     \/ skipClientCertificate \/ readCertificateMsg \/ readCertificateVerify
     \/ clientCertificateRead \/ readClientFinished
     \/ processClientHello \/ checkForResumption \/ doResumeHandshake
     \/ pickCipherSuite \/ doFullHandshake \/ readHandshake12
     \/ handleCertificateMsg \/ handleVerifyConnection \/ readHandshake3
     \/ establishKeys \/ readFinished \/ sendSessionTicket \/ sendFinished
     \/ complete \/ dataOut
  /\ UNCHANGED <<sc, cc, c, cache, now, conns>>
=============================================================================
