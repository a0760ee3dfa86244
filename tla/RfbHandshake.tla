---------------------------- MODULE RfbHandshake ----------------------------
(***************************************************************************)
(* The opening of a connection, both ends of it: RFB::ServerEncoder        *)
(* (src/librfb/server/librfb_server.cpp) in the connector's process and    *)
(* RFB::ClientDecoder (src/librfb/client/librfb_client.cpp).               *)
(*                                                                         *)
(* Each end is a sequence of blocking reads; a step is one read with all   *)
(* that is written before the next one.  What travels is a word: what it   *)
(* is, its value and whether TLS carries it.  Any configuration of either  *)
(* end may meet any of the other.                                          *)
(***************************************************************************)
EXTENDS Naturals, Sequences, FiniteSets

CONSTANTS
    HsPasswords,   \* passwords a client may use
    HsPassFile     \* the lines of the server's passwdFile

ASSUME HsAssumption == HsPassFile \subseteq HsPasswords

VARIABLES
    hsConf,    \* the SecurityInfo of both ends, the build option, the client's version
    hsSrv,     \* the server: its step, protover, the type it authenticates, TLS
    hsCli,     \* the client: its step, the type it chose, TLS, whether it is sure of it
    hsDown,    \* words on the way to the client
    hsUp,      \* words on the way to the server
    hsMisread  \* a word was read as something it is not
HsVars == <<hsConf, hsSrv, hsCli, hsDown, hsUp, hsMisread>>

HsTypes == {"gssapi", "vencrypt", "vnc", "none"}
HsOver  == {"done", "failed"}
HsWord(kind, val, tls) == [kind |-> kind, val |-> val, tls |-> tls]

HsConfigs ==
    [version : {"33", "37", "38", "other"}, gssapi : BOOLEAN, offers : SUBSET {"vencrypt", "vnc", "none"},
     keytab : BOOLEAN, noVnc : BOOLEAN, passwd : BOOLEAN, x509 : BOOLEAN, certs : BOOLEAN,
     wants : SUBSET HsTypes, ticket : BOOLEAN, password : HsPasswords \union {""}, anon : BOOLEAN]

(* The configurations that make a difference: an option is varied where    *)
(* the code can get to ask for it.                                         *)
HsInit ==
    /\ hsConf \in HsConfigs
    /\ hsConf.version # "38" => hsConf.wants = {"none"}
    /\ hsConf.ticket => "gssapi" \in hsConf.wants /\ hsConf.gssapi
    /\ hsConf.password # "" => "vnc" \in hsConf.wants \intersect hsConf.offers
    /\ hsConf.keytab => hsConf.ticket
    /\ hsConf.passwd => "vnc" \in hsConf.offers
    /\ hsConf.certs => hsConf.x509
    /\ hsConf.anon \/ hsConf.x509 => "vencrypt" \in hsConf.wants
    /\ hsSrv = [at |-> "version", type |-> "none", tls |-> FALSE]
    /\ hsCli = [at |-> "version", type |-> "none", tls |-> FALSE]
    /\ hsDown = <<HsWord("version", "38", FALSE)>> /\ hsUp = <<>> /\ hsMisread = FALSE
-----------------------------------------------------------------------------
(* The server reads a word of a kind, writes words and goes on; a word of  *)
(* another kind, or in the other layer, is taken for the one it expects.   *)
SrvSends(kinds) == hsDown' = hsDown \o [i \in 1 .. Len(kinds) |-> HsWord(kinds[i][1], kinds[i][2], hsSrv.tls)]
SrvReads(kind) ==
    /\ hsUp # <<>> /\ hsUp' = Tail(hsUp)
    /\ hsMisread' = (hsMisread \/ Head(hsUp).kind # kind \/ Head(hsUp).tls # hsSrv.tls)
SrvGot == Head(hsUp).val
SrvAt(at) == hsSrv' = [hsSrv EXCEPT !.at = at]
CliReads(kind) ==
    /\ hsDown # <<>> /\ hsDown' = Tail(hsDown)
    /\ hsMisread' = (hsMisread \/ Head(hsDown).kind # kind \/ Head(hsDown).tls # hsCli.tls)
CliSends(kind, val) == hsUp' = Append(hsUp, HsWord(kind, val, hsCli.tls))
CliGot == Head(hsDown).val
CliAt(at) == hsCli' = [hsCli EXCEPT !.at = at]

ResultErr == << <<"be32", "err">>, <<"be32", "empty">> >>
ResultText == << <<"be32", "err">>, <<"be32", "length">>, <<"string", "reason">> >>
ResultOk == << <<"be32", "ok">> >>

(* serverSecurityInit: the types of a 3.7 or 3.8 server.                   *)
ServerTypes ==
    (IF hsConf.noVnc THEN {} ELSE (hsConf.offers \ {"none"}) \union (IF hsConf.gssapi THEN {"gssapi"} ELSE {}))
        \union (hsConf.offers \intersect {"none"})

(* serverHandshakeVersion, and serverSecurityInit up to its first read.    *)
ServerHandshakeVersion ==
    /\ hsSrv.at = "version" /\ SrvReads("version")
    /\ CASE SrvGot \notin {"33", "37", "38"} -> SrvAt("failed") /\ UNCHANGED hsDown
         [] SrvGot = "33" -> SrvAt("init") /\ SrvSends(<< <<"be32", hsConf.offers \ {"vencrypt"}>> >>)
         [] OTHER ->
                IF ServerTypes = {} THEN SrvAt("failed") /\ SrvSends(<< <<"u8", 0>> >>)
                ELSE SrvAt("type") /\ SrvSends(<< <<"u8", Cardinality(ServerTypes)>>, <<"types", ServerTypes>> >>)
    /\ UNCHANGED <<hsConf, hsCli>>

(* serverSecurityInit: the client's choice.  A 3.7 client without          *)
(* authentication gets no result.  With Kerberos the server waits for the  *)
(* length of a token; without a keytab handshakeLayer nevertheless returns *)
(* true, and the context that was not made is used.                        *)
ServerSecurityInit ==
    /\ hsSrv.at = "type" /\ SrvReads("u8")
    /\ LET t == SrvGot
           go(at) == hsSrv' = [hsSrv EXCEPT !.at = at, !.type = t]
       IN CASE t = "none" /\ hsConf.version = "37" -> go("init") /\ UNCHANGED hsDown
            [] t = "none" /\ hsConf.version # "37" /\ t \in hsConf.offers -> go("init") /\ SrvSends(ResultOk)
            [] t = "vnc" /\ t \in hsConf.offers ->
                IF hsConf.passwd THEN go("response") /\ SrvSends(<< <<"bytes16", "challenge">> >>)
                ELSE go("failed") /\ SrvSends(ResultErr)
            [] t = "vencrypt" /\ t \in hsConf.offers ->
                go("vcversion") /\ SrvSends(<< <<"u8", 0>>, <<"u8", 2>> >>)
            [] t = "gssapi" /\ hsConf.gssapi ->
                go(IF hsConf.keytab THEN "token" ELSE "failed") /\ UNCHANGED hsDown
            [] OTHER -> go("failed") /\ SrvSends(ResultText)
    /\ UNCHANGED <<hsConf, hsCli>>

(* ServerEncoder::authVncInit: the answer is that of a line of the file,   *)
(* or the reason is sent and, after it, the caller's result.               *)
FaultServerAuthVncInit ==
    /\ hsSrv.at = "response" /\ SrvReads("bytes16")
    /\ IF SrvGot # "" THEN SrvAt("init") /\ SrvSends(ResultOk)
       ELSE SrvAt("failed") /\ SrvSends(ResultText \o ResultErr)
    /\ UNCHANGED <<hsConf, hsCli>>
ServerAuthVncInit ==
    /\ hsSrv.at = "response" /\ SrvReads("bytes16")
    /\ IF SrvGot \in HsPassFile THEN SrvAt("init") /\ SrvSends(ResultOk)
       ELSE SrvAt("failed") /\ SrvSends(ResultText \o ResultErr)
    /\ UNCHANGED <<hsConf, hsCli>>

(* ServerEncoder::authVenCryptInit, one definition for each of its reads:  *)
(* the version of two bytes, the mode, then the TLS session.               *)
VenCryptModes == IF hsConf.x509 THEN {"tls", "x509"} ELSE {"tls"}
VenCryptVersion ==
    /\ hsSrv.at \in {"vcversion", "vcminor"} /\ SrvReads("u8")
    /\ CASE hsSrv.at = "vcversion" -> SrvAt("vcminor") /\ UNCHANGED hsDown
         [] hsSrv.at = "vcminor" /\ SrvGot \in 1 .. 2 ->
                /\ SrvAt("mode")
                /\ SrvSends(<< <<"u8", 0>>, <<"u8", Cardinality(VenCryptModes)>>, <<"modes", VenCryptModes>> >>)
         [] OTHER -> SrvAt("failed") /\ SrvSends(<< <<"u8", 255>> >> \o ResultErr)
    /\ UNCHANGED <<hsConf, hsCli>>
FaultVenCryptMode ==
    /\ hsSrv.at = "mode" /\ SrvReads("be32")
    /\ IF SrvGot \notin VenCryptModes THEN SrvAt("failed") /\ SrvSends(ResultErr)
       ELSE IF SrvGot = "x509" /\ ~hsConf.certs THEN SrvAt("init") /\ SrvSends(<< <<"u8", 1>> >> \o ResultOk)
       ELSE SrvAt("tls") /\ SrvSends(<< <<"u8", 1>> >>)
    /\ UNCHANGED <<hsConf, hsCli>>
VenCryptMode ==
    /\ hsSrv.at = "mode" /\ SrvReads("be32")
    /\ IF SrvGot \notin VenCryptModes THEN SrvAt("failed") /\ SrvSends(ResultErr)
       ELSE IF SrvGot = "x509" /\ ~hsConf.certs THEN SrvAt("failed") /\ SrvSends(<< <<"u8", 0>> >> \o ResultErr)
       ELSE SrvAt("tls") /\ SrvSends(<< <<"u8", 1>> >>)
    /\ UNCHANGED <<hsConf, hsCli>>

(* The TLS handshake is external: it succeeds for both ends, or fails.     *)
(* The streams are switched by the ends that succeed.                      *)
TlsHandshake ==
    /\ hsSrv.at = "tls" /\ hsCli.at = "tls"
    /\ \/ /\ hsSrv' = [hsSrv EXCEPT !.at = "init", !.tls = TRUE]
          /\ hsCli' = [hsCli EXCEPT !.at = "result", !.tls = TRUE]
          /\ hsDown' = Append(hsDown, HsWord("be32", "ok", TRUE))
       \/ SrvAt("failed") /\ CliAt("failed") /\ SrvSends(ResultErr)
    /\ UNCHANGED <<hsConf, hsUp, hsMisread>>

(* serverClientInit: the shared flag, then the size, the pixel format and  *)
(* the desktop's name.                                                     *)
ServerClientInit ==
    /\ hsSrv.at = "init" /\ SrvReads("u8")
    /\ SrvAt("done") /\ SrvSends(<< <<"bytes20", "format">>, <<"be32", "length">>, <<"string", "name">> >>)
    /\ UNCHANGED <<hsConf, hsCli>>

(* A read of a stream the other end has closed.                            *)
SrvReadFails ==
    /\ hsSrv.at \notin HsOver /\ hsUp = <<>> /\ hsCli.at = "failed"
    /\ SrvAt("failed")
    /\ UNCHANGED <<hsConf, hsCli, hsUp, hsDown, hsMisread>>
-----------------------------------------------------------------------------
(* rfbHandshakeAwait: only the server's own version is accepted and sent   *)
(* back; a viewer of another version is external.                          *)
RfbHandshake ==
    /\ hsCli.at = "version" /\ CliReads("version")
    /\ IF CliGot # "38" THEN CliAt("failed") /\ UNCHANGED hsUp
       ELSE /\ CliAt(IF hsConf.version = "33" THEN "oldtype" ELSE "count")
            /\ CliSends("version", hsConf.version)
    /\ UNCHANGED <<hsConf, hsSrv>>
ViewerOldType ==
    /\ hsCli.at = "oldtype" /\ CliReads("be32")
    /\ CliAt("server") /\ CliSends("u8", "shared")
    /\ UNCHANGED <<hsConf, hsSrv>>

RfbTypesCount ==
    /\ hsCli.at = "count" /\ CliReads("u8")
    /\ CliAt(IF CliGot = 0 THEN "reason" ELSE "types")
    /\ UNCHANGED <<hsConf, hsSrv, hsUp>>

(* The first of these the client wants, the server offers and, for         *)
(* Kerberos, there is a ticket for.                                        *)
FaultClientChoice(offered) ==
    CASE hsConf.ticket /\ "gssapi" \in hsConf.wants \intersect offered -> "gssapi"
      [] "vnc" \in hsConf.wants /\ "vnc" \in offered -> "vnc"
      [] "vencrypt" \in hsConf.wants -> "vencrypt"
      [] "none" \in hsConf.wants \intersect offered -> "none"
      [] OTHER -> "nothing"
ClientChoice(offered) ==
    CASE hsConf.ticket /\ "gssapi" \in hsConf.wants \intersect offered -> "gssapi"
      [] ~hsConf.ticket /\ "vencrypt" \in hsConf.wants \intersect offered -> "vencrypt"
      [] ~hsConf.ticket /\ "vencrypt" \notin hsConf.wants \intersect offered
            /\ "vnc" \in hsConf.wants \intersect offered -> "vnc"
      [] ~hsConf.ticket /\ {"vencrypt", "vnc"} \intersect hsConf.wants \intersect offered = {}
            /\ "none" \in hsConf.wants \intersect offered -> "none"
      [] OTHER -> "nothing"
FaultRfbSecurity ==
    /\ hsCli.at = "types" /\ CliReads("types")
    /\ LET t == ClientChoice(CliGot) IN hsCli' = [hsCli EXCEPT !.at = "result", !.type = t] /\ CliSends("u8", t)
    /\ UNCHANGED <<hsConf, hsSrv>>
(* With Kerberos, authGssApiInitAwait: the first token of connectService   *)
(* begins with sendLength, which reads four bytes where it should write    *)
(* them, and there are none.                                               *)
RfbSecurity ==
    /\ hsCli.at = "types" /\ CliReads("types")
    /\ LET t == ClientChoice(CliGot)
           go(at) == hsCli' = [hsCli EXCEPT !.at = at, !.type = t] /\ CliSends("u8", t)
       IN CASE t = "nothing" \/ (t = "vnc" /\ hsConf.password = "") -> CliAt("failed") /\ UNCHANGED hsUp
            [] t = "gssapi" -> go("length")
            [] t = "vencrypt" -> go("vcversion")
            [] t = "vnc" /\ hsConf.password # "" -> go("challenge")
            [] t = "none" /\ hsConf.version = "38" -> go("result")
            [] OTHER -> /\ hsCli' = [hsCli EXCEPT !.at = "server", !.type = t]
                        /\ hsUp' = hsUp \o <<HsWord("u8", t, FALSE), HsWord("u8", "shared", FALSE)>>
    /\ UNCHANGED <<hsConf, hsSrv>>

(* authVncInitAwait: sixteen bytes; a server without a passwdFile sends    *)
(* eight, its result, and closes: the read ends with an exception.         *)
AuthVncInitAwait ==
    /\ hsCli.at = "challenge" /\ hsDown # <<>>
    /\ IF Head(hsDown).kind = "be32" /\ hsSrv.at = "failed"
       THEN CliAt("failed") /\ UNCHANGED <<hsUp, hsDown, hsMisread>>
       ELSE CliReads("bytes16") /\ CliAt("result") /\ CliSends("bytes16", hsConf.password)
    /\ UNCHANGED <<hsConf, hsSrv>>

(* authVenCryptInitAwait, one disjunct for each of its reads.              *)
AuthVenCryptInitAwait ==
    \/ /\ hsCli.at = "vcversion" /\ CliReads("u8") /\ CliAt("vcminor")
       /\ UNCHANGED <<hsConf, hsSrv, hsUp>>
    \/ /\ hsCli.at = "vcminor" /\ CliReads("u8") /\ CliAt("vcsupport")
       /\ hsUp' = hsUp \o <<HsWord("u8", 0, FALSE), HsWord("u8", 2, FALSE)>>
       /\ UNCHANGED <<hsConf, hsSrv>>
    \/ /\ hsCli.at = "vcsupport" /\ CliReads("u8") /\ CliAt(IF CliGot = 0 THEN "vccount" ELSE "failed")
       /\ UNCHANGED <<hsConf, hsSrv, hsUp>>
    \/ /\ hsCli.at = "vccount" /\ CliReads("u8") /\ CliAt(IF CliGot = 0 THEN "failed" ELSE "vcmodes")
       /\ UNCHANGED <<hsConf, hsSrv, hsUp>>
    \/ /\ hsCli.at = "vcmodes" /\ CliReads("modes")
       /\ LET mode == IF hsConf.anon THEN "tls" ELSE "x509"
          IN IF mode \in CliGot THEN CliAt("vcstatus") /\ CliSends("be32", mode)
             ELSE CliAt("failed") /\ UNCHANGED hsUp
       /\ UNCHANGED <<hsConf, hsSrv>>
    \/ /\ hsCli.at = "vcstatus" /\ CliReads("u8") /\ CliAt(IF CliGot = 0 THEN "failed" ELSE "tls")
       /\ UNCHANGED <<hsConf, hsSrv, hsUp>>

(* The result; a failure comes with a reason, of a length and a text.      *)
RfbResult ==
    /\ hsCli.at = "result" /\ CliReads("be32")
    /\ IF CliGot = "ok" THEN CliAt("server") /\ CliSends("u8", "shared")
       ELSE CliAt("reason") /\ UNCHANGED hsUp
    /\ UNCHANGED <<hsConf, hsSrv>>
RfbReason ==
    \/ /\ hsCli.at = "reason" /\ CliReads("be32") /\ CliAt(IF CliGot = "empty" THEN "failed" ELSE "text")
       /\ UNCHANGED <<hsConf, hsSrv, hsUp>>
    \/ /\ hsCli.at = "text" /\ CliReads("string") /\ CliAt("failed")
       /\ UNCHANGED <<hsConf, hsSrv, hsUp>>

(* ServerInit: twenty bytes at once, the name's length, the name.          *)
RfbServerInit ==
    \/ /\ hsCli.at = "server" /\ CliReads("bytes20") /\ CliAt("namelen")
       /\ UNCHANGED <<hsConf, hsSrv, hsUp>>
    \/ /\ hsCli.at = "namelen" /\ CliReads("be32") /\ CliAt("name")
       /\ UNCHANGED <<hsConf, hsSrv, hsUp>>
    \/ /\ hsCli.at = "name" /\ CliReads("string") /\ CliAt("done")
       /\ UNCHANGED <<hsConf, hsSrv, hsUp>>

(* The async reads throw when the server has closed the connection.        *)
CliReadFails ==
    /\ hsCli.at \notin HsOver /\ hsDown = <<>> /\ hsSrv.at = "failed"
    /\ CliAt("failed")
    /\ UNCHANGED <<hsConf, hsSrv, hsUp, hsDown, hsMisread>>

HsSrvNext ==
    \/ ServerHandshakeVersion \/ ServerSecurityInit \/ ServerAuthVncInit
    \/ VenCryptVersion \/ VenCryptMode \/ ServerClientInit \/ SrvReadFails
HsCliNext ==
    \/ RfbHandshake \/ ViewerOldType \/ RfbTypesCount \/ RfbSecurity \/ AuthVncInitAwait
    \/ AuthVenCryptInitAwait \/ RfbResult \/ RfbReason \/ RfbServerInit \/ CliReadFails
HsNext == HsSrvNext \/ HsCliNext \/ TlsHandshake
HsSpec == HsInit /\ [][HsNext]_HsVars /\ WF_HsVars(HsSrvNext) /\ WF_HsVars(HsCliNext) /\ WF_HsVars(TlsHandshake)
-----------------------------------------------------------------------------
(* The kinds of value each variable takes.                                 *)
HsTypeOK ==
    /\ hsConf \in HsConfigs /\ hsMisread \in BOOLEAN
    /\ hsSrv \in [at : HsOver \union {"version", "type", "response", "vcversion", "vcminor", "mode", "tls", "token", "init"},
                  type : HsTypes, tls : BOOLEAN]
    /\ hsCli.type \in HsTypes /\ hsCli.tls \in BOOLEAN
    /\ Len(hsUp) <= 3 /\ Len(hsDown) <= 6

(* Every word is read as what it was written as, and in the layer, plain   *)
(* or TLS, it was written in: the reads of rfbHandshakeAwait and its auth  *)
(* functions line up with the writes of serverSecurityInit and its own, on *)
(* every path of either.                                                  *)
HsFramed == ~hsMisread

(* Both ends come out of the handshake of LTSM's own client with the same  *)
(* type of security and the same idea of TLS, the type being one the       *)
(* client wanted and the server offered, with a password of the file.      *)
HsAgree ==
    (hsSrv.at = "done" /\ hsCli.at = "done" /\ hsConf.version = "38") =>
        /\ hsSrv.type = hsCli.type /\ hsSrv.tls = hsCli.tls
        /\ hsSrv.type \in ServerTypes \intersect hsConf.wants
        /\ hsSrv.tls = (hsSrv.type = "vencrypt")
        /\ hsSrv.type = "vnc" => hsConf.password \in HsPassFile

(* The ends never wait for each other: while neither is through, one has   *)
(* something to read or both are in the TLS handshake.  Not so with        *)
(* Kerberos.                                                               *)
HsNoMutualWait ==
    \/ hsSrv.at \in HsOver \/ hsCli.at \in HsOver \/ hsCli.type = "gssapi"
    \/ hsSrv.at # "tls" /\ hsUp # <<>>
    \/ hsCli.at # "tls" /\ hsDown # <<>>
    \/ hsSrv.at = "tls" /\ hsCli.at = "tls"

(* The handshake of every pair of ends: no word is misread, both come out  *)
(* of it with the same idea of it, and they never wait for each other.     *)
HsSound == HsTypeOK /\ HsFramed /\ HsAgree /\ HsNoMutualWait

(* With a ticket and a keytab both ends go on from Kerberos: the comments  *)
(* of authGssApiInitAwait and serverSecurityInit expect, after it, the     *)
(* client's security info.                                                 *)
(* The code does not keep it (README, section 5).                          *)
HsKerberosGoesOn == (hsSrv.at = "token") ~> (hsSrv.at \in HsOver)
=============================================================================
