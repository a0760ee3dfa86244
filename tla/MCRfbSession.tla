---------------------------- MODULE MCRfbSession ----------------------------
(***************************************************************************)
(* One RFB connection, by subject: the security handshake (RfbHandshake),  *)
(* the screen and its size (RfbScreen), the pointer, keys and cursors      *)
(* (ClientInput) and the clipboard (Clipboard).  The subjects use          *)
(* different messages and different state, so a behaviour follows one of   *)
(* them while the others stand at their beginning.                         *)
(***************************************************************************)
EXTENDS RfbHandshake, RfbScreen, ClientInput, Clipboard, TLC

VARIABLE subject

(* Key codes of the X server with their symbols by group: 8 has none, 9 is *)
(* Return, 10 a letter and 11 a sign.                                      *)
McKeymap ==
    [k \in 8..11 |-> CASE k = 8 -> (0 :> <<0, 0>> @@ 1 :> <<0, 0>>)
                       [] k = 9 -> (0 :> <<100, 0>> @@ 1 :> <<100, 0>>)
                       [] k = 10 -> (0 :> <<1, 2>> @@ 1 :> <<3, 4>>)
                       [] k = 11 -> (0 :> <<5, 6>> @@ 1 :> <<7, 8>>)]
Key(keycode, table) == [keycode |-> keycode, table |-> table]
McKeys == "return" :> Key(9, 100) @@ "letter" :> Key(10, 0)
          @@ "sign" :> Key(11, 5) @@ "app" :> Key(8, 200)
-----------------------------------------------------------------------------
(* One beginning of each subject, for the behaviours about another one.    *)
McPlain == [version |-> "38", gssapi |-> FALSE, offers |-> {"none"}, keytab |-> FALSE, noVnc |-> FALSE,
            passwd |-> FALSE, x509 |-> FALSE, certs |-> FALSE, wants |-> {"none"}, ticket |-> FALSE,
            password |-> "", anon |-> FALSE]
HandshakeStands == hsConf = McPlain /\ HsInit
ScreenStands == RsInit /\ rsX.size = RsPrimary
InputStands == inLtsm = TRUE /\ InInit
ClipboardStands == cbPeer = "ltsm" /\ CbInit /\ ~cbE["srv"].caps

McInit ==
    \/ subject = "handshake" /\ HsInit /\ ScreenStands /\ InputStands /\ ClipboardStands
    \/ subject = "screen" /\ RsInit /\ HandshakeStands /\ InputStands /\ ClipboardStands
    \/ subject = "input" /\ InInit /\ HandshakeStands /\ ScreenStands /\ ClipboardStands
    \/ subject = "clipboard" /\ CbInit /\ HandshakeStands /\ ScreenStands /\ InputStands
McNext ==
    /\ UNCHANGED subject
    /\ \/ subject = "handshake" /\ HsNext /\ UNCHANGED <<RsVars, inVars, cbVars>>
       \/ subject = "screen" /\ RsNext /\ UNCHANGED <<HsVars, inVars, cbVars>>
       \/ subject = "input" /\ InNext /\ UNCHANGED <<HsVars, RsVars, cbVars>>
       \/ subject = "clipboard" /\ CbNext /\ UNCHANGED <<HsVars, RsVars, inVars>>
McVars == <<subject, HsVars, RsVars, inVars, cbVars>>
McSpec == McInit /\ [][McNext]_McVars
=============================================================================
