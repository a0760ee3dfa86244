--------------------------- MODULE MCConnectorRdp ---------------------------
EXTENDS ConnectorRdp

(* One key with two X key codes; an update of three tiles that fits in one *)
(* request only in part.                                                   *)
McKeymap == [b |-> {50, 56}]
McTiles == {<<50, 30, 66>>, <<66, 66, 120>>}
=============================================================================
