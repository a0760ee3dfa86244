-------------------------- MODULE MCSessionAccess ---------------------------
EXTENDS SessionAccess

(* The channels a client may ask for.                                      *)
McRequests == {{"audio"}, {"pkcs11", "fuse"}, {"sane", "cups"}}

McSpec == SaInit /\ [][SaNext]_SaVars
=============================================================================
