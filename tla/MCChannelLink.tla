--------------------------- MODULE MCChannelLink ----------------------------
(***************************************************************************)
(* ChannelLink on small instances: the routes the scenarios use.           *)
(***************************************************************************)
EXTENDS ChannelLink

(* A forwarded socket, and a file sent from the client to the server.      *)
FdRoutes == {[server |-> "rw", client |-> "rw", kind |-> "fd"],
             [server |-> "wo", client |-> "ro", kind |-> "fd"]}

(* A redirected device, served by a protocol handler of the client.        *)
AllRoutes == FdRoutes \union {[server |-> "rw", client |-> "rw", kind |-> "proto"]}

SocketRoute == {[server |-> "rw", client |-> "rw", kind |-> "fd"]}
=============================================================================
