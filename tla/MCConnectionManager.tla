------------------------ MODULE MCConnectionManager ------------------------
(***************************************************************************)
(* Two devices that may share an address, so that streams can be matched   *)
(* to either, two streams and two requests: enough for a resource to be    *)
(* taken, refused, released and taken again by the other connection.       *)
(***************************************************************************)
EXTENDS ConnectionManager, TLC

CONSTANTS ip1, ip2
MCIps == {ip1, ip2}
Addresses == Permutations(MCIps)
=============================================================================
