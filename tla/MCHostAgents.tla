----------------------------- MODULE MCHostAgents -----------------------------
(***************************************************************************)
(* The small instance of HostAgents: the kinds of firewall a host may have *)
(* and the ports of ssh and of one other module beside two engine ports.   *)
(***************************************************************************)
EXTENDS HostAgents

\* iptables may be a layer over nft, so nft goes with any of them.
SomeHosts == {<<"iptables", TRUE>>, <<"firewalld", TRUE>>, <<"ufw", TRUE>>}
UfwAlone == {<<"ufw", FALSE>>}
UfwWithNft == {<<"ufw", TRUE>>}
SomeServices == {[num |-> 22, proto |-> "tcp"], [num |-> 443, proto |-> "tcp"]}
\* The lines of the other module name an engine number, in a comment say.
SomeMentions == {<<560, 443>>}
===============================================================================
