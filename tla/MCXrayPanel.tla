----------------------------- MODULE MCXrayPanel -----------------------------
(***************************************************************************)
(* The small instance of XrayPanel: seven ports, of which the first two    *)
(* are tried for a new inbound and the second is that of the subscriptions *)
(* too, as 2096 is, three kinds of target a scan may find, and a list of   *)
(* a name with two machines, a name, and a subnet one of whose addresses   *)
(* has the certificate of the first name.  The links of an entry fit the   *)
(* budget of an answer, are cut to it, or do not fit at all.  The throttle *)
(* of the server that hands out the subscriptions is another part: while   *)
(* it moves, the panel rests, and the other way round.                     *)
(***************************************************************************)
EXTENDS XrayPanel, SubThrottle

VARIABLE throttling  \* this behaviour is about the throttle

FirstPorts == <<1, 2>>
BotPorts == [sub |-> 2, metrics |-> 4, api |-> 6]

Found ==
    {[tls13 |-> TRUE, rest |-> TRUE, groups |-> {}, chain |-> TRUE],
     [tls13 |-> TRUE, rest |-> TRUE, groups |-> {"x25519mlkem768"}, chain |-> FALSE],
     [tls13 |-> TRUE, rest |-> FALSE,
      groups |-> {"x25519mlkem768", "p256mlkem768"}, chain |-> TRUE]}

Good ==
    [tls13 |-> TRUE, h2 |-> TRUE, curve |-> TRUE, chain |-> TRUE, room |-> FALSE, left |-> 0,
     groups |-> [g \in {"x25519mlkem768", "p256mlkem768"} |->
                    IF g = "p256mlkem768" THEN "no" ELSE "retry"], cn |-> "a",
     latency |-> 2]
Roomy == [Good EXCEPT !.room = TRUE, !.latency = 1, !.cn = "b"]
Weak == [Good EXCEPT !.h2 = FALSE, !.room = TRUE, !.latency = 1]
SitesBehind == [a |-> <<Good, Weak>>, b |-> <<Roomy>>, net |-> <<Weak, Roomy>>]
Defaults == <<"a", "b", "net">>

Fine == [enabled |-> TRUE, same |-> TRUE, links |-> <<2, 0, 2>>]
Registered ==
    {Fine, [Fine EXCEPT !.links = <<1>>], [Fine EXCEPT !.links = <<9>>],
     [Fine EXCEPT !.enabled = FALSE], [Fine EXCEPT !.same = FALSE]}

PanelInit ==
    /\ Init /\ ThrottleInit /\ throttling \in BOOLEAN
    /\ throttling => focus = "ports"

PanelNext ==
    /\ UNCHANGED throttling
    /\ \/ ~throttling /\ Next /\ UNCHANGED throttleVars
       \/ throttling /\ ThrottleNext /\ UNCHANGED panelVars

PanelSpec == PanelInit /\ [][PanelNext]_<<panelVars, throttleVars, throttling>>
===============================================================================
