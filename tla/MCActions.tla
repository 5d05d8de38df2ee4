----------------------------- MODULE MCActions ------------------------------
(***************************************************************************)
(* The small instances of the gate of the bot and of the root agent that   *)
(* its routes start.  They share no state: the first state picks one of    *)
(* them, and only that one moves.                                          *)
(***************************************************************************)
EXTENDS ActionGate, XrayAgent

VARIABLE focus  \* the part this behaviour is about

ActionsInit == GateInit /\ Init /\ focus \in {"gate", "agent"}

ActionsNext ==
    /\ UNCHANGED focus
    /\ \/ focus = "gate" /\ GateNext /\ UNCHANGED vars
       \/ focus = "agent" /\ Next /\ UNCHANGED gateVars

\* The fairness of the gate asks for nothing while no tap is let in.
ActionsSpec ==
    /\ ActionsInit
    /\ [][ActionsNext]_<<gateVars, vars, focus>>
    /\ GateFairness
=============================================================================
