----------------------------- MODULE MCBotMemory -----------------------------
(***************************************************************************)
(* The small instance of BotMemory: one tick of cooldown and two of quiet  *)
(* around an address, as 300 and 900 seconds are in the code.              *)
(***************************************************************************)
EXTENDS BotMemory

Cooldowns == [k \in {"ssh", "fail2ban"} |-> 1]
Quiets == [k \in {"ssh", "fail2ban"} |-> 2]

\* The ready value may be typed as well.
ReadyValues == [port |-> <<"443">>]
==============================================================================
