------------------------------ MODULE BotMemory ------------------------------
(***************************************************************************)
(* What the bot keeps between two messages: the budgets, the owner, the    *)
(* links of the FreeTurn clients, their traffic, the notifications and the *)
(* tokens of the inline mode.                                              *)
(* They share the state file, of which each writes a part of its own, and  *)
(* nothing else: an interleaving of two of them shows no more than each of *)
(* them alone.  The first state picks one, and only that one moves.        *)
(***************************************************************************)
EXTENDS Limiter

CONSTANTS Names, MaxGen, MaxFaults, MaxChanges
CONSTANTS Users, MaxBytes, MaxPeers, MaxDays, MaxResets
CONSTANTS Sources, Cooldown, Around, SeenMost, SeenKept, BansMost, BansKept, MaxFlips
CONSTANTS Fields, Things, Ready, Typed, MaxRegistry, Twice, MaxPicks, MaxBoots

VARIABLES offered, upstream, cache, ran, installed, clients, key, readable, draft,
          links, saved, keyOnce, call, gen, lost, stray, mishaps
VARIABLES peer, counter, listed, history, date, passed, today, dealt, resets
VARIABLES switch, screen, kept, seen, source, announced, raised, stage, since,
          repeated, flips
VARIABLES secret, registry, buttons, articles, sent, recent, tally, age
VARIABLE focus  \* the part this behaviour is about

Turn == INSTANCE FreeTurn
Centre == INSTANCE NotifyCentre
Inline == INSTANCE InlineValues

ASSUME MemoryConstants ==
    /\ LimiterConstants /\ AccessConstants /\ Turn!FreeTurnConstants
    /\ Turn!TrafficConstants /\ Centre!NotifyConstants /\ Inline!InlineConstants

claimVars == <<named, disk, beside, owner, up, fresh, work, waiting, obeyed, starts, slips>>
turnVars == <<offered, upstream, cache, ran, installed, clients, key, readable, draft,
              links, saved, keyOnce, call, gen, lost, stray, mishaps>>
bytesVars == <<peer, counter, listed, history, date, passed, today, dealt, resets>>
centreVars == <<switch, screen, kept, seen, source, announced, raised, stage, since,
                repeated, flips>>
inlineVars == <<secret, registry, buttons, articles, sent, recent, tally, age>>
memoryVars == <<limiterVars, claimVars, turnVars, bytesVars, centreVars, inlineVars, focus>>

\* The variables of a part that is not looked at have one value.
Init ==
    /\ LimiterInit /\ AccessInit /\ Turn!TurnInit
    /\ Turn!TrafficInit /\ Centre!NotifyInit /\ Inline!InlineInit
    /\ focus \in {"budgets", "claim", "turn", "script", "bytes", "centre", "inline"}
    /\ focus # "claim" => named = Nobody
    /\ focus # "script" => ~offered
    /\ focus # "turn" => ~readable

Next ==
    /\ UNCHANGED focus
    /\ \/ focus = "budgets" /\ LimiterNext
          /\ UNCHANGED <<claimVars, turnVars, bytesVars, centreVars, inlineVars>>
       \/ focus = "claim" /\ AccessNext
          /\ UNCHANGED <<limiterVars, turnVars, bytesVars, centreVars, inlineVars>>
       \/ ((focus = "turn" /\ Turn!TurnNext) \/ (focus = "script" /\ Turn!ScriptNext))
          /\ UNCHANGED <<limiterVars, claimVars, bytesVars, centreVars, inlineVars>>
       \/ focus = "bytes" /\ Turn!TrafficNext
          /\ UNCHANGED <<limiterVars, claimVars, turnVars, centreVars, inlineVars>>
       \/ focus = "centre" /\ Centre!NotifyNext
          /\ UNCHANGED <<limiterVars, claimVars, turnVars, bytesVars, inlineVars>>
       \/ focus = "inline" /\ Inline!InlineNext
          /\ UNCHANGED <<limiterVars, claimVars, turnVars, bytesVars, centreVars>>

Spec == Init /\ [][Next]_memoryVars

\* The shape of the state of every part.
TypeOK ==
    /\ LimiterTypeOK /\ AccessTypeOK /\ Turn!TurnTypeOK
    /\ Turn!TrafficTypeOK /\ Centre!NotifyTypeOK /\ Inline!InlineTypeOK

\* See FreeTurn: the engine is the one asked for, and its links open it.
EngineIsTrue == Turn!EngineIsTrue

\* See FreeTurn: the bytes on a screen have passed.
CountsAreReal == Turn!CountsAreReal

\* See NotifyCentre: no event is told twice within its quiet time.
NoRepeat == Centre!NoRepeat

\* See InlineValues: one pick takes effect once (app.py:624 apply_inline_value).
AppliedOnce ==
    [][\A i \in DOMAIN tally : tally[i] > 0 /\ age[i] < Twice => tally'[i] = tally[i]]_memoryVars
==============================================================================
