------------------------------ MODULE RelayGuard ------------------------------
(***************************************************************************)
(* The firewall of the call relay engine: the guard of the FreeTurn agent, *)
(* which opens the engine port, narrows it to the ranges of the relays or  *)
(* closes it, and the repair that every probe, apply and restart makes     *)
(* behind it.  Both are runs of tools, one call after the other, on rules  *)
(* that ssh and the other modules need too.  A port is a number and a      *)
(* protocol; the engine listens on udp.  Traffic comes from a relay or     *)
(* from anybody else ("other").                                            *)
(***************************************************************************)
EXTENDS Integers, SequencesExt

CONSTANTS
    Hosts,        \* pairs of a firewall and whether the tool nft is installed
    EngineNums,   \* the numbers the engine may listen on
    Services,     \* the ports of ssh and of the other modules: [num, proto]
    Relays,       \* the networks that announce relay prefixes
    Mentions,     \* pairs <<n, m>>: the lines ufw lists for the port m name n too
    Beside,       \* may a repair run while the guard is at work?
    MaxFaults,    \* bound of the model: tool calls that fail
    MaxCommands   \* bound of the model: agents started

GuardConstants ==
    /\ Hosts \subseteq {"iptables", "ufw", "firewalld"} \X BOOLEAN
    /\ EngineNums \subseteq Nat
    /\ Services \subseteq [num : Nat, proto : {"tcp", "udp"}]
    /\ IsFiniteSet(Services) /\ IsFiniteSet(Relays)
    /\ Mentions \subseteq EngineNums \X (Nat \ EngineNums)
    /\ {"other", "any", "absent", "established", "drop"} \cap Relays = {}
    /\ Beside \in BOOLEAN
    /\ MaxFaults \in Nat /\ MaxCommands \in Nat

VARIABLES
    host,     \* the firewall of this host, and whether nft is there
    default,  \* what happens to traffic no rule decides
    chain,    \* the shared chain OBHOD-FT, or Absent
    inForce,  \* the rules, in the order in which they are tried
    stored,   \* the rules the next boot loads
    early,    \* numbers accepted ahead of the rules of ufw
    ranges,   \* the relays the bot holds prefixes of
    todo,     \* the tool calls an agent has still to make
    job,      \* what an agent was started for, or Idle
    intact,   \* has every call of this agent worked, with no other agent beside it?
    asked,    \* what the last guard that worked was asked for, by number
    blind,    \* history: narrowed numbers of which a repair's listing failed
    crossed,  \* history: have a guard and a repair been at work at once?
    faults, commands

guardVars == <<host, default, chain, inForce, stored, early, ranges, todo, job,
               intact, asked, blind, crossed, faults, commands>>

Agents == {"guard", "heal"}
Absent == <<"absent">>
Idle == [mode |-> "idle", num |-> 0]
Backend == host[1]
Rule(num, proto, from, to) == [num |-> num, proto |-> proto, from |-> from, to |-> to]
Call(does, arg) == [does |-> does, arg |-> arg, boot |-> FALSE]
Boot(call) == [does |-> call.does, arg |-> call.arg, boot |-> TRUE]

\* The numbers of ssh and of the modules, which the guard is told to keep.
Kept == {s.num : s \in Services}

\* A number is found anywhere in a line: in its port, in another
\* port of the same rule, in a source or in a comment.
MentionsPort(r, num) == r.num = num \/ <<num, r.num>> \in Mentions

\* What the chain does with a new connection: it accepts what is
\* established, then the ranges, then drops.
ChainSays(from) ==
    LET hits == {i \in 1..Len(chain) : chain[i] \in {from, "drop"}}
    IN  CASE hits = {} -> "return"
          [] chain[CHOOSE i \in hits : \A j \in hits : i <= j] = "drop" -> "drop"
          [] OTHER -> "accept"

Decision(r, from) ==
    CASE r.to = "chain" -> ChainSays(from)
      [] r.to = "nft" -> "accept"
      [] r.to \notin {"chain", "nft"} /\ r.from \in {"any", from} -> r.to
      [] OTHER -> "return"

\* The first rule that decides, else the policy.
Verdict(num, proto, from) ==
    LET deciding == {i \in 1..Len(inForce) :
            /\ inForce[i].num = num /\ inForce[i].proto = proto
            /\ Decision(inForce[i], from) # "return"}
    IN  IF Backend = "ufw" /\ proto = "udp" /\ num \in early THEN "accept"
        ELSE IF deciding = {} THEN default
        ELSE Decision(inForce[CHOOSE i \in deciding : \A j \in deciding : i <= j], from)

Engine(num, from) == Verdict(num, "udp", from)

Orders == SetToSeqs({Rule(v.num, v.proto, "any", "accept") : v \in Services})

\* The services are let in before the guard touches anything.
GuardInit ==
    /\ host \in Hosts
    /\ default \in IF Backend = "iptables" THEN {"accept", "drop"} ELSE {"drop"}
    /\ chain = Absent
    /\ inForce \in Orders
    /\ stored = inForce
    /\ early = {} /\ ranges = {}
    /\ todo = [a \in Agents |-> <<>>]
    /\ job = [a \in Agents |-> Idle]
    /\ intact = [a \in Agents |-> TRUE]
    /\ asked = [n \in EngineNums |-> "nothing"]
    /\ blind = {} /\ crossed = FALSE
    /\ faults = 0 /\ commands = 0

\* The prefixes the bot passes on.
Cidrs == SetToSeq(ranges)

\* iptables_clear: the jumps and the accepts of the number, then the chain,
\* whichever port it serves.
ClearIptables(num) == <<Call("unhook", num), Call("unaccept", num),
                        Call("flush", 0), Call("deleteChain", 0)>>
ApplyIptables(num, mode) ==
    ClearIptables(num) \o
    CASE mode = "closed" -> <<>>
      [] mode = "open" -> <<Call("accept", num)>>
      [] mode = "vk" -> <<Call("newChain", 0), Call("hook", num), Call("append", "established")>>
                        \o [i \in DOMAIN Cidrs |-> Call("append", Cidrs[i])]
                        \o <<Call("append", "drop")>>

ApplyUfw(num, mode) ==
    <<Call("list", num)>> \o
    CASE mode = "closed" -> <<>>
      [] mode = "open" -> <<Call("allow", Rule(num, "udp", "any", "accept"))>>
      [] mode = "vk" -> [i \in DOMAIN Cidrs |-> Call("insert", Rule(num, "udp", Cidrs[i], "accept"))]
                        \o <<Call("allow", Rule(num, "udp", "any", "drop"))>>

\* Every call of firewall-cmd is made twice: for now and, permanent, for
\* the next boot.
Twice(calls) ==
    [i \in 1..2 * Len(calls) |->
        IF i % 2 = 1 THEN calls[(i + 1) \div 2] ELSE Boot(calls[i \div 2])]
ApplyFirewalld(num, mode) ==
    Twice(<<Call("unport", num), Call("unrich", num)>> \o
    CASE mode = "closed" -> <<>>
      [] mode = "open" -> <<Call("port", Rule(num, "udp", "any", "accept"))>>
      [] mode = "vk" -> [i \in DOMAIN Cidrs |-> Call("rich", Rule(num, "udp", Cidrs[i], "accept"))]
                        \o <<Call("rich", Rule(num, "udp", "any", "drop"))>>)

GuardCalls(num, mode) ==
    CASE Backend = "iptables" -> ApplyIptables(num, mode)
      [] Backend = "ufw" -> ApplyUfw(num, mode)
      [] Backend = "firewalld" -> ApplyFirewalld(num, mode)

\* guard_status: on iptables any chain at all reads as narrowed, and on ufw the
\* first rule for anybody decides.
Of(num) == {i \in DOMAIN inForce : inForce[i].num = num /\ inForce[i].proto = "udp"}
Lines(num) == {i \in DOMAIN inForce : MentionsPort(inForce[i], num)}
Status(num) ==
    LET whole == {i \in Lines(num) : inForce[i].from = "any"}
        open == Rule(num, "udp", "any", "accept") \in Range(inForce)
        first == \E i \in whole : inForce[i].to = "accept" /\ \A j \in whole : i <= j
        narrow == CASE Backend = "iptables" -> chain # Absent
                    [] Backend = "firewalld" -> \E i \in Of(num) : inForce[i].to = "drop"
                    [] Backend = "ufw" -> \E i \in Lines(num) : inForce[i].from # "any"
    IN  IF Backend = "ufw"
        THEN IF first THEN "open" ELSE IF narrow THEN "vk" ELSE "closed"
        ELSE IF narrow THEN "vk" ELSE IF open THEN "open" ELSE "closed"

\* ensure_apply_port_open: first the native chains, then, when the guard
\* did not narrow the port, the firewall.
HealCalls(num) ==
    (IF host[2] THEN <<Call("nft", num)>> ELSE <<>>) \o <<Call("judge", num)>>

\* The calls that let everybody in.
Opening(num) ==
    CASE Backend = "ufw" -> <<Call("list", num), Call("allow", Rule(num, "udp", "any", "accept"))>>
      [] Backend = "firewalld" -> Twice(<<Call("port", Rule(num, "udp", "any", "accept"))>>)
      [] Backend = "iptables" -> <<Call("accept", num)>>

\* A variation: the repair asks for no mode.
JudgedBlind(num) ==
    IF Backend # "iptables" /\ Status(num) = "open" THEN <<>> ELSE Opening(num)

\* The firewall half, which leaves a narrowed port alone.
Judged(num) ==
    IF \/ Status(num) = "vk"
       \/ Backend # "iptables" /\ Status(num) = "open"
    THEN <<>> ELSE Opening(num)

Busy(a) == job[a] # Idle

Start(a, work, calls) ==
    /\ ~Busy(a) /\ commands < MaxCommands
    /\ Beside \/ \A b \in Agents : ~Busy(b)
    /\ job' = [job EXCEPT ![a] = work]
    /\ todo' = [todo EXCEPT ![a] = calls]
    /\ intact' = [b \in Agents |-> IF b = a THEN \A c \in Agents : ~Busy(c) ELSE FALSE]
    /\ crossed' = (crossed \/ \E b \in Agents : Busy(b))
    /\ commands' = commands + 1

\* vk_cidrs asks every network; what one of them did not answer is missing
\* from the list, and the list is kept for a day all the same.
FetchRanges ==
    /\ \E found \in SUBSET Relays : ranges' = found
    /\ UNCHANGED <<host, default, chain, inForce, stored, early, todo, job, intact,
                   asked, blind, crossed, faults, commands>>

\* The screen of the relay firewall, which names no port to keep.
PanelGuard(mode, num) ==
    /\ mode = "vk" => ranges # {}
    /\ Start("guard", [mode |-> mode, num |-> num], GuardCalls(num, mode))
    /\ UNCHANGED <<host, default, chain, inForce, stored, early, ranges, asked, blind, faults>>

\* The debug screen, which refuses a kept port and passes the list on.
DebugGuard(num) ==
    /\ num \notin Kept /\ ranges # {}
    /\ Start("guard", [mode |-> "vk", num |-> num], GuardCalls(num, "vk"))
    /\ UNCHANGED <<host, default, chain, inForce, stored, early, ranges, asked, blind, faults>>

Heal(num) ==
    /\ Start("heal", [mode |-> "heal", num |-> num], HealCalls(num))
    /\ UNCHANGED <<host, default, chain, inForce, stored, early, ranges, asked, blind, faults>>

Without(s, gone) ==
    LET left[n \in 0..Len(s)] ==
            IF n = 0 THEN <<>>
            ELSE IF s[n] \in gone THEN left[n - 1] ELSE Append(left[n - 1], s[n])
    IN  left[Len(s)]
First(s, r) == IF r \in Range(s) THEN s ELSE <<r>> \o s
AtEnd(s, r) == IF r \in Range(s) THEN s ELSE Append(s, r)
\* firewalld tries the ranges first, the ports next and the drops last.
Placed(s, r) ==
    LET whole == {x \in Range(s) : x.from = "any"}
    IN  IF r \in Range(s) THEN s
        ELSE IF r.from # "any" THEN <<r>> \o s
        ELSE IF r.to = "drop" THEN Append(s, r)
        ELSE Without(s, whole) \o <<r>> \o Without(s, Range(s) \ whole)

Jump(num) == Rule(num, "udp", "any", "chain")

\* ufw_clear: every line that names the number, by its place in the listing,
\* so the highest goes first.
Deletions(num) ==
    LET down[n \in 0..Len(inForce)] ==
            IF n = 0 THEN <<>>
            ELSE IF MentionsPort(inForce[n], num) THEN <<Call("delete", n)>> \o down[n - 1]
            ELSE down[n - 1]
    IN  down[Len(inForce)]

\* The rules of a number that let anybody in, and those that narrow it.
Whole(s, num) == {r \in Range(s) : r.num = num /\ r.to = "accept" /\ r.from = "any"}
Narrowing(s, num) == {r \in Range(s) : r.num = num /\ (r.from # "any" \/ r.to = "drop")}

\* The rules after one call of a tool.
Edited(call, s) ==
    LET num == call.arg
    IN  CASE call.does = "unhook" -> Without(s, {Jump(num)})
          [] call.does \in {"unaccept", "unport"} -> Without(s, Whole(s, num))
          [] call.does = "unrich" -> Without(s, Narrowing(s, num))
          [] call.does = "hook" /\ chain # Absent -> <<Jump(num)>> \o s
          [] call.does = "accept" -> First(s, Rule(num, "udp", "any", "accept"))
          [] call.does = "nft" /\ Backend = "iptables" /\ default = "drop"
             /\ Of(num) = {} -> <<Rule(num, "udp", "any", "nft")>> \o s
          [] call.does = "allow" -> AtEnd(s, call.arg)
          [] call.does = "insert" -> First(s, call.arg)
          [] call.does \in {"port", "rich"} -> Placed(s, call.arg)
          [] call.does = "delete" /\ num \in DOMAIN s -> RemoveAt(s, num)
          [] OTHER -> s

\* One edit of the rules: ufw stores what it applies, firewall-cmd edits
\* one of its two copies, iptables has no second copy.
Edit(call) ==
    CASE Backend = "ufw" -> inForce' = Edited(call, inForce) /\ stored' = Edited(call, inForce)
      [] Backend # "ufw" /\ call.boot -> stored' = Edited(call, stored) /\ UNCHANGED inForce
      [] OTHER -> inForce' = Edited(call, inForce) /\ UNCHANGED stored

\* What one call of a tool does when it works.
Does(call) ==
    LET num == call.arg
    IN  /\ Edit(call)
        /\ chain' = CASE call.does = "flush" /\ chain # Absent -> <<>>
                      [] call.does = "newChain" /\ chain = Absent -> <<>>
                      [] call.does = "deleteChain" /\ chain = <<>>
                         /\ \A n \in EngineNums : Jump(n) \notin Range(inForce) -> Absent
                      [] call.does = "append" /\ chain # Absent -> Append(chain, call.arg)
                      [] OTHER -> chain
        /\ early' = IF call.does = "nft" /\ Backend = "ufw" THEN early \cup {num} ELSE early

\* The calls a call adds to the run: a listing is read once, at its time.
Adds(call) ==
    CASE call.does = "list" -> Deletions(call.arg)
      [] call.does = "judge" -> Judged(call.arg)
      [] OTHER -> <<>>

Step(a) ==
    /\ todo[a] # <<>>
    /\ Does(Head(todo[a]))
    /\ todo' = [todo EXCEPT ![a] = Adds(Head(todo[a])) \o Tail(todo[a])]
    /\ UNCHANGED <<host, default, ranges, job, intact, asked, blind, crossed, faults,
                   commands>>

\* A listing that fails reads as an empty one, and an empty one as a port that
\* is closed: the repair opens it.
Unread(call) == IF call.does = "judge" THEN Opening(call.arg) ELSE <<>>

\* run_tool returns the code, and nobody looks at it.
ToolFails(a) ==
    /\ todo[a] # <<>> /\ faults < MaxFaults
    /\ faults' = faults + 1
    /\ todo' = [todo EXCEPT ![a] = Unread(Head(todo[a])) \o Tail(todo[a])]
    /\ intact' = [intact EXCEPT ![a] = FALSE]
    /\ blind' = IF Head(todo[a]).does = "judge" /\ asked[job[a].num] = "vk"
                THEN blind \cup {job[a].num} ELSE blind
    /\ UNCHANGED <<host, default, chain, inForce, stored, early, ranges, job, asked, crossed,
                   commands>>

\* The answer.  A guard that saw every call work, and worked alone, has done
\* what it was asked; after one that has not, nothing is known of its number
\* and, on iptables, of those that share the chain.  A repair asks for nothing.
Finish(a) ==
    /\ Busy(a) /\ todo[a] = <<>>
    /\ asked' = IF a = "heal" THEN asked
                ELSE [n \in EngineNums |->
                        IF n = job[a].num /\ intact[a] THEN job[a].mode
                        ELSE IF n = job[a].num \/ Backend = "iptables" THEN "nothing"
                        ELSE asked[n]]
    /\ blind' = IF a = "guard" /\ intact[a] THEN blind \ {job[a].num} ELSE blind
    /\ job' = [job EXCEPT ![a] = Idle]
    /\ UNCHANGED <<host, default, chain, inForce, stored, early, ranges, todo, intact,
                   crossed, faults, commands>>

\* The bot gives up on the agent and kills it between two calls.
Kill(a) ==
    /\ Busy(a) /\ todo[a] # <<>> /\ faults < MaxFaults
    /\ faults' = faults + 1
    /\ todo' = [todo EXCEPT ![a] = <<>>]
    /\ intact' = [intact EXCEPT ![a] = FALSE]
    /\ UNCHANGED <<host, default, chain, inForce, stored, early, ranges, job, asked, blind,
                   crossed, commands>>

\* A boot loads what is stored; nothing stores the rules of iptables.
Reboot ==
    /\ \A a \in Agents : ~Busy(a)
    /\ faults < MaxFaults
    /\ faults' = faults + 1
    /\ inForce' = stored
    /\ chain' = Absent /\ early' = {}
    /\ asked' = IF Backend = "iptables" THEN [n \in EngineNums |-> "nothing"] ELSE asked
    /\ UNCHANGED <<host, default, stored, ranges, todo, job, intact, blind, crossed, commands>>

GuardNext ==
    \/ FetchRanges \/ Reboot
    \/ \E n \in EngineNums :
          \/ \E mode \in {"open", "vk", "closed"} : PanelGuard(mode, n)
          \/ DebugGuard(n) \/ Heal(n)
    \/ \E a \in Agents : Step(a) \/ ToolFails(a) \/ Finish(a) \/ Kill(a)

GuardTypeOK ==
    /\ host \in Hosts /\ default \in {"accept", "drop"}
    /\ chain = Absent \/ Range(chain) \subseteq {"established", "drop"} \cup Relays
    /\ early \subseteq EngineNums /\ ranges \subseteq Relays
    /\ DOMAIN todo = Agents /\ DOMAIN job = Agents /\ intact \in [Agents -> BOOLEAN]
    /\ asked \in [EngineNums -> {"nothing", "open", "vk", "closed"}]
    /\ blind \subseteq EngineNums /\ crossed \in BOOLEAN
    /\ faults \in 0..MaxFaults /\ commands \in 0..MaxCommands

Resting == \A a \in Agents : ~Busy(a)

\* Two agents that delete by number from their own listings of ufw delete each
\* other's lines, and anybody's.
Lost == Backend = "ufw" /\ crossed

\* A service whose lines name no number of the engine.
Apart(v) == v.num \notin EngineNums /\ \A n \in EngineNums : <<n, v.num>> \notin Mentions

Lets(v) == Verdict(v.num, v.proto, "other") = "accept"

\* Only the engine port changes (README.md:112): ssh and the ports of the
\* other modules stay reachable at every moment, between any two tool calls
\* of a guard and a repair that run at once, after a kill, a call that failed
\* and a boot (freeturn_agent.py:1018 ufw_clear, 1050 iptables_clear).
\* Excepted, on ufw: a line that names the number of the engine beside its
\* own goes with the lines of the engine (1026), and any line may when a guard
\* inserts rules between the listing and the deletions of a repair (1029).
OnlyEnginePort == ~Lost => \A v \in Services : Apart(v) => Lets(v)

\* A port narrowed to the relays admits nobody else until the guard is asked
\* for something else: neither a repair, before, beside or after a guard of
\* another port, nor a call that fails, a kill or a boot widens it
\* (freeturn_agent.py:1451 ensure_apply_port_open; strings.py:332).  Excepted are
\* the cases of StaysNarrow.
NarrowUntilAsked ==
    Resting /\ ~Lost =>
        \A n \in EngineNums :
            /\ asked[n] = "vk" /\ n \notin blind
            /\ Backend = "ufw" => n \notin early
            => Engine(n, "other") = "drop"

\* The guard covers the port of the engine and no other, and stays narrow.
GuardHolds == OnlyEnginePort /\ NarrowUntilAsked

\* "VK mode allows only official VK relay networks and drops everything else"
\* (strings.py:332), of every port a guard has narrowed.  A repair opens it behind
\* the guard's back: ahead of the rules of ufw where nft is there
\* (freeturn_agent.py:1416), and wherever its listing fails (576, 1451).
StaysNarrow ==
    Resting /\ ~crossed => \A n \in EngineNums : asked[n] = "vk" => Engine(n, "other") = "drop"
===============================================================================
