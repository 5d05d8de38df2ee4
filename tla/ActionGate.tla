----------------------------- MODULE ActionGate -----------------------------
(***************************************************************************)
(* The gate every tap on a button of the bot goes through (BOT/app.py):    *)
(* the busy flag with its time to live, the FIFO action lock, the limit    *)
(* on how long one action may hold it, and the root agents the actions     *)
(* start as child processes (BOT/shell.py).  Typed or picked inline values *)
(* reach the same agents by a second path that takes neither flag nor      *)
(* lock.                                                                   *)
(*                                                                         *)
(* Timers are countdowns: a timer that reads 0 has expired or is unset, so *)
(* the model needs no absolute clock.  Their lengths are constants.        *)
(***************************************************************************)
EXTENDS Integers, Sequences

CONSTANTS
  Ops,            \* buttons whose tap takes the busy flag
  Navs,           \* navigation buttons: rendered even while the flag is set
  Markers,        \* inline values that arrive as a marker message
  Chosen,         \* inline values that arrive as a chosen result
  NoOne,          \* nobody holds the action lock
  TapLimit,       \* CALLBACK_LIMIT: the taps let in per unit of time
  BusyTtl,        \* BUSY_TTL
  ActionTimeout   \* ACTION_TIMEOUT

Buttons == Ops \cup Navs
Inputs == Markers \cup Chosen

ASSUME GateConstants ==
  /\ NoOne \notin Buttons
  /\ Ops \cap Navs = {}
  /\ Inputs \cap Buttons = {}
  /\ TapLimit \in Nat \ {0}
  /\ BusyTtl \in Nat \ {0}
  /\ ActionTimeout \in Nat \ {0}

VARIABLES
  stage,      \* where the latest tap of each button is
  lock,       \* the button whose tap holds the action lock
  lockq,      \* taps waiting for the lock, first come first served
  busyLeft,   \* time left of the busy flag; 0 when is_busy() is false
  routeLeft,  \* time left of the action that holds the lock
  quiet,      \* the "action" quiet mark (ACTION_LOCK_QUIET) is fresh
  taps,       \* taps the limiter still lets in before time passes
  inputs,     \* inline values being applied
  agents,     \* whose root agent runs on the server, and is awaited
  orphans,    \* whose root agent runs on the server although nobody waits for it
  lapsed      \* history: with operations in flight, a timeout cleared the flag
              \* or its time ran out

aside == <<inputs, agents, orphans>>
gate == <<stage, lock, lockq, busyLeft, routeLeft, quiet, taps>>
gateVars == <<stage, lock, lockq, busyLeft, routeLeft, quiet, taps,
              inputs, agents, orphans, lapsed>>

Stages == {"idle", "loading", "task", "waiting", "running", "settling"}
Holding == {"running", "settling"}

GateTypeOK ==
  /\ stage \in [Buttons -> Stages]
  /\ lock \in Buttons \cup {NoOne}
  /\ lockq \in Seq(Buttons)
  /\ busyLeft \in 0..BusyTtl
  /\ routeLeft \in 0..ActionTimeout
  /\ quiet \in BOOLEAN
  /\ taps \in 0..TapLimit
  /\ inputs \subseteq Inputs
  /\ agents \subseteq Ops \cup Inputs
  /\ orphans \subseteq Ops
  /\ lapsed \in BOOLEAN

GateInit ==
  /\ stage = [b \in Buttons |-> "idle"]
  /\ lock = NoOne
  /\ lockq = << >>
  /\ busyLeft = 0
  /\ routeLeft = 0
  /\ quiet = FALSE
  /\ taps = TapLimit
  /\ inputs = {}
  /\ agents = {}
  /\ orphans = {}
  /\ lapsed = FALSE

Move(b, from, to) ==
  /\ stage[b] = from
  /\ stage' = [stage EXCEPT ![b] = to]

IsBusy == busyLeft > 0

InFlight(b) == stage[b] # "idle"
OpsBeside(b) == {a \in Ops \ {b} : InFlight(a)}

-----------------------------------------------------------------------------
(* One tap.  A tap the limiter, the replay window or the busy flag refuses *)
(* leaves no trace here: the refusal is the absence of Tap.                *)

\* A tap of an operation must find the flag clear, and sets it.
OpAdmitted == ~IsBusy

Tap(b) ==
  /\ Move(b, "idle", "loading")
  /\ taps > 0
  /\ taps' = taps - 1
  /\ b \in Ops => OpAdmitted
  /\ busyLeft' = IF b \in Ops THEN BusyTtl ELSE busyLeft
  /\ UNCHANGED <<lock, lockq, routeLeft, quiet, aside, lapsed>>

\* The loading screen is awaited before the task is created; a failed
\* render is logged and the tap goes on.
Loaded(b) ==
  /\ Move(b, "loading", "task")
  /\ UNCHANGED <<lock, lockq, busyLeft, routeLeft, quiet, taps, aside, lapsed>>

\* What finish() does to the flag when the job of b is over.
FlagKept(b) == busyLeft
FlagAfter(b) == IF b \in Ops THEN 0 ELSE busyLeft

\* The lock is held and a tap already came to it moments ago: the job
\* returns without a word.
TurnAway(b) ==
  /\ Move(b, "task", "idle")
  /\ lock # NoOne
  /\ quiet
  /\ busyLeft' = FlagAfter(b)
  /\ lapsed' = (lapsed /\ OpsBeside(b) # {})
  /\ UNCHANGED <<lock, lockq, routeLeft, quiet, taps, aside>>

\* The job queues for the lock; asking while it is held sets the quiet mark.
NeverWaits == FALSE
MustWait == lock # NoOne \/ lockq # << >>

Enqueue(b) ==
  /\ Move(b, "task", "waiting")
  /\ MustWait
  /\ lock # NoOne => ~quiet
  /\ quiet' = (quiet \/ lock # NoOne)
  /\ lockq' = Append(lockq, b)
  /\ UNCHANGED <<lock, busyLeft, routeLeft, taps, aside, lapsed>>

Acquire(b) ==
  /\ Move(b, "task", "running")
  /\ ~MustWait
  /\ lock' = b
  /\ routeLeft' = ActionTimeout
  /\ UNCHANGED <<lockq, busyLeft, quiet, taps, aside, lapsed>>

\* A released lock wakes the first waiter.
Grant(b) ==
  /\ Move(b, "waiting", "running")
  /\ lock = NoOne
  /\ lockq # << >>
  /\ b = Head(lockq)
  /\ lockq' = Tail(lockq)
  /\ lock' = b
  /\ routeLeft' = ActionTimeout
  /\ UNCHANGED <<busyLeft, quiet, taps, aside, lapsed>>

-----------------------------------------------------------------------------
(* The action itself, under the lock.                                      *)

\* An operation starts an agent and awaits its exit.
StartAgent(b) ==
  /\ stage[b] = "running"
  /\ b \in Ops \ agents
  /\ agents' = agents \cup {b}
  /\ UNCHANGED <<gate, inputs, orphans, lapsed>>

\* The agent of b exits, or the limit of the shell kills it.  (The unit of
\* the bot runs as root, so the child is the agent and not a sudo before it.)
AgentEnds(b) ==
  /\ b \in agents
  /\ agents' = agents \ {b}
  /\ UNCHANGED <<gate, inputs, orphans, lapsed>>

\* An agent nobody waits for ends by itself.
OrphanEnds(b) ==
  /\ b \in orphans
  /\ orphans' = orphans \ {b}
  /\ UNCHANGED <<gate, inputs, agents, lapsed>>

AgentOver(b) == b \notin agents

\* route() returned: its own handler has shown the result or the error.
RouteDone(b) ==
  /\ Move(b, "running", "settling")
  /\ AgentOver(b)
  /\ routeLeft' = 0
  /\ UNCHANGED <<lock, lockq, busyLeft, quiet, taps, aside, lapsed>>

\* wait_for() gives up: the route is cancelled, its agent is left running,
\* and stuck() clears the flag before it shows anything.
GiveUpNever(b) == FALSE
GiveUp(b) == stage[b] = "running" /\ routeLeft = 0

Stuck(b) ==
  /\ GiveUp(b)
  /\ Move(b, "running", "settling")
  /\ busyLeft' = 0
  /\ agents' = agents \ {b}
  /\ orphans' = orphans \cup (agents \cap {b})
  /\ lapsed' = TRUE
  /\ UNCHANGED <<lock, lockq, routeLeft, quiet, taps, inputs>>

\* The stuck screen is out, or the registry push after an xr: action is
\* over; the lock is released and finish() runs without a pause between.
Settle(b) ==
  /\ Move(b, "settling", "idle")
  /\ lock' = NoOne
  /\ busyLeft' = FlagAfter(b)
  /\ lapsed' = (lapsed /\ OpsBeside(b) # {})
  /\ UNCHANGED <<lockq, routeLeft, quiet, taps, aside>>

-----------------------------------------------------------------------------
(* Inline values: a marker message looks at the flag, a chosen result does *)
(* not; neither sets it, and neither takes the lock.                       *)

InputStart(i) ==
  /\ i \notin inputs
  /\ i \in Markers => ~IsBusy
  /\ inputs' = inputs \cup {i}
  /\ agents' = agents \cup {i}
  /\ UNCHANGED <<gate, orphans, lapsed>>

InputEnds(i) ==
  /\ i \in inputs
  /\ inputs' = inputs \ {i}
  /\ agents' = agents \ {i}
  /\ UNCHANGED <<gate, orphans, lapsed>>

-----------------------------------------------------------------------------
Less(timer) == IF timer > 0 THEN timer - 1 ELSE 0

\* The quiet mark is seconds long and the timers minutes: it wears off alone.
QuietEnds ==
  /\ quiet
  /\ quiet' = FALSE
  /\ UNCHANGED <<stage, lock, lockq, busyLeft, routeLeft, taps, aside, lapsed>>

\* What the event loop does in seconds, which is no time on these timers.
Prompt(b) ==
  \/ stage[b] \in {"loading", "task"}
  \/ stage[b] = "waiting" /\ lock = NoOne
  \/ stage[b] = "running" /\ routeLeft = 0

Tick ==
  /\ \A b \in Buttons : ~Prompt(b)
  /\ busyLeft' = Less(busyLeft)
  /\ routeLeft' = Less(routeLeft)
  /\ taps' = TapLimit
  /\ lapsed' = (lapsed \/ busyLeft = 1)
  /\ UNCHANGED <<stage, lock, lockq, quiet, aside>>

Job(b) ==
  \/ Loaded(b)
  \/ TurnAway(b)
  \/ Enqueue(b)
  \/ Acquire(b)
  \/ Grant(b)
  \/ RouteDone(b)
  \/ Stuck(b)
  \/ Settle(b)

GateNext ==
  \/ \E b \in Buttons : Tap(b) \/ Job(b) \/ StartAgent(b)
                         \/ AgentEnds(b) \/ OrphanEnds(b)
  \/ \E i \in Inputs : InputStart(i) \/ InputEnds(i) \/ AgentEnds(i)
  \/ QuietEnds
  \/ Tick

GateSpec == GateInit /\ [][GateNext]_gateVars

\* The event loop keeps running its tasks and its timers.  Nothing is assumed
\* of taps or of agents: an agent may never end.
GateFairness ==
  /\ WF_gateVars(Tick)
  /\ \A b \in Buttons :
       /\ WF_gateVars(Loaded(b))
       /\ WF_gateVars(TurnAway(b) \/ Enqueue(b) \/ Acquire(b))
       /\ WF_gateVars(Grant(b))
       /\ WF_gateVars(Stuck(b))
       /\ WF_gateVars(Settle(b))

FairSpec == GateSpec /\ GateFairness

-----------------------------------------------------------------------------
(* Properties.                                                             *)

\* handle_callback never lets two routes run, whatever the order of taps,
\* waits and timeouts: only the tap the lock belongs to is inside it.
RoutesExclusive ==
  \A b \in Buttons : stage[b] \in Holding <=> lock = b

\* The flag is never left behind: when is_busy() holds, the tap of some
\* operation is still in flight and will clear it.
NoOrphanFlag == IsBusy => \E b \in Ops : InFlight(b)

\* A second operation is refused while the first is in flight, as long as the
\* flag has not lapsed: only a timeout or the time to live of the flag lets
\* two operations into the gate at once.
SecondRefusedUntilLapse ==
  ~lapsed => \A a, b \in Ops : InFlight(a) /\ InFlight(b) => a = b

\* Every tap that was let in ends, even when its agent hangs for good and
\* other taps keep coming: the timeout and the FIFO lock see to it.
AdmittedEnds ==
  \A b \in Buttons : stage[b] = "loading" ~> stage[b] = "idle"

\* The agents the callbacks wait for are serialised: such an agent belongs to
\* the tap that holds the lock, so a route that ended or was given up leaves
\* none behind that the next holder would find awaited.
AwaitedAgentsSerial == \A b \in agents \cap Ops : lock = b /\ stage[b] = "running"

\* One thing at a time: one route, its agent with it, and one operation with its
\* flag, through every order of taps, waits, timeouts and lapses (app.py:800-900).
OneAtATime ==
  RoutesExclusive /\ AwaitedAgentsSerial /\ NoOrphanFlag /\ SecondRefusedUntilLapse

\* The gate implements the queue of jobs that SerialJobs promises.
JobOf ==
  [b \in Buttons |-> CASE stage[b] = "idle" -> "idle"
                       [] stage[b] \in Holding -> "executing"
                       [] OTHER -> "accepted"]
Serial == INSTANCE SerialJobs WITH Jobs <- Buttons, job <- JobOf
SerialSpec == Serial!Spec

-----------------------------------------------------------------------------
(* What the repository says of the gate and the code does not keep.        *)

\* "one destructive action runs at a time": no agent runs beside the orphan
\* of another tap.
OneAgent == \A a \in agents \cap Ops : orphans \subseteq {a}
=============================================================================
