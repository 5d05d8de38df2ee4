---------------------------- MODULE ActionProofs ----------------------------
(***************************************************************************)
(* Proofs about an action on its way from the tap to the host: ActionGate, *)
(* the gate of the bot, for every set of buttons and inline values and     *)
(* every length of the timers, and XrayAgent, the root agent of the proxy  *)
(* core, for every set of payloads and any number of agents running at     *)
(* once.                                                                   *)
(***************************************************************************)
EXTENDS ActionGate, XrayAgent, TLAPS

-----------------------------------------------------------------------------
(* The gate.                                                                *)

LEMMA LessInRange == ASSUME NEW n \in Nat, NEW t \in 0..n PROVE Less(t) \in 0..n
  BY DEF Less

\* The shape of the state is kept by every step.
LEMMA GateTypeCorrect == GateSpec => []GateTypeOK
<1> USE GateConstants DEF GateTypeOK
<1>1. GateInit => GateTypeOK
  <2> SUFFICES ASSUME GateInit PROVE GateTypeOK
    OBVIOUS
  <2>1. lockq \in Seq(Buttons)
    BY DEF GateInit
  <2>2. TapLimit \in 0..TapLimit /\ 0 \in 0..BusyTtl /\ 0 \in 0..ActionTimeout
    OBVIOUS
  <2>3. QED
    BY <2>1, <2>2 DEF GateInit, Stages
<1>2. GateTypeOK /\ [GateNext]_gateVars => GateTypeOK'
  <2> SUFFICES ASSUME GateTypeOK, [GateNext]_gateVars PROVE GateTypeOK'
    OBVIOUS
  <2> USE DEF Move, Stages, aside, gate
  <2>1. ASSUME NEW b \in Buttons, Tap(b) PROVE GateTypeOK'
    BY <2>1 DEF Tap
  <2>2. ASSUME NEW b \in Buttons, Loaded(b) PROVE GateTypeOK'
    BY <2>2 DEF Loaded
  <2>3. ASSUME NEW b \in Buttons, TurnAway(b) PROVE GateTypeOK'
    BY <2>3 DEF TurnAway, FlagAfter
  <2>4. ASSUME NEW b \in Buttons, Enqueue(b) PROVE GateTypeOK'
    BY <2>4 DEF Enqueue
  <2>5. ASSUME NEW b \in Buttons, Acquire(b) PROVE GateTypeOK'
    BY <2>5 DEF Acquire
  <2>6. ASSUME NEW b \in Buttons, Grant(b) PROVE GateTypeOK'
    BY <2>6 DEF Grant
  <2>7. ASSUME NEW b \in Buttons, RouteDone(b) PROVE GateTypeOK'
    BY <2>7 DEF RouteDone
  <2>8. ASSUME NEW b \in Buttons, Stuck(b) PROVE GateTypeOK'
    BY <2>8 DEF Stuck
  <2>9. ASSUME NEW b \in Buttons, Settle(b) PROVE GateTypeOK'
    BY <2>9 DEF Settle, FlagAfter
  <2>10. ASSUME NEW b \in Buttons, StartAgent(b) \/ AgentEnds(b) \/ OrphanEnds(b)
         PROVE GateTypeOK'
    BY <2>10 DEF StartAgent, AgentEnds, OrphanEnds
  <2>11. ASSUME NEW i \in Inputs, InputStart(i) \/ InputEnds(i) \/ AgentEnds(i)
         PROVE GateTypeOK'
    BY <2>11 DEF InputStart, InputEnds, AgentEnds
  <2>12. CASE QuietEnds
    BY <2>12 DEF QuietEnds
  <2>13. CASE Tick
    <3>1. lapsed' \in BOOLEAN
      BY <2>13, Zenon DEF Tick
    <3>2. busyLeft' \in 0..BusyTtl /\ routeLeft' \in 0..ActionTimeout
      BY <2>13, LessInRange DEF Tick
    <3>3. taps' \in 0..TapLimit
      BY <2>13 DEF Tick
    <3>4. QED
      BY <2>13, <3>1, <3>2, <3>3, Zenon DEF Tick
  <2>14. CASE UNCHANGED gateVars
    BY <2>14 DEF gateVars
  <2>15. QED
    BY <2>1, <2>2, <2>3, <2>4, <2>5, <2>6, <2>7, <2>8, <2>9, <2>10, <2>11,
       <2>12, <2>13, <2>14 DEF GateNext, Job
<1>3. QED
  BY <1>1, <1>2, PTL DEF GateSpec

-----------------------------------------------------------------------------
\* What the three gate properties need together: the flag is on loan to an
\* operation in flight, and until it lapses that loan is never interrupted.
GateInv ==
  /\ RoutesExclusive
  /\ NoOrphanFlag
  /\ SecondRefusedUntilLapse
  /\ ~lapsed => \A b \in Ops : InFlight(b) => IsBusy

LEMMA GateInvInductive == GateTypeOK /\ GateInv /\ [GateNext]_gateVars => GateInv'
<1> SUFFICES ASSUME GateTypeOK, GateInv, [GateNext]_gateVars PROVE GateInv'
  OBVIOUS
<1> USE GateConstants DEF GateTypeOK, GateInv, RoutesExclusive, NoOrphanFlag,
        SecondRefusedUntilLapse, InFlight, IsBusy, Move, Holding, Buttons
<1>1. ASSUME NEW b \in Buttons, Tap(b) PROVE GateInv'
  BY <1>1 DEF Tap, OpAdmitted
<1>2. ASSUME NEW b \in Buttons, Loaded(b) PROVE GateInv'
  BY <1>2 DEF Loaded
<1>3. ASSUME NEW b \in Buttons, TurnAway(b) PROVE GateInv'
  BY <1>3 DEF TurnAway, FlagAfter, OpsBeside
<1>4. ASSUME NEW b \in Buttons, Enqueue(b) PROVE GateInv'
  BY <1>4 DEF Enqueue
<1>5. ASSUME NEW b \in Buttons, Acquire(b) PROVE GateInv'
  BY <1>5 DEF Acquire, MustWait
<1>6. ASSUME NEW b \in Buttons, Grant(b) PROVE GateInv'
  BY <1>6 DEF Grant
<1>7. ASSUME NEW b \in Buttons, RouteDone(b) PROVE GateInv'
  BY <1>7 DEF RouteDone
<1>8. ASSUME NEW b \in Buttons, Stuck(b) PROVE GateInv'
  BY <1>8 DEF Stuck
<1>9. ASSUME NEW b \in Buttons, Settle(b) PROVE GateInv'
  BY <1>9 DEF Settle, FlagAfter, OpsBeside
<1>10. ASSUME NEW b \in Buttons, StartAgent(b) \/ AgentEnds(b) \/ OrphanEnds(b)
       PROVE GateInv'
  BY <1>10 DEF StartAgent, AgentEnds, OrphanEnds, gate
<1>11. ASSUME NEW i \in Inputs, InputStart(i) \/ InputEnds(i) \/ AgentEnds(i)
       PROVE GateInv'
  BY <1>11 DEF InputStart, InputEnds, AgentEnds, gate
<1>12. CASE QuietEnds
  BY <1>12 DEF QuietEnds
<1>13. CASE Tick
  <2>1. IsBusy' <=> busyLeft # 0 /\ busyLeft # 1
    BY <1>13 DEF Tick, Less
  <2>2. IsBusy <=> busyLeft # 0
    OBVIOUS
  <2>3. stage' = stage /\ lock' = lock /\ (lapsed' <=> lapsed \/ busyLeft = 1)
    BY <1>13 DEF Tick
  <2>4. ~lapsed' => \A b \in Ops : InFlight(b)' => IsBusy'
    BY <2>1, <2>2, <2>3
  <2>5. QED
    BY <2>1, <2>2, <2>3, <2>4
<1>14. CASE UNCHANGED gateVars
  BY <1>14 DEF gateVars
<1>15. QED
  BY <1>1, <1>2, <1>3, <1>4, <1>5, <1>6, <1>7, <1>8, <1>9, <1>10, <1>11,
     <1>12, <1>13, <1>14 DEF GateNext, Job

LEMMA GateInvHolds == GateSpec => []GateInv
<1>1. GateInit => GateInv
  BY GateConstants DEF GateInit, GateInv, RoutesExclusive, NoOrphanFlag, Buttons,
     SecondRefusedUntilLapse, InFlight, IsBusy, Holding
<1>2. QED
  BY <1>1, GateInvInductive, GateTypeCorrect, PTL DEF GateSpec

\* Two routes never run at once: the tap inside the lock is the one it names.
THEOREM RoutesNeverOverlap == GateSpec => []RoutesExclusive
<1>1. GateInv => RoutesExclusive
  BY DEF GateInv
<1>2. QED
  BY <1>1, GateInvHolds, PTL

\* The busy flag is never left set behind the last operation.
THEOREM FlagIsNeverLeftBehind == GateSpec => []NoOrphanFlag
<1>1. GateInv => NoOrphanFlag
  BY DEF GateInv
<1>2. QED
  BY <1>1, GateInvHolds, PTL

\* Before the flag lapses no two operations are in flight.
THEOREM SecondIsRefused == GateSpec => []SecondRefusedUntilLapse
<1>1. GateInv => SecondRefusedUntilLapse
  BY DEF GateInv
<1>2. QED
  BY <1>1, GateInvHolds, PTL

-----------------------------------------------------------------------------
\* The agent an operation awaits belongs to the holder of the lock.
THEOREM AwaitedAgentsAreSerial == GateSpec => []AwaitedAgentsSerial
<1> USE GateConstants DEF AwaitedAgentsSerial, GateTypeOK, Buttons, Move
<1>1. GateInit => AwaitedAgentsSerial
  BY DEF GateInit
<1>2. GateTypeOK /\ RoutesExclusive /\ AwaitedAgentsSerial /\ [GateNext]_gateVars
        => AwaitedAgentsSerial'
  <2> SUFFICES ASSUME GateTypeOK, RoutesExclusive, AwaitedAgentsSerial, [GateNext]_gateVars
               PROVE AwaitedAgentsSerial'
    OBVIOUS
  <2> USE DEF RoutesExclusive, Holding, aside, gate
  <2>1. ASSUME NEW b \in Buttons, Tap(b) \/ Loaded(b) \/ TurnAway(b) \/ Enqueue(b)
        PROVE AwaitedAgentsSerial'
    BY <2>1 DEF Tap, Loaded, TurnAway, Enqueue
  <2>2. ASSUME NEW b \in Buttons, Acquire(b) \/ Grant(b)
        PROVE AwaitedAgentsSerial'
    BY <2>2 DEF Acquire, Grant, MustWait
  <2>3. ASSUME NEW b \in Buttons, RouteDone(b) \/ Stuck(b) \/ Settle(b)
        PROVE AwaitedAgentsSerial'
    BY <2>3 DEF RouteDone, Stuck, Settle, AgentOver
  <2>4. ASSUME NEW b \in Buttons, StartAgent(b) \/ AgentEnds(b) \/ OrphanEnds(b)
        PROVE AwaitedAgentsSerial'
    BY <2>4 DEF StartAgent, AgentEnds, OrphanEnds
  <2>5. ASSUME NEW i \in Inputs, InputStart(i) \/ InputEnds(i) \/ AgentEnds(i)
        PROVE AwaitedAgentsSerial'
    BY <2>5 DEF InputStart, InputEnds, AgentEnds
  <2>6. CASE QuietEnds \/ Tick
    BY <2>6 DEF QuietEnds, Tick
  <2>7. CASE UNCHANGED gateVars
    BY <2>7 DEF gateVars
  <2>8. QED
    BY <2>1, <2>2, <2>3, <2>4, <2>5, <2>6, <2>7 DEF GateNext, Job
<1>3. QED
  BY <1>1, <1>2, GateTypeCorrect, RoutesNeverOverlap, PTL DEF GateSpec
-----------------------------------------------------------------------------
\* One tap moves its own job, the rest stay where they are.
LEMMA JobMoves ==
  ASSUME stage \in [Buttons -> Stages], NEW b \in Buttons, NEW to \in Stages,
         stage' = [stage EXCEPT ![b] = to]
  PROVE  JobOf' = [JobOf EXCEPT ![b] = CASE to = "idle" -> "idle"
                                         [] to \in Holding -> "executing"
                                         [] OTHER -> "accepted"]
  BY DEF JobOf, Stages, Holding

\* The gate implements the serial queue of jobs: it never starts a job beside
\* another, and never ends or drops one that was not accepted.
THEOREM GateImplementsSerialJobs == GateSpec => SerialSpec
<1> USE GateConstants
<1>1. GateInit => Serial!Init
  <2> SUFFICES ASSUME GateInit PROVE Serial!Init
    OBVIOUS
  <2>1. \A b \in Buttons : stage[b] = "idle"
    BY DEF GateInit
  <2>2. QED
    BY <2>1 DEF JobOf, Holding, Serial!Init
<1>2. GateTypeOK /\ RoutesExclusive /\ [GateNext]_gateVars => [Serial!Next]_JobOf
  <2> SUFFICES ASSUME GateTypeOK, RoutesExclusive, [GateNext]_gateVars
               PROVE [Serial!Next]_JobOf
    OBVIOUS
  <2> USE DEF GateTypeOK, Move
  <2>0. ASSUME NEW b \in Buttons
        PROVE  /\ stage[b] = "idle" => JobOf[b] = "idle"
               /\ stage[b] \in {"loading", "task", "waiting"} => JobOf[b] = "accepted"
               /\ stage[b] \in Holding <=> JobOf[b] = "executing"
    BY DEF JobOf, Holding, Stages
  <2>1. ASSUME NEW b \in Buttons, Tap(b) PROVE Serial!Accept(b)
    <3>1. stage' = [stage EXCEPT ![b] = "loading"] /\ "loading" \in Stages
      BY <2>1 DEF Tap, Stages
    <3>2. JobOf' = [JobOf EXCEPT ![b] = "accepted"]
      BY <3>1, JobMoves DEF Holding
    <3>3. QED
      BY <2>0, <2>1, <3>2 DEF Tap, Serial!Accept
  <2>2. ASSUME NEW b \in Buttons, Loaded(b) \/ Enqueue(b) PROVE UNCHANGED JobOf
    BY <2>2 DEF Loaded, Enqueue, JobOf, Holding
  <2>3. ASSUME NEW b \in Buttons, TurnAway(b) PROVE Serial!Drop(b)
    <3>1. stage' = [stage EXCEPT ![b] = "idle"] /\ "idle" \in Stages
      BY <2>3 DEF TurnAway, Stages
    <3>2. JobOf' = [JobOf EXCEPT ![b] = "idle"]
      BY <3>1, JobMoves DEF Holding
    <3>3. QED
      BY <2>0, <2>3, <3>2 DEF TurnAway, Serial!Drop
  <2>4. ASSUME NEW b \in Buttons, Acquire(b) \/ Grant(b) PROVE Serial!Start(b)
    <3>1. stage' = [stage EXCEPT ![b] = "running"] /\ "running" \in Stages
      BY <2>4 DEF Acquire, Grant, Stages
    <3>2. JobOf' = [JobOf EXCEPT ![b] = "executing"]
      BY <3>1, JobMoves DEF Holding
    <3>3. \A k \in Buttons : stage[k] \notin Holding
      BY <2>4 DEF Acquire, Grant, MustWait, RoutesExclusive
    <3>4. stage[b] \in {"task", "waiting"}
      BY <2>4 DEF Acquire, Grant
    <3>5. QED
      BY <2>0, <3>2, <3>3, <3>4 DEF Serial!Start
  <2>5. ASSUME NEW b \in Buttons, RouteDone(b) \/ Stuck(b) PROVE UNCHANGED JobOf
    BY <2>5 DEF RouteDone, Stuck, JobOf, Holding
  <2>6. ASSUME NEW b \in Buttons, Settle(b) PROVE Serial!End(b)
    <3>1. stage' = [stage EXCEPT ![b] = "idle"] /\ "idle" \in Stages
      BY <2>6 DEF Settle, Stages
    <3>2. JobOf' = [JobOf EXCEPT ![b] = "idle"]
      BY <3>1, JobMoves DEF Holding
    <3>3. stage[b] \in Holding
      BY <2>6 DEF Settle, Holding
    <3>4. QED
      BY <2>0, <3>2, <3>3 DEF Serial!End
  <2>7. ASSUME NEW b \in Buttons, StartAgent(b) \/ AgentEnds(b) \/ OrphanEnds(b)
        PROVE UNCHANGED JobOf
    BY <2>7 DEF StartAgent, AgentEnds, OrphanEnds, gate, JobOf
  <2>8. ASSUME NEW i \in Inputs, InputStart(i) \/ InputEnds(i) \/ AgentEnds(i)
        PROVE UNCHANGED JobOf
    BY <2>8 DEF InputStart, InputEnds, AgentEnds, gate, JobOf
  <2>9. CASE QuietEnds \/ Tick \/ UNCHANGED gateVars
    BY <2>9 DEF QuietEnds, Tick, gateVars, JobOf
  <2>10. QED
    BY <2>1, <2>2, <2>3, <2>4, <2>5, <2>6, <2>7, <2>8, <2>9
       DEF GateNext, Job, Serial!Next
<1>3. QED
  BY <1>1, <1>2, GateTypeCorrect, RoutesNeverOverlap, PTL
     DEF GateSpec, SerialSpec, Serial!Spec

-----------------------------------------------------------------------------
\* One route, one awaited agent, one flag, one operation.
THEOREM OneThingAtATime == GateSpec => []OneAtATime
BY RoutesNeverOverlap, AwaitedAgentsAreSerial, FlagIsNeverLeftBehind, SecondIsRefused,
   PTL DEF OneAtATime

-----------------------------------------------------------------------------
(* The root agent.                                                          *)

\* The two halves of the type invariant: what outlives the agents, and the agents.
HostOK ==
  /\ core \in {"absent", "partial", "good"}
  /\ conf \in Files /\ bak \in Files /\ running \in Files
  /\ enabled \in BOOLEAN /\ wanted \in BOOLEAN
Replies == {"none", "ok", "refused", "internal", "start_failed", "restored"}
CallOK ==
  /\ pc \in [Agents -> Steps]
  /\ cmd \in [Agents -> Commands]
  /\ arg \in [Agents -> Files]
  /\ saved \in [Agents -> BOOLEAN]
  /\ before \in [Agents -> Files]
  /\ reply \in [Agents -> Replies]
StepsOK ==
  /\ \A a \in Agents : cmd[a] = "apply" => arg[a] \in Configs
  /\ \A a \in Agents : pc[a] \in {"fetch", "unpack", "copy"} => cmd[a] \in {"apply", "install"}
  /\ \A a \in Agents : pc[a] \in {"test", "backup", "write"} => cmd[a] = "apply"

LEMMA TypeParts == TypeOK <=> HostOK /\ CallOK /\ StepsOK
  BY DEF TypeOK, HostOK, CallOK, StepsOK, Replies
LEMMA TypePartsNext == HostOK' /\ CallOK' /\ StepsOK' => TypeOK'
  BY DEF TypeOK, HostOK, CallOK, StepsOK, Replies

\* Where agent a may stand, by its command.
FitsStep(a, s) ==
  /\ s \in Steps
  /\ s \in {"fetch", "unpack", "copy"} => cmd[a] \in {"apply", "install"}
  /\ s \in {"test", "backup", "write"} => cmd[a] = "apply"

LEMMA EnterTypes ==
  ASSUME TypeOK, NEW a \in Agents, NEW c \in Commands, NEW p \in Files, NEW f \in Steps,
         Enter(a, c, p, f),
         c = "apply" => p \in Configs,
         f \in {"fetch", "unpack", "copy"} => c \in {"apply", "install"},
         f \in {"test", "backup", "write"} => c = "apply"
  PROVE  TypeOK'
  <1>0. CallOK
    BY TypeParts
  <1>1. CallOK'
    <2>1. pc' \in [Agents -> Steps]
      BY <1>0 DEF Enter, Step, CallOK, Steps
    <2>2. cmd' \in [Agents -> Commands] /\ arg' \in [Agents -> Files]
      BY <1>0 DEF Enter, CallOK
    <2>3. saved' \in [Agents -> BOOLEAN]
      BY <1>0 DEF Enter, CallOK
    <2>4. conf \in Files
      BY TypeParts DEF HostOK
    <2>5. before' \in [Agents -> Files]
      BY <1>0, <2>4 DEF Enter, CallOK
    <2>6. reply' \in [Agents -> Replies]
      BY <1>0 DEF Enter, CallOK, Replies
    <2>7. QED
      BY <2>1, <2>2, <2>3, <2>5, <2>6 DEF CallOK
  <1>2. StepsOK'
    BY TypeParts DEF Enter, Step, CallOK, StepsOK
  <1>3. HostOK'
    BY TypeParts DEF Enter, host, HostOK
  <1>4. QED
    BY <1>1, <1>2, <1>3, TypePartsNext

\* An agent that moves on to a step its command allows.
LEMMA StepTypes ==
  ASSUME TypeOK, NEW a \in Agents, NEW f, NEW s, FitsStep(a, s), Step(a, f, s),
         reply' \in [Agents -> Replies], UNCHANGED <<cmd, arg, before>>,
         saved' \in [Agents -> BOOLEAN], HostOK'
  PROVE  TypeOK'
  <1>1. CallOK'
    BY TypeParts DEF Step, CallOK, FitsStep
  <1>2. StepsOK'
    BY TypeParts DEF Step, CallOK, StepsOK, FitsStep
  <1>3. QED
    BY <1>1, <1>2, TypePartsNext

LEMMA GoTypes ==
  ASSUME TypeOK, NEW a \in Agents, NEW f, NEW s, FitsStep(a, s), Go(a, f, s),
         UNCHANGED <<cmd, arg, before>>, saved' \in [Agents -> BOOLEAN], HostOK'
  PROVE  TypeOK'
  <1>1. reply' \in [Agents -> Replies]
    BY TypeParts DEF Go, CallOK
  <1>2. QED
    BY <1>1, StepTypes DEF Go

LEMMA AnswerTypes ==
  ASSUME TypeOK, NEW a \in Agents, NEW f, NEW w \in Replies, Answer(a, f, w),
         UNCHANGED call, HostOK'
  PROVE  TypeOK'
  <1>1. reply' \in [Agents -> Replies] /\ UNCHANGED <<cmd, arg, before>>
    BY TypeParts DEF Answer, CallOK, call
  <1>2. saved' \in [Agents -> BOOLEAN]
    BY TypeParts DEF CallOK, call
  <1>3. FitsStep(a, "idle")
    BY DEF FitsStep, Steps
  <1>4. QED
    BY <1>1, <1>2, <1>3, StepTypes DEF Answer

\* What most steps do: go on or answer, with the call as it was.
LEMMA MoveTypes ==
  ASSUME TypeOK, NEW a \in Agents, UNCHANGED call, HostOK',
         \/ \E f, s \in Steps : FitsStep(a, s) /\ Go(a, f, s)
         \/ \E f \in Steps, w \in Replies : Answer(a, f, w)
  PROVE  TypeOK'
  <1>1. CASE \E f, s \in Steps : FitsStep(a, s) /\ Go(a, f, s)
    <2>1. PICK f \in Steps, s \in Steps : FitsStep(a, s) /\ Go(a, f, s)
      BY <1>1
    <2>2. UNCHANGED <<cmd, arg, before>> /\ saved' \in [Agents -> BOOLEAN]
      BY TypeParts DEF call, CallOK
    <2>3. QED
      BY <2>1, <2>2, GoTypes
  <1>2. CASE \E f \in Steps, w \in Replies : Answer(a, f, w)
    BY <1>2, AnswerTypes
  <1>3. QED
    BY <1>1, <1>2

\* The command of an agent that stands at a step of install or apply.
LEMMA AtStep ==
  ASSUME TypeOK, NEW a \in Agents
  PROVE  /\ cmd[a] \in Commands
         /\ pc[a] \in {"fetch", "unpack", "copy"} => cmd[a] \in {"apply", "install"}
         /\ pc[a] \in {"test", "backup", "write"} => cmd[a] = "apply"
  BY TypeParts DEF CallOK, StepsOK

\* The shape of the state is kept by every step of every agent.
LEMMA TypeCorrect == Spec => []TypeOK
<1> USE AgentConstants
<1>1. Init => TypeOK
  <2> SUFFICES ASSUME Init PROVE TypeOK
    OBVIOUS
  <2>1. saved \in [Agents -> BOOLEAN] /\ enabled \in BOOLEAN /\ wanted \in BOOLEAN
    BY Zenon DEF Init
  <2>2. QED
    BY <2>1 DEF Init, TypeOK, Files, Commands, Steps
<1>2. TypeOK /\ [Next]_vars => TypeOK'
  <2> SUFFICES ASSUME TypeOK, [Next]_vars PROVE TypeOK'
    OBVIOUS
  <2>0. HostOK
    BY TypeParts
  <2>1. ASSUME NEW a \in Agents, NEW c \in Configs, Apply(a, c) PROVE TypeOK'
    BY <2>1, EnterTypes DEF Apply, Commands, Steps, Files
  <2>2. ASSUME NEW a \in Agents, Install(a) \/ Restart(a) \/ Start(a) \/ Stop(a)
        PROVE TypeOK'
    BY <2>2, EnterTypes DEF Install, Restart, Start, Stop, Commands, Steps, Files
  <2>3. ASSUME NEW a \in Agents, Uninstall(a) PROVE TypeOK'
    BY <2>3, EnterTypes DEF Uninstall, Commands, Steps, Files
  <2>4. ASSUME NEW a \in Agents, Fetch(a) PROVE TypeOK'
    <3>1. HostOK' /\ UNCHANGED call
      BY <2>0, <2>4 DEF Fetch, host, HostOK
    <3>2. pc[a] = "fetch"
      BY <2>4 DEF Fetch, Proceed, Go, Answer, Step
    <3>3. QED
      BY <2>4, <3>1, <3>2, AtStep, MoveTypes DEF Fetch, Proceed, FitsStep, Steps, Replies
  <2>5. ASSUME NEW a \in Agents, OpenCore(a) PROVE TypeOK'
    <3>1. HostOK' /\ UNCHANGED call
      BY <2>0, <2>5 DEF OpenCore, HostOK
    <3>2. pc[a] = "unpack"
      BY <2>5 DEF OpenCore, Go, Answer, Step
    <3>3. QED
      BY <2>5, <3>1, <3>2, AtStep, MoveTypes DEF OpenCore, FitsStep, Steps, Replies
  <2>6. ASSUME NEW a \in Agents, Copy(a) PROVE TypeOK'
    <3>1. HostOK' /\ UNCHANGED call
      BY <2>0, <2>6 DEF Copy, HostOK
    <3>2. pc[a] = "copy"
      BY <2>6 DEF Copy, Proceed, Go, Answer, Step
    <3>3. QED
      BY <2>6, <3>1, <3>2, AtStep, MoveTypes DEF Copy, Proceed, FitsStep, Steps, Replies
  <2>7. ASSUME NEW a \in Agents, Test(a) PROVE TypeOK'
    <3>1. HostOK' /\ UNCHANGED call
      BY <2>0, <2>7 DEF Test, host, HostOK
    <3>2. pc[a] = "test"
      BY <2>7 DEF Test, Go, Answer, Step
    <3>3. QED
      BY <2>7, <3>1, <3>2, AtStep, MoveTypes DEF Test, FitsStep, Steps, Replies
  <2>8. ASSUME NEW a \in Agents, Backup(a) PROVE TypeOK'
    <3>1. HostOK' /\ UNCHANGED <<cmd, arg, before>>
      BY <2>0, <2>8 DEF Backup, HostOK
    <3>2. pc[a] = "backup"
      BY <2>8 DEF Backup, Go, Step
    <3>3. saved' \in [Agents -> BOOLEAN]
      BY <2>8, TypeParts DEF Backup, CallOK
    <3>4. FitsStep(a, "write")
      BY <3>2, AtStep DEF FitsStep, Steps
    <3>5. QED
      BY <2>8, <3>1, <3>3, <3>4, GoTypes DEF Backup
  <2>9. ASSUME NEW a \in Agents, Write(a) PROVE TypeOK'
    <3>1. HostOK' /\ UNCHANGED call
      BY <2>0, <2>9, TypeParts DEF Write, HostOK, CallOK
    <3>2. QED
      BY <2>9, <3>1, MoveTypes DEF Write, FitsStep, Steps, Replies
  <2>10. ASSUME NEW a \in Agents, StopCore(a) PROVE TypeOK'
    <3>1. HostOK' /\ UNCHANGED call
      BY <2>0, <2>10 DEF StopCore, HostOK, Files
    <3>2. QED
      BY <2>10, <3>1, MoveTypes DEF StopCore, FitsStep, Steps, Replies
  <2>11. ASSUME NEW a \in Agents, Remove(a) PROVE TypeOK'
    <3>1. HostOK' /\ UNCHANGED call
      BY <2>0, <2>11 DEF Remove, HostOK, Files
    <3>2. QED
      BY <2>11, <3>1, MoveTypes DEF Remove, Steps, Replies
  <2>12. ASSUME NEW a \in Agents, StartCore(a) PROVE TypeOK'
    <3>1. UNCHANGED call /\ Started \in Files
      BY <2>0, <2>12 DEF StartCore, Started, HostOK, Files
    <3>2. HostOK'
      BY <2>0, <2>12, <3>1 DEF StartCore, HostOK, Files
    <3>3. FitsStep(a, "verdict")
      BY DEF FitsStep, Steps
    <3>4. \/ \E f, s \in Steps : FitsStep(a, s) /\ Go(a, f, s)
          \/ \E f \in Steps, w \in Replies : Answer(a, f, w)
      BY <2>12, <3>3 DEF StartCore, Steps, Replies
    <3>5. QED
      BY <3>1, <3>2, <3>4, MoveTypes
  <2>13. ASSUME NEW a \in Agents, Verdict(a) PROVE TypeOK'
    <3>1. HostOK' /\ UNCHANGED call
      BY <2>0, <2>13 DEF Verdict, host, HostOK
    <3>2. QED
      BY <2>13, <3>1, MoveTypes DEF Verdict, FitsStep, Steps, Replies
  <2>14. ASSUME NEW a \in Agents, Restore(a) PROVE TypeOK'
    <3>1. HostOK' /\ UNCHANGED call
      BY <2>0, <2>14 DEF Restore, RestoredFile, HostOK
    <3>2. QED
      BY <2>14, <3>1, MoveTypes DEF Restore, FitsStep, Steps, Replies
  <2>15. ASSUME NEW a \in Agents, Kill(a) PROVE TypeOK'
    <3>1. HostOK' /\ UNCHANGED <<cmd, arg, before, saved>>
      BY <2>0, <2>15 DEF Kill, host, call, HostOK
    <3>2. CallOK'
      BY <2>15, <3>1, TypeParts DEF Kill, Go, Answer, Step, CallOK, Steps, Replies
    <3>3. StepsOK'
      BY <2>15, <3>1, TypeParts DEF Kill, Go, Answer, Step, CallOK, StepsOK
    <3>4. QED
      BY <3>1, <3>2, <3>3, TypePartsNext
  <2>16. CASE (Crash \/ SystemdRestarts) /\ UNCHANGED <<call, pc, reply>>
    <3>1. HostOK'
      BY <2>0, <2>16 DEF Crash, SystemdRestarts, Started, HostOK, Files
    <3>2. CallOK' /\ StepsOK'
      BY <2>16, TypeParts DEF CallOK, StepsOK, call
    <3>3. QED
      BY <3>1, <3>2, TypePartsNext
  <2>17. CASE Reboot
    <3>1. HostOK'
      BY <2>0, <2>17 DEF Reboot, Started, HostOK, Files
    <3>2. CallOK' /\ StepsOK'
      BY <2>17, TypeParts DEF Reboot, CallOK, StepsOK, call, Steps, Replies
    <3>3. QED
      BY <3>1, <3>2, TypePartsNext
  <2>18. CASE UNCHANGED vars
    BY <2>18 DEF vars, TypeOK
  <2>19. QED
    BY <2>1, <2>2, <2>3, <2>4, <2>5, <2>6, <2>7, <2>8, <2>9, <2>10, <2>11, <2>12,
       <2>13, <2>14, <2>15, <2>16, <2>17, <2>18 DEF Next
<1>3. QED
  BY <1>1, <1>2, PTL DEF Spec

-----------------------------------------------------------------------------
(* FilesAreTested is not inductive: between the test and the write the     *)
(* payload is only in the memory of its agent.                             *)

FilesInv ==
  /\ FilesAreTested
  /\ \A a \in Agents : pc[a] \in {"backup", "write"} => arg[a] \in Accepted

\* No kill, crash, reboot or overlap of agents puts an untested file into
\* config.json or its backup.
THEOREM FilesStayTested == Spec => []FilesAreTested
<1> USE DEF FilesInv, FilesAreTested
<1>1. Init => FilesInv
  BY DEF Init
<1>2. TypeOK /\ FilesInv /\ [Next]_vars => FilesInv'
  <2> SUFFICES ASSUME TypeOK, FilesInv, [Next]_vars PROVE FilesInv'
    OBVIOUS
  <2> USE DEF Go, Answer, Step, host, call
  <2> pc \in [Agents -> Steps] /\ arg \in [Agents -> Files]
    BY DEF TypeOK
  <2>1. ASSUME NEW a \in Agents, NEW c \in Commands, NEW p \in Files, NEW f \in Steps,
               f \notin {"backup", "write"}, Enter(a, c, p, f)
        PROVE FilesInv'
    BY <2>1 DEF Enter
  <2>2. ASSUME NEW a \in Agents, NEW c \in Configs, Apply(a, c) PROVE FilesInv'
    BY <2>1, <2>2 DEF Apply, Commands, Steps, Files
  <2>3. ASSUME NEW a \in Agents, Install(a) \/ Restart(a) \/ Start(a) \/ Stop(a)
        PROVE FilesInv'
    BY <2>1, <2>3 DEF Install, Restart, Start, Stop, Commands, Steps, Files
  <2>4. ASSUME NEW a \in Agents, Uninstall(a) PROVE FilesInv'
    BY <2>1, <2>4 DEF Uninstall, Commands, Steps, Files
  <2>5. ASSUME NEW a \in Agents, Fetch(a) \/ OpenCore(a) \/ Copy(a) PROVE FilesInv'
    BY <2>5 DEF Fetch, OpenCore, Copy, Proceed
  <2>6. ASSUME NEW a \in Agents, Test(a) PROVE FilesInv'
    BY <2>6 DEF Test, TestPasses
  <2>7. ASSUME NEW a \in Agents, Backup(a) PROVE FilesInv'
    BY <2>7 DEF Backup
  <2>8. ASSUME NEW a \in Agents, Write(a) PROVE FilesInv'
    BY <2>8 DEF Write
  <2>9. ASSUME NEW a \in Agents, StopCore(a) PROVE FilesInv'
    BY <2>9 DEF StopCore
  <2>10. ASSUME NEW a \in Agents, Remove(a) PROVE FilesInv'
    BY <2>10 DEF Remove
  <2>11. ASSUME NEW a \in Agents, StartCore(a) \/ Verdict(a) PROVE FilesInv'
    BY <2>11 DEF StartCore, Started, Verdict
  <2>12. ASSUME NEW a \in Agents, Restore(a) PROVE FilesInv'
    BY <2>12 DEF Restore, RestoredFile
  <2>13. ASSUME NEW a \in Agents, Kill(a) PROVE FilesInv'
    BY <2>13 DEF Kill
  <2>14. CASE (Crash \/ SystemdRestarts) /\ UNCHANGED <<call, pc, reply>>
    BY <2>14 DEF Crash, SystemdRestarts
  <2>15. CASE Reboot
    BY <2>15 DEF Reboot
  <2>16. CASE UNCHANGED vars
    BY <2>16 DEF vars
  <2>17. QED
    BY <2>2, <2>3, <2>4, <2>5, <2>6, <2>7, <2>8, <2>9, <2>10, <2>11, <2>12,
       <2>13, <2>14, <2>15, <2>16 DEF Next
<1>3. QED
  BY <1>1, <1>2, TypeCorrect, PTL DEF Spec

-----------------------------------------------------------------------------
(* What an apply means for the agent that makes it.  Both facts need the   *)
(* agent to be alone on the host: two agents share the files, the backup   *)
(* and the unit, and nothing in the code keeps them apart.                 *)

Alone == \E a \in Agents : Agents = {a}

\* What an apply in progress knows of the files it has not touched yet, of
\* those it has, and of the core it started.
ApplyInv ==
  \A a \in Agents :
    /\ pc[a] = "verdict" => cmd[a] = "apply"
    /\ pc[a] = "remove" => cmd[a] # "apply"
    /\ pc[a] \in {"fetch", "unpack", "copy", "test", "backup", "write"} =>
         conf = before[a]
    /\ pc[a] \in {"fetch", "unpack", "copy", "test", "backup"} => ~saved[a]
    /\ saved[a] /\ pc[a] \in {"write", "stop", "start", "verdict", "restore"} =>
         bak = before[a]
    /\ cmd[a] = "apply" /\ pc[a] \in {"stop", "start", "verdict"} => conf = arg[a]
    /\ pc[a] = "verdict" /\ running # NoConf => running = conf

\* An apply in progress always finds the host as its own steps left it.
LEMMA ApplyInvHolds == ASSUME Alone PROVE Spec => []ApplyInv
<1> USE DEF ApplyInv
<1>1. Init => ApplyInv
  BY Zenon DEF Init
<1>2. TypeOK /\ ApplyInv /\ [Next]_vars => ApplyInv'
  <2> SUFFICES ASSUME TypeOK, ApplyInv, [Next]_vars PROVE ApplyInv'
    OBVIOUS
  <2> USE DEF Go, Answer, Step, host, call
  <2> pc \in [Agents -> Steps] /\ arg \in [Agents -> Files] /\ cmd \in [Agents -> Commands]
      /\ before \in [Agents -> Files] /\ saved \in [Agents -> BOOLEAN]
    BY DEF TypeOK
  <2>0. ASSUME NEW a \in Agents, NEW b \in Agents PROVE a = b
    BY Alone DEF Alone
  <2>1. ASSUME NEW a \in Agents, NEW c \in Commands, NEW p \in Files,
               NEW f \in {"fetch", "test", "stop", "start"},
               c = "apply" => f \in {"fetch", "test"}, Enter(a, c, p, f)
        PROVE ApplyInv'
    BY <2>0, <2>1 DEF Enter
  <2>2. ASSUME NEW a \in Agents, NEW c \in Configs, Apply(a, c) PROVE ApplyInv'
    BY <2>1, <2>2 DEF Apply, Commands, Files
  <2>3. ASSUME NEW a \in Agents, Install(a) \/ Restart(a) \/ Start(a) \/ Stop(a)
        PROVE ApplyInv'
    BY <2>1, <2>3 DEF Install, Restart, Start, Stop, Commands, Files
  <2>4. ASSUME NEW a \in Agents, Uninstall(a) PROVE ApplyInv'
    BY <2>1, <2>4 DEF Uninstall, Commands, Files
  <2>5. ASSUME NEW a \in Agents, Fetch(a) \/ OpenCore(a) \/ Copy(a) PROVE ApplyInv'
    BY <2>0, <2>5 DEF Fetch, OpenCore, Copy, Proceed
  <2>6. ASSUME NEW a \in Agents, Test(a) PROVE ApplyInv'
    BY <2>0, <2>6 DEF Test
  <2>7. ASSUME NEW a \in Agents, Backup(a) PROVE ApplyInv'
    BY <2>0, <2>7 DEF Backup
  <2>8. ASSUME NEW a \in Agents, Write(a) PROVE ApplyInv'
    BY <2>0, <2>8 DEF Write
  <2>9. ASSUME NEW a \in Agents, StopCore(a) PROVE ApplyInv'
    BY <2>0, <2>9 DEF StopCore
  <2>10. ASSUME NEW a \in Agents, Remove(a) PROVE ApplyInv'
    BY <2>0, <2>10 DEF Remove
  <2>11. ASSUME NEW a \in Agents, StartCore(a) PROVE ApplyInv'
    <3>1. UNCHANGED <<core, conf, bak, cmd, arg, saved, before>>
      BY <2>11 DEF StartCore
    <3>2. pc[a] \in {"start", "restart"} /\ \A b \in Agents : b = a
      BY <2>0, <2>11 DEF StartCore
    <3>3. \/ cmd[a] = "apply" /\ pc[a] = "start" /\ pc'[a] = "verdict" /\ running' = Started
          \/ pc'[a] = "idle"
      BY <2>11 DEF StartCore
    <3>4. Started \in {conf, NoConf}
      BY DEF Started
    <3>5. QED
      BY <3>1, <3>2, <3>3, <3>4
  <2>12. ASSUME NEW a \in Agents, Verdict(a) PROVE ApplyInv'
    BY <2>0, <2>12 DEF Verdict
  <2>13. ASSUME NEW a \in Agents, Restore(a) PROVE ApplyInv'
    BY <2>0, <2>13 DEF Restore, RestoredFile
  <2>14. ASSUME NEW a \in Agents, Kill(a) PROVE ApplyInv'
    BY <2>0, <2>14 DEF Kill
  <2>15. CASE (Crash \/ SystemdRestarts) /\ UNCHANGED <<call, pc, reply>>
    BY <2>15 DEF Crash, SystemdRestarts
  <2>16. CASE Reboot
    BY <2>16 DEF Reboot
  <2>17. CASE UNCHANGED vars
    BY <2>17 DEF vars
  <2>18. QED
    BY <2>2, <2>3, <2>4, <2>5, <2>6, <2>7, <2>8, <2>9, <2>10, <2>11, <2>12,
       <2>13, <2>14, <2>15, <2>16, <2>17 DEF Next
<1>3. QED
  BY <1>1, <1>2, TypeCorrect, PTL DEF Spec

\* A rollback puts back the configuration the apply found.
THEOREM RollbackRestores == ASSUME Alone PROVE Spec => RestoredIsPrevious
<1>1. TypeOK /\ ApplyInv /\ [Next]_vars =>
        [\A a \in Agents : pc[a] = "restore" /\ pc'[a] = "restop" /\ saved[a]
                             => conf' = before[a]]_vars
  <2> SUFFICES ASSUME TypeOK, ApplyInv, Next, NEW a \in Agents,
                      pc[a] = "restore", pc'[a] = "restop", saved[a]
               PROVE conf' = before[a]
    BY DEF vars
  <2> USE DEF Go, Answer, Step
  <2> pc \in [Agents -> Steps]
    BY DEF TypeOK
  <2>0. ASSUME NEW b \in Agents PROVE a = b
    BY Alone DEF Alone
  <2>1. Restore(a)
    <3>1. ~(\E c \in Configs : Apply(a, c)) /\ ~Install(a) /\ ~Restart(a) /\ ~Start(a)
          /\ ~Stop(a) /\ ~Uninstall(a)
      BY DEF Apply, Install, Restart, Start, Stop, Uninstall, Enter
    <3>2. ~Fetch(a) /\ ~OpenCore(a) /\ ~Copy(a)
      BY DEF Fetch, OpenCore, Copy, Proceed
    <3>3. ~Test(a) /\ ~Backup(a) /\ ~Write(a)
      BY DEF Test, Backup, Write
    <3>4. ~StopCore(a) /\ ~Remove(a) /\ ~StartCore(a) /\ ~Verdict(a)
      BY DEF StopCore, Remove, StartCore, Verdict
    <3>5. ~Kill(a) /\ pc' # pc /\ ~Reboot
      BY DEF Kill, Reboot
    <3>6. QED
      BY <2>0, <3>1, <3>2, <3>3, <3>4, <3>5 DEF Next
  <2>2. bak = before[a]
    BY DEF ApplyInv
  <2>3. QED
    BY <2>1, <2>2 DEF Restore, RestoredFile
<1>2. QED
  BY <1>1, TypeCorrect, ApplyInvHolds, PTL DEF Spec, RestoredIsPrevious

\* An apply that answers ok has its payload on disk and in the running core.
THEOREM OkIsLive == ASSUME Alone PROVE Spec => OkMeansLive
<1>1. TypeOK /\ ApplyInv /\ [Next]_vars =>
        [\A a \in Agents : cmd[a] = "apply" /\ reply[a] # "ok" /\ reply'[a] = "ok"
                             => conf = arg[a] /\ running = arg[a]]_vars
  <2> SUFFICES ASSUME TypeOK, ApplyInv, Next, NEW a \in Agents,
                      cmd[a] = "apply", reply[a] # "ok", reply'[a] = "ok"
               PROVE conf = arg[a] /\ running = arg[a]
    BY DEF vars
  <2> USE DEF Go, Answer, Step
  <2> pc \in [Agents -> Steps] /\ reply \in [Agents -> {"none", "ok", "refused", "internal",
                                                     "start_failed", "restored"}]
    BY DEF TypeOK
  <2>0. ASSUME NEW b \in Agents PROVE a = b
    BY Alone DEF Alone
  <2>1. pc[a] # "remove"
    BY DEF ApplyInv
  <2>2. Verdict(a) /\ ServiceUp /\ pc[a] = "verdict"
    <3>1. ~(\E c \in Configs : Apply(a, c)) /\ ~Install(a) /\ ~Restart(a) /\ ~Start(a)
          /\ ~Stop(a) /\ ~Uninstall(a)
      BY DEF Apply, Install, Restart, Start, Stop, Uninstall, Enter
    <3>2. ~Fetch(a) /\ ~OpenCore(a) /\ ~Copy(a)
      BY DEF Fetch, OpenCore, Copy, Proceed
    <3>3. ~Test(a) /\ ~Backup(a) /\ ~Write(a)
      BY DEF Test, Backup, Write
    <3>4. ~StopCore(a) /\ ~Remove(a) /\ ~Restore(a)
      BY <2>1 DEF StopCore, Remove, Restore
    <3>5. ~StartCore(a)
      BY DEF StartCore
    <3>6. ~Kill(a) /\ reply' # reply /\ ~Reboot
      BY DEF Kill, Reboot
    <3>7. Verdict(a)
      BY <2>0, <3>1, <3>2, <3>3, <3>4, <3>5, <3>6 DEF Next
    <3>8. QED
      BY <3>7 DEF Verdict
  <2>3. QED
    BY <2>2 DEF ApplyInv, ServiceUp
<1>2. QED
  BY <1>1, TypeCorrect, ApplyInvHolds, PTL DEF Spec, OkMeansLive
=============================================================================
