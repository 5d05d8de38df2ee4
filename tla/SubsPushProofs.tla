--------------------------- MODULE SubsPushProofs ---------------------------
(***************************************************************************)
(* Proofs about SubsPush for any registries, ports and number of agents.   *)
(*                                                                         *)
(* The lemmas on the table of agents say what a launch, an end and a step  *)
(* change; every action is one of these three, or leaves the table alone.  *)
(***************************************************************************)
EXTENDS SubsPush, TLAPS

Agent == [step : Steps, reg : Registry \cup {None}, alone : BOOLEAN]
Asks == {"open", "fill", "stop", "remove"}

LEMMA WithFacts ==
  ASSUME NEW table \in [Procs -> Agent], NEW q \in Procs,
         NEW s \in Steps, NEW r \in Registry \cup {None}
  PROVE  /\ With(table, q, s, r) \in [Procs -> Agent]
         /\ With(table, q, s, r)[q].step = s
         /\ With(table, q, s, r)[q].reg = r
         /\ \A p \in Procs \ {q} : /\ With(table, q, s, r)[p].step = table[p].step
                                   /\ With(table, q, s, r)[p].reg = table[p].reg
                                   /\ ~With(table, q, s, r)[p].alone
         /\ With(table, q, s, r)[q].alone =>
              \A p \in Procs \ {q} : table[p].step = "none"
  <1> DEFINE solo == \A o \in Procs \ {q} : table[o].step = "none"
  <1>1. solo \in BOOLEAN
    OBVIOUS
  <1>2. With(table, q, s, r) =
          [p \in Procs |-> IF p = q THEN [step |-> s, reg |-> r, alone |-> solo]
                                    ELSE [table[p] EXCEPT !.alone = FALSE]]
    BY DEF With
  <1> HIDE DEF solo
  <1>3. [step |-> s, reg |-> r, alone |-> solo] \in Agent
    BY <1>1 DEF Agent
  <1>4. \A p \in Procs : [table[p] EXCEPT !.alone = FALSE] \in Agent
    BY DEF Agent
  <1>5. With(table, q, s, r) \in [Procs -> Agent]
    BY <1>2, <1>3, <1>4
  <1>6. With(table, q, s, r)[q].alone => solo
    BY <1>2
  <1>7. \A p \in Procs \ {q} : /\ With(table, q, s, r)[p].step = table[p].step
                               /\ With(table, q, s, r)[p].reg = table[p].reg
                               /\ ~With(table, q, s, r)[p].alone
    BY <1>2 DEF Agent
  <1>8. QED
    BY <1>2, <1>5, <1>6, <1>7 DEF solo

LEMMA WithoutFacts ==
  ASSUME agents \in [Procs -> Agent], NEW q \in Procs
  PROVE  /\ Without(q) \in [Procs -> Agent]
         /\ Without(q)[q] = Dead
         /\ \A p \in Procs \ {q} : Without(q)[p] = agents[p]
  <1>1. Dead \in Agent
    BY DEF Dead, Agent, Steps
  <1>2. QED
    BY <1>1 DEF Without

LEMMA GotoFacts ==
  ASSUME agents \in [Procs -> Agent], NEW q \in Procs, NEW s \in Steps, Goto(q, s)
  PROVE  /\ agents' \in [Procs -> Agent]
         /\ agents'[q].step = s
         /\ agents'[q].reg = agents[q].reg
         /\ agents'[q].alone = agents[q].alone
         /\ \A p \in Procs \ {q} : agents'[p] = agents[p]
  BY DEF Goto, Agent

\* What a step of agent q does to the table: it moves on, or it has answered.
Moves(q, s) ==
  \/ /\ agents'[q].step = s /\ agents'[q].reg = agents[q].reg
     /\ agents'[q].alone = agents[q].alone
     /\ s \in {"ok", "err"} => awaited = q
  \/ agents'[q] = Dead /\ s \in {"ok", "err"} /\ awaited # q

LEMMA AnswerFacts ==
  ASSUME agents \in [Procs -> Agent], NEW q \in Procs,
         NEW s \in {"ok", "err"}, Answer(q, s)
  PROVE  /\ agents' \in [Procs -> Agent]
         /\ Moves(q, s)
         /\ \A p \in Procs \ {q} : agents'[p] = agents[p]
  <1>0. s \in Steps
    BY DEF Steps
  <1>1. CASE awaited = q
    BY <1>0, <1>1, GotoFacts DEF Answer, Moves
  <1>2. CASE awaited # q
    BY <1>2, WithoutFacts DEF Answer, Moves
  <1>3. QED
    BY <1>1, <1>2

(***************************************************************************)
(* The type invariant, in two halves: values, and the table of agents with *)
(* the job that waits for one of them.                                     *)
(***************************************************************************)
ValuesOK ==
  /\ cfg \in Registry /\ digest \in Registry \cup {None}
  /\ enabled \in BOOLEAN /\ domain \in BOOLEAN /\ handed \subseteq Registry
  /\ file \in Registry \cup {None}
  /\ server \in {"absent", "torn", "good"}
  /\ unit \in Ports \cup {None} /\ up \in Ports \cup {None}
  /\ wanted \in Ports \cup {None} /\ stranger \in Taken \cup {None}

TableOK ==
  /\ job \in Jobs /\ awaited \in Procs \cup {None}
  /\ agents \in [Procs -> Agent]
  /\ job \in {"free", "push"} <=> awaited = None
  /\ \A q \in Procs : agents[q].step \in {"ok", "err"} => awaited = q
  /\ awaited # None => agents[awaited].step # "none"
  /\ \A q \in Procs : agents[q].step \in SyncSteps => agents[q].reg \in Registry
  /\ \A q \in Procs : agents[q].step \in Asks => agents[q].reg = None
  /\ job \in {"apply", "pushing"} => agents[awaited].reg \in Registry

LEMMA TypeParts == TypeOK <=> ValuesOK /\ TableOK
  BY DEF TypeOK, ValuesOK, TableOK, Agent, Asks

LEMMA TypePartsNext == TypeOK' <=> ValuesOK' /\ TableOK'
  BY DEF TypeOK, ValuesOK, TableOK, Agent, Asks

\* A call that starts: the job waits for agent q, and nobody else was awaited.
LEMMA LaunchTable ==
  ASSUME NEW table \in [Procs -> Agent], NEW q \in Procs, NEW s \in {"open", "write", "stop"},
         NEW r \in Registry \cup {None}, NEW then \in Jobs \ {"free", "push"},
         Launch(table, q, s, r, then),
         s = "write" => r \in Registry,
         s # "write" => r = None,
         then \in {"apply", "pushing"} => s = "write",
         \A p \in Procs : table[p].step \notin {"ok", "err"},
         \A p \in Procs : table[p].step \in SyncSteps => table[p].reg \in Registry,
         \A p \in Procs : table[p].step \in Asks => table[p].reg = None
  PROVE  TableOK'
  <1>1. s \in Steps
    BY DEF Steps, SyncSteps
  <1>2. /\ agents' \in [Procs -> Agent]
        /\ agents'[q].step = s /\ agents'[q].reg = r
        /\ \A p \in Procs \ {q} : /\ agents'[p].step = table[p].step
                                  /\ agents'[p].reg = table[p].reg
    BY <1>1, WithFacts DEF Launch
  <1>3. awaited' = q /\ job' = then /\ q # None
    BY SubsConstants DEF Launch
  <1>4. QED
    BY <1>2, <1>3 DEF TableOK, Jobs, SyncSteps, Asks

\* A call that ends with its agent: the job goes on alone.
LEMMA EndTable ==
  ASSUME TableOK, awaited # None, NEW then \in {"free", "push"},
         agents' = Without(awaited), Resume(then)
  PROVE  TableOK'
  <1>1. awaited \in Procs
    BY DEF TableOK
  <1>2. /\ agents' \in [Procs -> Agent]
        /\ agents'[awaited] = Dead
        /\ \A p \in Procs \ {awaited} : agents'[p] = agents[p]
    BY <1>1, WithoutFacts DEF TableOK
  <1>3. job' = then /\ awaited' = None
    BY DEF Resume
  <1>4. QED
    BY <1>1, <1>2, <1>3, SubsConstants DEF TableOK, Jobs, Dead, SyncSteps, Asks

\* A call that ends while its agent goes on.
LEMMA OrphanTable ==
  ASSUME TableOK, awaited # None, NEW then \in {"free", "push"},
         agents' = agents, ~Answered, Resume(then)
  PROVE  TableOK'
  BY SubsConstants DEF TableOK, Jobs, Answered, Resume

\* A step of an agent.
LEMMA MoveTable ==
  ASSUME TableOK, NEW q \in Procs, NEW s \in Steps \ {"none"},
         agents' \in [Procs -> Agent],
         Moves(q, s),
         \A p \in Procs \ {q} : agents'[p] = agents[p],
         s \in SyncSteps => agents[q].reg \in Registry,
         s \in Asks => agents[q].reg = None,
         UNCHANGED <<job, awaited>>
  PROVE  TableOK'
  BY DEF TableOK, Moves, Dead, SyncSteps, Asks, Steps, Jobs

\* The steps of an agent, seen from the table alone.
LEMMA StepTable ==
  ASSUME TypeOK, NEW q \in Procs, Step(q)
  PROVE  TableOK' /\ UNCHANGED <<bot, stranger>>
  <1> USE TypeParts
  <1>0. TableOK /\ agents \in [Procs -> Agent]
    BY DEF TableOK
  <1>g. ASSUME NEW s \in Steps \ {"none"}, s \notin {"ok", "err"}, Goto(q, s),
               s \in SyncSteps => agents[q].reg \in Registry,
               s \in Asks => agents[q].reg = None,
               UNCHANGED <<job, awaited>>
        PROVE  TableOK'
    <2>1. Moves(q, s) /\ agents' \in [Procs -> Agent]
          /\ \A p \in Procs \ {q} : agents'[p] = agents[p]
      BY <1>0, <1>g, GotoFacts DEF Moves
    <2>2. QED
      BY <1>0, <1>g, <2>1, MoveTable
  <1>a. ASSUME NEW s \in {"ok", "err"}, Answer(q, s), UNCHANGED <<job, awaited>>
        PROVE  TableOK'
    <2>1. Moves(q, s) /\ agents' \in [Procs -> Agent]
          /\ \A p \in Procs \ {q} : agents'[p] = agents[p]
      BY <1>0, <1>a, AnswerFacts
    <2>2. s \in Steps \ {"none"} /\ s \notin SyncSteps /\ s \notin Asks
      BY DEF Steps, SyncSteps, Asks
    <2>3. QED
      BY <1>0, <1>a, <2>1, <2>2, MoveTable
  <1>1. CASE InstallOpen(q)
    BY <1>0, <1>1, <1>g DEF InstallOpen, bot, TableOK, Steps, SyncSteps, Asks
  <1>2. CASE InstallFill(q)
    BY <1>2, <1>a DEF InstallFill, bot
  <1>3. CASE SyncWrite(q)
    BY <1>0, <1>3, <1>g DEF SyncWrite, bot, TableOK, Steps, SyncSteps, Asks
  <1>4. CASE SyncLook(q)
    BY <1>0, <1>4, <1>g, <1>a DEF SyncLook, bot, TableOK, Steps, SyncSteps, Asks
  <1>5. CASE Halt(q)
    BY <1>0, <1>5, <1>g DEF Halt, bot, TableOK, Steps, SyncSteps, Asks
  <1>6. CASE Unlink(q)
    BY <1>0, <1>6, <1>g, <1>a DEF Unlink, bot, TableOK, Steps, SyncSteps, Asks
  <1>7. CASE SyncUnit(q)
    BY <1>0, <1>7, <1>g, <1>a DEF SyncUnit, bot, TableOK, Steps, SyncSteps, Asks
  <1>8. CASE SyncStart(q)
    BY <1>0, <1>8, <1>g, <1>a DEF SyncStart, bot, TableOK, Steps, SyncSteps, Asks
  <1>8b. CASE SyncBound(q)
    BY <1>8b, <1>a DEF SyncBound, bot
  <1>9. CASE Fail(q)
    BY <1>9, <1>a DEF Fail, bot
  <1>10. QED
    BY <1>1, <1>2, <1>3, <1>4, <1>5, <1>6, <1>7, <1>8, <1>8b, <1>9 DEF Step

LEMMA StepValues ==
  ASSUME TypeOK, NEW q \in Procs, Step(q)
  PROVE  ValuesOK'
  <1> USE TypeParts DEF ValuesOK, bot, host
  <1>1. CASE InstallOpen(q)
    BY <1>1 DEF InstallOpen
  <1>2. CASE InstallFill(q)
    BY <1>2 DEF InstallFill
  <1>3. CASE SyncWrite(q)
    BY <1>3 DEF SyncWrite, TableOK, SyncSteps
  <1>4. CASE SyncLook(q)
    BY <1>4 DEF SyncLook
  <1>5. CASE Halt(q)
    BY <1>5 DEF Halt
  <1>6. CASE Unlink(q)
    BY <1>6 DEF Unlink
  <1>7. CASE SyncUnit(q)
    BY <1>7 DEF SyncUnit, TableOK, SyncSteps, Registry
  <1>8. CASE SyncStart(q)
    BY <1>8 DEF SyncStart
  <1>8b. CASE SyncBound(q)
    BY <1>8b DEF SyncBound
  <1>9. CASE Fail(q)
    BY <1>9 DEF Fail
  <1>10. QED
    BY <1>1, <1>2, <1>3, <1>4, <1>5, <1>6, <1>7, <1>8, <1>8b, <1>9 DEF Step

LEMMA TypeStep == TypeOK /\ [Next]_vars => TypeOK'
  <1> SUFFICES ASSUME TypeOK, [Next]_vars PROVE ValuesOK' /\ TableOK'
    BY TypePartsNext
  <1>0. ValuesOK /\ TableOK /\ agents \in [Procs -> Agent]
    BY TypeParts DEF TableOK
  <1>q. awaited = None => \A p \in Procs : agents[p].step \notin {"ok", "err"}
    BY <1>0, SubsConstants DEF TableOK
  <1> USE DEF host
  <1>1. ASSUME NEW r \in Registry, Input(r) \/ Change(r) PROVE ValuesOK' /\ TableOK'
    BY <1>0, <1>1 DEF Input, Change, ValuesOK, TableOK, Jobs
  <1>2. ASSUME NEW q \in Procs, Apply(q) PROVE ValuesOK' /\ TableOK'
    <2>1. ValuesOK'
      BY <1>0, <1>2 DEF Apply, ValuesOK
    <2>2. /\ job = "free"
          /\ \/ Launch(agents, q, "open", None, "install")
             \/ job' = "push" /\ UNCHANGED <<agents, awaited>>
      BY <1>2, Zenon DEF Apply
    <2>3. CASE Launch(agents, q, "open", None, "install")
      <3>1. TableOK'
        BY <1>0, <1>q, <2>2, <2>3, LaunchTable DEF TableOK, Jobs
      <3>2. QED
        BY <2>1, <3>1
    <2>4. CASE job' = "push" /\ UNCHANGED <<agents, awaited>>
      BY <1>0, <2>1, <2>2, <2>4 DEF TableOK, Jobs
    <2>5. QED
      BY <2>2, <2>3, <2>4
  <1>3. ASSUME NEW q \in Procs, Stop(q) PROVE ValuesOK' /\ TableOK'
    <2>1. ValuesOK'
      BY <1>0, <1>3 DEF Stop, ValuesOK
    <2>2. TableOK'
      BY <1>0, <1>3, <1>q, LaunchTable DEF Stop, TableOK, Jobs
    <2>3. QED
      BY <2>1, <2>2
  <1>4. ASSUME NEW q \in Procs, TunnelOff(q) PROVE ValuesOK' /\ TableOK'
    <2>1. ValuesOK'
      BY <1>0, <1>4 DEF TunnelOff, ValuesOK
    <2>2. /\ job = "free"
          /\ \/ Launch(agents, q, "stop", None, "off")
             \/ job' = "push" /\ UNCHANGED <<agents, awaited>>
      BY <1>4, Zenon DEF TunnelOff
    <2>3. CASE Launch(agents, q, "stop", None, "off")
      <3>1. TableOK'
        BY <1>0, <1>q, <2>2, <2>3, LaunchTable DEF TableOK, Jobs
      <3>2. QED
        BY <2>1, <3>1
    <2>4. CASE job' = "push" /\ UNCHANGED <<agents, awaited>>
      BY <1>0, <2>1, <2>2, <2>4 DEF TableOK, Jobs
    <2>5. QED
      BY <2>2, <2>3, <2>4
  <1>5. ASSUME NEW q \in Procs, Step(q) PROVE ValuesOK' /\ TableOK'
    BY <1>5, StepTable, StepValues
  <1>6. CASE InputNoHost \/ TunnelUp \/ Status
    <2>0. Listening(cfg.port) \in BOOLEAN
      BY DEF Listening
    <2>1. enabled' \in BOOLEAN /\ domain' \in BOOLEAN
      BY <1>0, <1>6, <2>0 DEF InputNoHost, TunnelUp, Status, ValuesOK
    <2>2. ValuesOK'
      BY <1>0, <1>6, <2>1 DEF InputNoHost, TunnelUp, Status, ValuesOK
    <2>3. TableOK'
      BY <1>0, <1>6 DEF InputNoHost, TunnelUp, Status, TableOK, Jobs
    <2>4. QED
      BY <2>2, <2>3
  <1>7. ASSUME NEW q \in Procs, ApplySync(q) PROVE ValuesOK' /\ TableOK'
    <2>1. ValuesOK'
      BY <1>0, <1>7 DEF ApplySync, Hand, ValuesOK
    <2>2. awaited \in Procs
      BY <1>0, <1>7 DEF ApplySync, Replied, TableOK
    <2>3. /\ Without(awaited) \in [Procs -> Agent]
          /\ Without(awaited)[awaited] = Dead
          /\ \A p \in Procs \ {awaited} : Without(awaited)[p] = agents[p]
      BY <1>0, <2>2, WithoutFacts
    <2>4. /\ \A p \in Procs : Without(awaited)[p].step \notin {"ok", "err"}
          /\ \A p \in Procs : Without(awaited)[p].step \in SyncSteps => Without(awaited)[p].reg \in Registry
          /\ \A p \in Procs : Without(awaited)[p].step \in Asks => Without(awaited)[p].reg = None
      BY <1>0, <2>2, <2>3 DEF TableOK, Dead, SyncSteps, Asks
    <2>5. cfg \in Registry
      BY <1>0 DEF ValuesOK
    <2>6. TableOK'
      BY <1>7, <2>3, <2>4, <2>5, LaunchTable DEF ApplySync, Jobs
    <2>7. QED
      BY <2>1, <2>6
  <1>8. ASSUME NEW q \in Procs, Push(q) PROVE ValuesOK' /\ TableOK'
    <2>1. ValuesOK' /\ cfg \in Registry
      BY <1>0, <1>8 DEF Push, Hand, ValuesOK
    <2>2. TableOK'
      BY <1>0, <1>8, <1>q, <2>1, LaunchTable DEF Push, TableOK, Jobs
    <2>3. QED
      BY <2>1, <2>2
  <1>9. CASE ApplyDone \/ StopDone \/ TunnelOffDone \/ CallFailed
    <2>1. ValuesOK'
      BY <1>0, <1>9 DEF ApplyDone, StopDone, TunnelOffDone, CallFailed, ValuesOK
    <2>2. TableOK'
      <3>1. awaited # None /\ agents' = Without(awaited)
        BY <1>9, Zenon DEF ApplyDone, StopDone, TunnelOffDone, CallFailed, Replied
      <3>2. Resume("push") \/ Resume("free")
        BY <1>9 DEF ApplyDone, StopDone, TunnelOffDone, CallFailed, Fallback
      <3>3. QED
        BY <1>0, <3>1, <3>2, EndTable
    <2>3. QED
      BY <2>1, <2>2
  <1>10. CASE PushDone
    <2>1. awaited \in Procs /\ agents[awaited].reg \in Registry /\ agents[awaited].alone \in BOOLEAN
      BY <1>0, <1>10 DEF PushDone, Replied, TableOK, Agent
    <2>2. handed' \subseteq Registry
      <3>1. \A p \in Live : agents[p].reg \in Registry \cup {None}
        BY <1>0 DEF Live, Agent
      <3>2. Afloat(digest') \subseteq Registry
        BY <1>0, <3>1 DEF Afloat, ValuesOK
      <3>3. QED
        BY <1>10, <3>2 DEF PushDone
    <2>3. ValuesOK'
      BY <1>0, <1>10, <2>1, <2>2 DEF PushDone, ValuesOK
    <2>4. TableOK'
      <3>1. awaited # None /\ agents' = Without(awaited) /\ Resume("free")
        BY <1>10, Zenon DEF PushDone, Replied
      <3>2. QED
        BY <1>0, <3>1, EndTable
    <2>5. QED
      BY <2>3, <2>4
  <1>11. CASE PushSkipped
    BY <1>0, <1>11 DEF PushSkipped, ValuesOK, TableOK, Jobs
  <1>12. CASE CallTimesOut
    <2>1. ValuesOK'
      BY <1>0, <1>12 DEF CallTimesOut, ValuesOK
    <2>2. TableOK'
      BY <1>0, <1>12, EndTable, OrphanTable DEF CallTimesOut, Fallback
    <2>3. QED
      BY <2>1, <2>2
  <1>13. CASE RouteTimesOut
    <2>1. ValuesOK' /\ awaited # None
      BY <1>0, <1>13 DEF RouteTimesOut, ValuesOK, TableOK
    <2>2. TableOK'
      BY <1>0, <1>13, <2>1, OrphanTable DEF RouteTimesOut
    <2>3. QED
      BY <2>1, <2>2
  <1>14. CASE BotRestarts
    <2>1. Dead \in Agent
      BY DEF Dead, Agent, Steps
    <2>2. QED
      BY <1>0, <1>14, <2>1
         DEF BotRestarts, ValuesOK, TableOK, Jobs, Dead, SyncSteps, Asks
  <1>15. CASE Crash \/ Respawn
    BY <1>0, <1>15 DEF Crash, Respawn, Comes, bot, ValuesOK, TableOK
  <1>16. CASE UNCHANGED vars
    BY <1>0, <1>16 DEF vars, ValuesOK, TableOK
  <1>17. QED
    BY <1>1, <1>2, <1>3, <1>4, <1>5, <1>6, <1>7, <1>8, <1>9, <1>10, <1>11,
       <1>12, <1>13, <1>14, <1>15, <1>16 DEF Next, Resumes, Start

LEMMA InitType == Init => TypeOK
  <1>1. Dead \in Agent
    BY DEF Dead, Agent, Steps
  <1>2. Init => ValuesOK
    BY DEF Init, ValuesOK
  <1>3. Init => TableOK
    BY <1>1, SubsConstants DEF Init, TableOK, Dead, Jobs, SyncSteps, Asks
  <1>4. QED
    BY <1>2, <1>3, TypeParts

\* The shape of the state is kept by every step of the bot, of an agent and of
\* systemd; in particular no job waits for a process that is gone.
THEOREM TypeCorrect == Spec => []TypeOK
  <1>1. Init => TypeOK
    BY InitType
  <1>2. QED
    BY <1>1, TypeStep, PTL DEF Spec

(***************************************************************************)
(* FileIsKnown and OkMeansServed speak of the end of a push.  PushInv *)
(* follows an agent that nobody overlapped through its steps: what it has  *)
(* written is the file, what it will start is its own unit, and an agent   *)
(* that has yet to write is never unknown to the digest.                   *)
(***************************************************************************)
Solo ==
  \A q \in Procs : agents[q].step # "none" /\ agents[q].alone =>
    \A p \in Procs \ {q} : agents[p].step = "none"

WriteIsKnown ==
  \A q \in Procs :
    agents[q].step = "write" => digest = None \/ agents[q].reg \in handed \cup {digest}

Wrote == {"look", "halt", "unlink", "unit", "start", "bind", "ok"}
WrittenIsFile ==
  \A q \in Procs : agents[q].step \in Wrote /\ agents[q].reg # None =>
    /\ file # None
    /\ agents[q].alone => file = agents[q].reg

WantedIsUp == up # None => wanted = up

UnitIsReady ==
  \A q \in Procs : agents[q].alone =>
    /\ agents[q].step = "start" => unit = agents[q].reg.port
    /\ agents[q].step = "bind" => wanted = agents[q].reg.port

PushInv ==
  /\ TypeOK /\ Solo /\ WriteIsKnown /\ WrittenIsFile /\ WantedIsUp /\ UnitIsReady
  /\ FileIsKnown /\ OkMeansServed

\* What the bot does to the table while the host stands still: an agent goes on
\* as it was, ends, loses its being alone, or starts.
Fresh(q) ==
  \/ agents'[q].step \in {"open", "stop"}
  \/ agents'[q].step = "write" /\ (digest' = None \/ agents'[q].reg \in handed' \cup {digest'})

LEMMA QuietStep ==
  ASSUME PushInv, agents' \in [Procs -> Agent], Solo',
         UNCHANGED <<host, stranger>>,
         digest' = digest \/ digest' = None,
         handed \subseteq handed',
         \A q \in Procs :
           \/ agents'[q] = agents[q] \/ agents'[q].step = "none" \/ Fresh(q)
           \/ agents'[q].step = agents[q].step /\ agents'[q].reg = agents[q].reg /\ ~agents'[q].alone
  PROVE  /\ WriteIsKnown' /\ WrittenIsFile' /\ WantedIsUp' /\ UnitIsReady'
         /\ FileIsKnown' /\ OkMeansServed'
  <1> USE DEF PushInv, host
  <1>1. WriteIsKnown'
    BY DEF WriteIsKnown, Fresh
  <1>2. WrittenIsFile'
    BY DEF WrittenIsFile, Fresh, Wrote
  <1>3. WantedIsUp'
    BY DEF WantedIsUp
  <1>4. UnitIsReady'
    BY DEF UnitIsReady, Fresh
  <1>5. FileIsKnown'
    BY DEF FileIsKnown
  <1>6. OkMeansServed'
    BY DEF OkMeansServed, Fresh
  <1>7. QED
    BY <1>1, <1>2, <1>3, <1>4, <1>5, <1>6

\* The table after a launch: the new agent is fresh and alone only if it is.
LEMMA LaunchQuiet ==
  ASSUME NEW table \in [Procs -> Agent], NEW q \in Procs, NEW s \in {"open", "write", "stop"},
         NEW r \in Registry \cup {None}, NEW then \in Jobs,
         Launch(table, q, s, r, then),
         \A p \in Procs : table[p] = agents[p] \/ table[p] = Dead,
         s = "write" => digest' = None \/ r \in handed' \cup {digest'}
  PROVE  /\ agents' \in [Procs -> Agent] /\ Solo'
         /\ \A p \in Procs :
              \/ agents'[p].step = "none" \/ Fresh(p)
              \/ agents'[p].step = agents[p].step /\ agents'[p].reg = agents[p].reg /\ ~agents'[p].alone
  <1>1. s \in Steps
    BY DEF Steps, SyncSteps
  <1>2. /\ agents' \in [Procs -> Agent]
        /\ agents'[q].step = s /\ agents'[q].reg = r
        /\ \A p \in Procs \ {q} : /\ agents'[p].step = table[p].step
                                  /\ agents'[p].reg = table[p].reg
                                  /\ ~agents'[p].alone
        /\ agents'[q].alone => \A p \in Procs \ {q} : table[p].step = "none"
    BY <1>1, WithFacts DEF Launch
  <1>3. QED
    BY <1>2 DEF Solo, Fresh, Dead

\* What the end of a call leaves.
LEMMA EndQuiet ==
  ASSUME PushInv, awaited # None, agents' = Without(awaited)
  PROVE  /\ agents' \in [Procs -> Agent] /\ Solo'
         /\ agents'[awaited].step = "none"
         /\ \A p \in Procs \ {awaited} : agents'[p] = agents[p]
  <1>1. awaited \in Procs /\ agents \in [Procs -> Agent]
    BY DEF PushInv, TypeOK, Agent
  <1>2. /\ agents' \in [Procs -> Agent]
        /\ agents'[awaited] = Dead
        /\ \A p \in Procs \ {awaited} : agents'[p] = agents[p]
    BY <1>1, WithoutFacts
  <1>3. QED
    BY <1>1, <1>2 DEF PushInv, Solo, Dead

\* A step of agent q, for the conjuncts that hold whatever the step does.
LEMMA StepSolo ==
  ASSUME PushInv, NEW q \in Procs, agents[q].step # "none",
         agents' \in [Procs -> Agent],
         \A p \in Procs \ {q} : agents'[p] = agents[p],
         agents'[q].alone => agents[q].alone
  PROVE  Solo'
  BY DEF PushInv, Solo

\* An agent that has just moved to step s, and what it must have done for it.
Reached(q, s) ==
  /\ s # "write"
  /\ s \in Wrote /\ agents[q].reg # None =>
       file' # None /\ (agents[q].alone => file' = agents[q].reg)
  /\ s = "start" /\ agents[q].alone => unit' = agents[q].reg.port
  /\ s = "bind" /\ agents[q].alone => wanted' = agents[q].reg.port
  /\ s = "ok" /\ agents[q].reg # None /\ agents[q].alone /\ server' = "good"
       /\ stranger # agents[q].reg.port
     => wanted' = agents[q].reg.port

LEMMA StepInv ==
  ASSUME PushInv, NEW q \in Procs, NEW s \in Steps, agents[q].step # "none",
         agents' \in [Procs -> Agent], Moves(q, s),
         \A p \in Procs \ {q} : agents'[p] = agents[p],
         UNCHANGED <<bot, stranger>>,
         Reached(q, s),
         WantedIsUp',
         file' = file \/ (agents[q].step = "write" /\ file' = agents[q].reg)
  PROVE  /\ Solo' /\ WriteIsKnown' /\ WrittenIsFile' /\ UnitIsReady'
         /\ FileIsKnown' /\ OkMeansServed'
  <1> USE DEF PushInv, bot
  <1>1. Solo'
    BY StepSolo DEF Moves, Dead
  <1>2. \A p \in Procs \ {q} : agents[p].alone => agents[p].step = "none"
    BY DEF Solo
  <1>3. WriteIsKnown'
    BY DEF WriteIsKnown, Moves, Reached, Dead
  <1>w. agents[q].step = "write" => agents[q].reg # None
    BY SubsConstants DEF TypeOK, SyncSteps
  <1>4. WrittenIsFile'
    BY <1>2, <1>w DEF WrittenIsFile, Wrote, Moves, Reached, Dead
  <1>5. UnitIsReady'
    BY <1>2 DEF UnitIsReady, Moves, Reached, Dead
  <1>6. FileIsKnown'
    BY <1>w DEF FileIsKnown, WriteIsKnown
  <1>7. OkMeansServed'
    <2>1. \A p \in Procs \ {q} : agents'[p].alone => agents'[p].step # "ok"
      BY <1>2
    <2>2. ASSUME agents'[q].step = "ok", agents'[q].alone
          PROVE  s = "ok" /\ agents[q].alone /\ agents'[q].reg = agents[q].reg
      <3>1. agents'[q] # Dead
        BY <2>2 DEF Dead
      <3>2. agents'[q].step = s /\ agents'[q].reg = agents[q].reg
            /\ agents'[q].alone = agents[q].alone
        BY <3>1 DEF Moves
      <3>3. QED
        BY <2>2, <3>2
    <2>3. ASSUME agents'[q].step = "ok", agents'[q].reg # None, agents'[q].alone,
                 server' = "good", stranger' # agents'[q].reg.port
          PROVE  /\ file' = agents'[q].reg /\ wanted' = agents'[q].reg.port
                 /\ up' \in {None, wanted'}
      BY <2>2, <2>3 DEF Reached, Wrote, WantedIsUp
    <2>4. QED
      BY <2>1, <2>3 DEF OkMeansServed
  <1>8. QED
    BY <1>1, <1>3, <1>4, <1>5, <1>6, <1>7

\* Every step of an agent, with the state it reaches.
LEMMA AgentInv ==
  ASSUME PushInv, NEW q \in Procs, Step(q)
  PROVE  /\ Solo' /\ WriteIsKnown' /\ WrittenIsFile' /\ UnitIsReady'
         /\ FileIsKnown' /\ OkMeansServed' /\ WantedIsUp'
  <1>0. agents \in [Procs -> Agent] /\ TypeOK
    BY DEF PushInv, TypeOK, Agent
  <1>u. UNCHANGED <<bot, stranger>>
    BY <1>0, StepTable
  <1>g. ASSUME NEW s \in Steps, s \notin {"ok", "err"}, Goto(q, s),
               agents[q].step # "none", Reached(q, s), WantedIsUp',
               file' = file \/ (agents[q].step = "write" /\ file' = agents[q].reg)
        PROVE  /\ Solo' /\ WriteIsKnown' /\ WrittenIsFile' /\ UnitIsReady'
               /\ FileIsKnown' /\ OkMeansServed' /\ WantedIsUp'
    <2>1. Moves(q, s) /\ agents' \in [Procs -> Agent]
          /\ \A p \in Procs \ {q} : agents'[p] = agents[p]
      BY <1>0, <1>g, GotoFacts DEF Moves
    <2>2. QED
      BY <1>u, <1>g, <2>1, StepInv
  <1>a. ASSUME NEW s \in {"ok", "err"}, Answer(q, s),
               agents[q].step # "none", Reached(q, s), WantedIsUp',
               file' = file \/ (agents[q].step = "write" /\ file' = agents[q].reg)
        PROVE  /\ Solo' /\ WriteIsKnown' /\ WrittenIsFile' /\ UnitIsReady'
               /\ FileIsKnown' /\ OkMeansServed' /\ WantedIsUp'
    <2>1. Moves(q, s) /\ agents' \in [Procs -> Agent]
          /\ \A p \in Procs \ {q} : agents'[p] = agents[p]
      BY <1>0, <1>a, AnswerFacts
    <2>2. s \in Steps
      BY DEF Steps
    <2>3. QED
      BY <1>u, <1>a, <2>1, <2>2, StepInv
  <1>w. UNCHANGED <<up, wanted>> => WantedIsUp'
    BY DEF PushInv, WantedIsUp
  <1>1. CASE InstallOpen(q)
    <2>1. Reached(q, "fill")
      BY DEF Reached, Wrote
    <2>2. QED
      BY <1>1, <1>w, <1>g, <2>1 DEF InstallOpen, Steps
  <1>2. CASE InstallFill(q)
    <2>1. agents[q].reg = None
      BY <1>0, <1>2 DEF InstallFill, TypeOK
    <2>2. Reached(q, "ok")
      BY <2>1 DEF Reached
    <2>3. QED
      BY <1>2, <1>w, <1>a, <2>2 DEF InstallFill
  <1>3. CASE SyncWrite(q)
    <2>1. Reached(q, "look")
      BY <1>3 DEF SyncWrite, Reached
    <2>2. QED
      BY <1>3, <1>w, <1>g, <2>1 DEF SyncWrite, Steps, SyncSteps
  <1>4. CASE SyncLook(q)
    <2>1. /\ agents[q].reg # None /\ file # None
          /\ agents[q].alone => file = agents[q].reg
      BY <1>0, <1>4, SubsConstants
         DEF SyncLook, TypeOK, SyncSteps, PushInv, WrittenIsFile, Wrote
    <2>2. UNCHANGED host /\ agents[q].step = "look"
      BY <1>4 DEF SyncLook
    <2>3. CASE KeepsRunning(q)
      <3>1. agents[q].reg.port \in Ports /\ agents[q].reg.port \in {up, stranger}
        BY <1>0, <2>2, <2>3 DEF KeepsRunning, Listening, TypeOK, SyncSteps, Registry
      <3>2. agents[q].reg.port # stranger => wanted = agents[q].reg.port
        BY <3>1, SubsConstants DEF PushInv, WantedIsUp
      <3>3. Reached(q, "ok")
        BY <2>1, <2>2, <3>2 DEF Reached, host
      <3>4. Answer(q, "ok")
        BY <1>4, <2>3, Zenon DEF SyncLook
      <3>5. QED
        BY <1>w, <1>a, <2>2, <3>3, <3>4 DEF host
    <2>4. CASE ~KeepsRunning(q)
      <3>1. Reached(q, "halt")
        BY <2>1, <2>2 DEF Reached, host
      <3>2. Goto(q, "halt")
        BY <1>4, <2>4, Zenon DEF SyncLook
      <3>3. QED
        BY <1>w, <1>g, <2>2, <3>1, <3>2 DEF host, Steps, SyncSteps
    <2>5. QED
      BY <2>3, <2>4
  <1>5. CASE Halt(q)
    <2>1. WantedIsUp' /\ file' = file /\ agents[q].step # "none"
      BY <1>5 DEF Halt, PushInv, WantedIsUp
    <2>2. CASE agents[q].step = "halt"
      <3>1. Reached(q, "unlink")
        BY <1>0, <2>1, <2>2 DEF Reached, PushInv, WrittenIsFile, Wrote
      <3>2. QED
        BY <1>5, <1>g, <2>1, <2>2, <3>1 DEF Halt, Steps, SyncSteps
    <2>3. CASE agents[q].step = "stop"
      <3>1. Reached(q, "remove")
        BY DEF Reached, Wrote
      <3>2. QED
        BY <1>5, <1>g, <2>1, <2>3, <3>1 DEF Halt, Steps
    <2>4. QED
      BY <1>5, <2>2, <2>3 DEF Halt
  <1>6. CASE Unlink(q)
    <2>1. UNCHANGED <<up, wanted, file>> /\ agents[q].step # "none"
      BY <1>6 DEF Unlink
    <2>2. CASE agents[q].step = "unlink"
      <3>1. Reached(q, "unit")
        BY <1>0, <2>1, <2>2 DEF Reached, PushInv, WrittenIsFile, Wrote
      <3>2. QED
        BY <1>6, <1>w, <1>g, <2>1, <2>2, <3>1 DEF Unlink, Steps, SyncSteps
    <2>3. CASE agents[q].step = "remove"
      <3>1. agents[q].reg = None
        BY <1>0, <2>3 DEF TypeOK
      <3>2. Reached(q, "ok")
        BY <3>1 DEF Reached
      <3>3. QED
        BY <1>6, <1>w, <1>a, <2>1, <2>3, <3>2 DEF Unlink
    <2>4. QED
      BY <1>6, <2>2, <2>3 DEF Unlink
  <1>7. CASE SyncUnit(q)
    <2>1. UNCHANGED <<up, wanted, file>> /\ agents[q].step = "unit"
      BY <1>7 DEF SyncUnit
    <2>2. \/ Answer(q, "err")
          \/ Goto(q, "start") /\ unit' = agents[q].reg.port
      BY <1>7, Zenon DEF SyncUnit
    <2>3. CASE Answer(q, "err")
      <3>1. Reached(q, "err")
        BY DEF Reached, Wrote
      <3>2. QED
        BY <1>w, <1>a, <2>1, <2>3, <3>1
    <2>4. CASE Goto(q, "start") /\ unit' = agents[q].reg.port
      <3>1. Reached(q, "start")
        BY <2>1, <2>4 DEF Reached, PushInv, WrittenIsFile, Wrote
      <3>2. QED
        BY <1>w, <1>g, <2>1, <2>4, <3>1 DEF Steps, SyncSteps
    <2>5. QED
      BY <2>2, <2>3, <2>4
  <1>8. CASE SyncStart(q)
    <2>1. UNCHANGED <<file, server>> /\ agents[q].step = "start" /\ up' = None
      BY <1>8 DEF SyncStart
    <2>2. WantedIsUp'
      BY <2>1 DEF WantedIsUp
    <2>3. \/ wanted' = unit /\ Goto(q, "bind")
          \/ Answer(q, "err")
      BY <1>8, Zenon DEF SyncStart
    <2>4. CASE wanted' = unit /\ Goto(q, "bind")
      <3>1. Reached(q, "bind")
        BY <1>0, <2>1, <2>4 DEF Reached, PushInv, WrittenIsFile, UnitIsReady, Wrote
      <3>2. QED
        BY <1>g, <2>1, <2>2, <2>4, <3>1 DEF Steps, SyncSteps
    <2>5. CASE Answer(q, "err")
      <3>1. Reached(q, "err")
        BY DEF Reached, Wrote
      <3>2. QED
        BY <1>a, <2>1, <2>2, <2>5, <3>1
    <2>6. QED
      BY <2>3, <2>4, <2>5
  <1>8b. CASE SyncBound(q)
    <2>1. Reached(q, "ok")
      BY <1>8b DEF SyncBound, Reached, PushInv, WrittenIsFile, UnitIsReady, Wrote, host
    <2>2. QED
      BY <1>8b, <1>w, <1>a, <2>1 DEF SyncBound, host
  <1>9. CASE Fail(q)
    <2>1. Reached(q, "err")
      BY DEF Reached, Wrote
    <2>2. QED
      BY <1>9, <1>w, <1>a, <2>1 DEF Fail, host
  <1>10. QED
    BY <1>1, <1>2, <1>3, <1>4, <1>5, <1>6, <1>7, <1>8, <1>8b, <1>9 DEF Step

\* What follows from the lemmas for the bot, for systemd and for a stutter.
LEMMA PushStep == PushInv /\ [Next]_vars => PushInv'
  <1> SUFFICES ASSUME PushInv, [Next]_vars PROVE PushInv'
    OBVIOUS
  <1>0. TypeOK /\ TypeOK' /\ agents \in [Procs -> Agent] /\ Solo
    BY TypeStep DEF PushInv, TypeOK, Agent
  <1> DEFINE Rest == /\ WriteIsKnown' /\ WrittenIsFile' /\ WantedIsUp' /\ UnitIsReady'
                     /\ FileIsKnown' /\ OkMeansServed'
  <1> SUFFICES Solo' /\ Rest
    BY <1>0 DEF PushInv
  <1>s. ASSUME UNCHANGED <<agents, host, stranger, digest, handed>> PROVE Solo' /\ Rest
    <2>1. Solo'
      BY <1>0, <1>s DEF Solo
    <2>2. QED
      BY <1>0, <1>s, <2>1, QuietStep
  <1>e. ASSUME awaited # None, agents' = Without(awaited),
               UNCHANGED <<host, stranger, digest, handed>> PROVE Solo' /\ Rest
    BY <1>e, EndQuiet, QuietStep
  <1>l. ASSUME NEW q \in Procs, NEW s \in {"open", "write", "stop"},
               NEW r \in Registry \cup {None}, NEW then \in Jobs,
               NEW table \in [Procs -> Agent],
               Launch(table, q, s, r, then),
               \A p \in Procs : table[p] = agents[p] \/ table[p] = Dead,
               s = "write" => digest' = None \/ r \in handed' \cup {digest'},
               handed \subseteq handed',
               UNCHANGED <<host, stranger, digest>>
        PROVE  Solo' /\ Rest
    <2>1. /\ agents' \in [Procs -> Agent] /\ Solo'
          /\ \A p \in Procs :
               \/ agents'[p].step = "none" \/ Fresh(p)
               \/ agents'[p].step = agents[p].step /\ agents'[p].reg = agents[p].reg /\ ~agents'[p].alone
      BY <1>l, LaunchQuiet
    <2>2. QED
      BY <1>l, <2>1, QuietStep
  <1>1. ASSUME NEW r \in Registry, Input(r) \/ Change(r) PROVE Solo' /\ Rest
    BY <1>1, <1>s DEF Input, Change
  <1>2. CASE InputNoHost \/ TunnelUp \/ Status \/ PushSkipped \/ RouteTimesOut
    BY <1>2, <1>s DEF InputNoHost, TunnelUp, Status, PushSkipped, RouteTimesOut
  <1>3. ASSUME NEW q \in Procs, Start(q) PROVE Solo' /\ Rest
    <2>1. UNCHANGED <<digest, handed, stranger, host>>
      BY <1>3 DEF Start, Apply, Stop, TunnelOff
    <2>2. \/ Launch(agents, q, "open", None, "install")
          \/ Launch(agents, q, "stop", None, "stop")
          \/ Launch(agents, q, "stop", None, "off")
          \/ agents' = agents
      BY <1>3, Zenon DEF Start, Apply, Stop, TunnelOff
    <2>3. QED
      BY <1>0, <1>l, <1>s, <2>1, <2>2 DEF Jobs
  <1>4. ASSUME NEW q \in Procs, ApplySync(q) PROVE Solo' /\ Rest
    <2>1. awaited \in Procs /\ cfg \in Registry
      BY <1>0, <1>4 DEF ApplySync, Replied, TypeOK
    <2>2. /\ Without(awaited) \in [Procs -> Agent]
          /\ \A p \in Procs : Without(awaited)[p] = agents[p] \/ Without(awaited)[p] = Dead
      BY <1>0, <2>1, WithoutFacts
    <2>3. QED
      BY <1>4, <1>l, <2>1, <2>2 DEF ApplySync, Hand, Jobs
  <1>5. ASSUME NEW q \in Procs, Push(q) PROVE Solo' /\ Rest
    <2>1. cfg \in Registry
      BY <1>0 DEF TypeOK
    <2>2. QED
      BY <1>0, <1>5, <1>l, <2>1 DEF Push, Hand, Jobs
  <1>6. CASE ApplyDone \/ StopDone \/ TunnelOffDone \/ CallFailed
    <2>1. awaited # None /\ agents' = Without(awaited)
      BY <1>6, Zenon DEF ApplyDone, StopDone, TunnelOffDone, CallFailed, Replied
    <2>2. UNCHANGED <<host, stranger, digest, handed>>
      BY <1>6 DEF ApplyDone, StopDone, TunnelOffDone, CallFailed
    <2>3. QED
      BY <1>e, <2>1, <2>2
  <1>7. CASE CallTimesOut
    <2>1. UNCHANGED <<host, stranger, digest, handed>> /\ awaited # None
      BY <1>7 DEF CallTimesOut
    <2>2. agents' = Without(awaited) \/ agents' = agents
      BY <1>7, Zenon DEF CallTimesOut
    <2>3. QED
      BY <1>e, <1>s, <2>1, <2>2
  <1>8. CASE PushDone
    <2>1. /\ job = "pushing" /\ awaited # None /\ agents[awaited].step = "ok"
          /\ agents' = Without(awaited)
          /\ digest' = agents[awaited].reg
          /\ UNCHANGED <<stranger, host>>
      BY <1>8, Zenon DEF PushDone, Replied
    <2>2. handed' = IF agents[awaited].alone THEN {} ELSE Afloat(digest')
      BY <1>8 DEF PushDone
    <2>3. awaited \in Procs /\ agents[awaited].reg \in Registry /\ agents[awaited].reg # None
      BY <1>0, <2>1, SubsConstants DEF TypeOK
    <2>4. CASE agents[awaited].alone
      <3>1. \A p \in Procs : agents'[p].step = "none"
        BY <2>1, <2>3, <2>4, EndQuiet DEF PushInv, Solo
      <3>2. file' = digest'
        BY <2>1, <2>3, <2>4 DEF PushInv, WrittenIsFile, Wrote, host
      <3>3. Solo' /\ WriteIsKnown' /\ WrittenIsFile' /\ UnitIsReady' /\ OkMeansServed'
        BY <3>1 DEF Solo, WriteIsKnown, WrittenIsFile, Wrote, UnitIsReady, OkMeansServed
      <3>4. WantedIsUp' /\ FileIsKnown'
        BY <2>1, <3>2 DEF PushInv, WantedIsUp, FileIsKnown, host
      <3>5. QED
        BY <3>3, <3>4
    <2>5. CASE ~agents[awaited].alone
      <3>1. handed' = Afloat(digest') /\ file # None
        BY <2>1, <2>2, <2>3, <2>5 DEF PushInv, WrittenIsFile, Wrote
      <3>2. agents' \in [Procs -> Agent] /\ Solo'
            /\ \A p \in Procs : agents'[p].step = "none" \/ agents'[p] = agents[p]
        BY <2>1, EndQuiet
      <3>3. \A p \in Procs : agents'[p].step = "write" =>
              agents'[p].reg \in handed' \cup {digest'}
        <4>1. SUFFICES ASSUME NEW p \in Procs, agents'[p].step = "write"
                       PROVE  agents'[p].reg \in handed' \cup {digest'}
          OBVIOUS
        <4>2. agents'[p] = agents[p] /\ p \in Live /\ agents[p].reg # None
          BY <1>0, <3>2, <4>1, SubsConstants DEF Live, TypeOK, SyncSteps
        <4>3. QED
          BY <3>1, <4>2 DEF Afloat
      <3>6. WriteIsKnown' /\ FileIsKnown'
        BY <2>1, <3>1, <3>3 DEF WriteIsKnown, FileIsKnown, Afloat, host
      <3>4. WrittenIsFile' /\ UnitIsReady' /\ OkMeansServed' /\ WantedIsUp'
        BY <2>1, <3>2 DEF PushInv, WrittenIsFile, Wrote, UnitIsReady, OkMeansServed,
                          WantedIsUp, host
      <3>5. QED
        BY <3>2, <3>6, <3>4
    <2>6. QED
      BY <2>4, <2>5
  <1>9. CASE BotRestarts
    <2>1. /\ \A q \in Procs : agents'[q].step = "none" /\ agents'[q].alone = FALSE
          /\ digest' = None
          /\ UNCHANGED <<stranger, host>>
      BY <1>9 DEF BotRestarts, Dead
    <2>2. QED
      BY <2>1 DEF PushInv, Solo, WriteIsKnown, WrittenIsFile, Wrote, WantedIsUp, UnitIsReady,
                  FileIsKnown, OkMeansServed, host
  <1>10. ASSUME NEW q \in Procs, Step(q) PROVE Solo' /\ Rest
    BY <1>10, AgentInv
  <1>11. CASE Crash \/ Respawn
    <2>1. /\ UNCHANGED <<agents, file, server, unit, wanted, stranger, digest, handed>>
          /\ up' \in {None, wanted}
      BY <1>11 DEF Crash, Respawn, Comes, bot
    <2>2. WantedIsUp'
      BY <2>1 DEF WantedIsUp
    <2>3. Solo' /\ WriteIsKnown' /\ WrittenIsFile' /\ UnitIsReady' /\ FileIsKnown'
      BY <2>1 DEF PushInv, Solo, WriteIsKnown, WrittenIsFile, Wrote, UnitIsReady, FileIsKnown
    <2>4. OkMeansServed'
      BY <2>1 DEF PushInv, OkMeansServed
    <2>5. QED
      BY <2>2, <2>3, <2>4
  <1>12. CASE UNCHANGED vars
    BY <1>12, <1>s DEF vars, host
  <1>13. QED
    BY <1>1, <1>2, <1>3, <1>4, <1>5, <1>6, <1>7, <1>8, <1>9, <1>10, <1>11, <1>12
       DEF Next, Resumes

LEMMA PushInvHolds == Spec => []PushInv
  <1>1. Init => PushInv
    <2>1. Init => Solo /\ WriteIsKnown /\ WrittenIsFile /\ WantedIsUp /\ UnitIsReady
                  /\ FileIsKnown /\ OkMeansServed
      BY DEF Init, Solo, WriteIsKnown, WrittenIsFile, Wrote, WantedIsUp, UnitIsReady,
             FileIsKnown, OkMeansServed, Dead
    <2>2. Init => TypeOK
      BY InitType
    <2>3. QED
      BY <2>1, <2>2 DEF PushInv
  <1>2. QED
    BY <1>1, PushStep, PTL DEF Spec

\* The file on the server is the registry whose push was recorded, or one that
\* was handed to an agent since.
THEOREM FileStaysKnown == Spec => []FileIsKnown
  <1>1. PushInv => FileIsKnown
    BY DEF PushInv
  <1>2. QED
    BY <1>1, PushInvHolds, PTL

\* An ok of an agent that nobody overlapped means that the file is its registry
\* and that systemd keeps a server on the port of it, given a whole program and
\* no stranger on the port; whether the server listens already is not said.
THEOREM OkIsServed == Spec => []OkMeansServed
  <1>1. PushInv => OkMeansServed
    BY DEF PushInv
  <1>2. QED
    BY <1>1, PushInvHolds, PTL
=============================================================================
