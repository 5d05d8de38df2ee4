--------------------------- MODULE HoneypotGuard ---------------------------
(***************************************************************************)
(* The connection limits of the honeypot daemon                            *)
(* (Storage/remote/honeypot_agent.py).                                     *)
(*                                                                         *)
(* One listener thread per decoy port accepts connections, asks the shared *)
(* Guard for a slot and starts a worker thread for each connection it may  *)
(* keep.  Workers and listeners change the counters of the Guard under its *)
(* lock, in any order; the connection a worker serves is closed before its *)
(* slot is given back.                                                     *)
(***************************************************************************)
EXTENDS Naturals, FiniteSets

CONSTANTS
    Ports,      \* the decoy ports that were bound, one listener thread each
    Conns,      \* connections the peers may open
    Peers,        \* the addresses they come from
    MaxConn,    \* max_conn: connections served at a time
    PerIp,      \* per_ip: connections served at a time for one address
    MaxAuth,    \* at most so many credentials are found in one read (code: 6)
    NoConn      \* a listener thread has no connection in hand

ASSUME ConnsAssumption == IsFiniteSet(Conns) /\ NoConn \notin Conns
ASSUME LimitAssumption == MaxConn \in Nat /\ PerIp \in Nat /\ MaxAuth \in Nat

VARIABLES
    conn,       \* what has become of each connection
    from,       \* the address it comes from
    holds,      \* the connection each listener thread has in hand
    dead,       \* listener threads ended by an exception
    active,     \* Guard.active
    byIp,       \* Guard.by_ip, 0 for an address without an entry
    logged      \* lines written to the log about each connection

guardVars == <<conn, from, holds, dead, active, byIp, logged>>

\* closed: nobody has connected, or the connection is over and its slot free
States == {"new", "accepted", "taken", "served", "read", "ended", "closed", "leaked"}

\* The connections for which take() has succeeded and drop() has not run.
Held == {c \in Conns : conn[c] \in {"taken", "served", "read", "ended", "leaked"}}
HeldOf(i) == {c \in Held : from[c] = i}
\* The connections whose socket a worker thread keeps open.
Open == {c \in Conns : conn[c] \in {"served", "read"}}
OpenFrom(i) == {c \in Open : from[c] = i}

GuardInit ==
    /\ conn = [c \in Conns |-> "new"]
    /\ from \in [Conns -> Peers]
    /\ holds = [p \in Ports |-> NoConn]
    /\ dead = {}
    /\ active = 0
    /\ byIp = [i \in Peers |-> 0]
    /\ logged = [c \in Conns |-> 0]

Become(c, s) == conn' = [conn EXCEPT ![c] = s]
Log(c, n) == logged' = [logged EXCEPT ![c] = @ + n]

---------------------------------------------------------------------------
(* Listener threads.                                                       *)

Accept(p, c) ==
    /\ p \notin dead
    /\ holds[p] = NoConn
    /\ conn[c] = "new"
    /\ Become(c, "accepted")
    /\ holds' = [holds EXCEPT ![p] = c]
    /\ UNCHANGED <<from, dead, active, byIp, logged>>

\* A variation for the checks: take() compares with one too many.
MayTakeOneMore(i) == active <= MaxConn /\ byIp[i] <= PerIp

\* Guard.take under the lock.
MayTake(i) == active < MaxConn /\ byIp[i] < PerIp

Take(p) ==
    LET c == holds[p]
        i == from[c] IN
    /\ c \in Conns
    /\ conn[c] = "accepted"
    /\ MayTake(i)
    /\ active' = active + 1
    /\ byIp' = [byIp EXCEPT ![i] = @ + 1]
    /\ Become(c, "taken")
    /\ UNCHANGED <<from, holds, dead, logged>>

\* No slot: the connection is logged as throttled and closed.
Refuse(p) ==
    LET c == holds[p] IN
    /\ c \in Conns
    /\ conn[c] = "accepted"
    /\ ~MayTake(from[c])
    /\ Log(c, 1)
    /\ Become(c, "closed")
    /\ holds' = [holds EXCEPT ![p] = NoConn]
    /\ UNCHANGED <<from, dead, active, byIp>>

StartWorker(p) ==
    LET c == holds[p] IN
    /\ c \in Conns
    /\ conn[c] = "taken"
    /\ Become(c, "served")
    /\ holds' = [holds EXCEPT ![p] = NoConn]
    /\ UNCHANGED <<from, dead, active, byIp, logged>>

\* Thread.start raises: nothing catches it, so the listener thread ends, the
\* socket is closed with it and the slot is never given back.
StartFails(p) ==
    LET c == holds[p] IN
    /\ c \in Conns
    /\ conn[c] = "taken"
    /\ Become(c, "leaked")
    /\ dead' = dead \cup {p}
    /\ holds' = [holds EXCEPT ![p] = NoConn]
    /\ UNCHANGED <<from, active, byIp, logged>>

---------------------------------------------------------------------------
(* Worker threads: Handler.serve, then Guard.drop in the finally clause.   *)

\* The read ended; every credential in it has a line of its own.
Read(c) ==
    /\ conn[c] = "served"
    /\ \E n \in 0..MaxAuth : Log(c, n)
    /\ Become(c, "read")
    /\ UNCHANGED <<from, holds, dead, active, byIp>>

Fewer(n) == IF n > 0 THEN n - 1 ELSE 0

\* A variation: the slot is given back before the socket is closed.
FinishFreesSlot(c) ==
    /\ conn[c] \in {"served", "read"}
    /\ Log(c, 1)
    /\ active' = Fewer(active)
    /\ byIp' = [byIp EXCEPT ![from[c]] = Fewer(@)]
    /\ Become(c, "ended")
    /\ UNCHANGED <<from, holds, dead>>

\* A variation: without the finally clause an exception ends the thread and
\* keeps the slot.
FinishWithoutFinally(c) ==
    /\ conn[c] \in {"served", "read"}
    /\ Log(c, 1)
    /\ \E s \in {"ended", "leaked"} : Become(c, s)
    /\ UNCHANGED <<from, holds, dead, active, byIp>>

\* The line "probe" after the answer, or "reset" or "error" for an exception
\* raised before or after the read; then the socket is closed.
Finish(c) ==
    /\ conn[c] \in {"served", "read"}
    /\ Log(c, 1)
    /\ Become(c, "ended")
    /\ UNCHANGED <<from, holds, dead, active, byIp>>

Drop(c) ==
    /\ conn[c] = "ended"
    /\ active' = Fewer(active)
    /\ byIp' = [byIp EXCEPT ![from[c]] = Fewer(@)]
    /\ Become(c, "closed")
    /\ UNCHANGED <<from, holds, dead, logged>>

Listener(p) == (\E c \in Conns : Accept(p, c)) \/ Take(p) \/ Refuse(p)
                  \/ StartWorker(p) \/ StartFails(p)
Worker(c) == Read(c) \/ Finish(c) \/ Drop(c)

GuardNext == (\E p \in Ports : Listener(p)) \/ (\E c \in Conns : Worker(c))

\* Every wait of a worker ends: the socket and the read have a time limit.
\* A listener has nothing to wait for once it has a connection in hand.
GuardFairness ==
    /\ \A c \in Conns : WF_guardVars(Worker(c))
    /\ \A p \in Ports : WF_guardVars(Take(p) \/ Refuse(p) \/ StartWorker(p))

GuardSpec == GuardInit /\ [][GuardNext]_guardVars /\ GuardFairness

---------------------------------------------------------------------------
(* Properties.                                                             *)

GuardTypeOK ==
    /\ conn \in [Conns -> States]
    /\ from \in [Conns -> Peers]
    /\ holds \in [Ports -> Conns \cup {NoConn}]
    /\ dead \subseteq Ports
    /\ active \in Nat
    /\ byIp \in [Peers -> Nat]
    /\ logged \in [Conns -> Nat]

\* The limits hold for what they are about, the connections really open, and
\* not only for the counters: whatever listeners and workers do at the same
\* time, no more than MaxConn are open, and no more than PerIp of an address.
\* (honeypot_agent.py:250-267, 421-445)
LimitsHold ==
    /\ Cardinality(Open) <= MaxConn
    /\ \A i \in Peers : Cardinality(OpenFrom(i)) <= PerIp

\* The counters of the Guard are the numbers of slots that are held, so no
\* slot is lost or given back twice by a worker.
CountersExact ==
    /\ active = Cardinality(Held)
    /\ \A i \in Peers : byIp[i] = Cardinality(HeldOf(i))

\* A connection that is over has left a line for the fail2ban filter, unless
\* its worker thread could not be started.
TouchIsLogged == \A c \in Conns : conn[c] \in {"ended", "closed"} => logged[c] > 0

\* A listener thread is done with a connection some day, and one that got a
\* worker thread gives its slot back.
SlotsComeBack ==
    \A c \in Conns :
        /\ (conn[c] = "accepted") ~> (conn[c] \in {"served", "leaked", "closed"})
        /\ (conn[c] = "served") ~> (conn[c] = "closed")
============================================================================
