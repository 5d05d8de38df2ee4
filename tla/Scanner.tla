------------------------------- MODULE Scanner -------------------------------
(***************************************************************************)
(* The scan for a target an inbound may borrow its handshake from          *)
(* (BOT/scan.py, panel.py run_scan): the list of targets, the tasks a list *)
(* unfolds to, the looks every task takes at its target one connection     *)
(* after the other, and the ranked rows that replace those of the scan     *)
(* before.  A name may lead to several machines, and every connection to   *)
(* another of them.                                                        *)
(***************************************************************************)
EXTENDS Integers, SequencesExt

CONSTANTS
    ScanNames,   \* targets with a name
    ScanNets,    \* subnets: every address is a machine of its own
    Behind,      \* the machines a target leads to; in order for a subnet
    Candidates,  \* the list the bot starts over with
    ScanLimit,   \* SCAN_LIMIT
    NetLimit,    \* DISCOVER_MAX_IPS
    TaskLimit,   \* SCAN_MAX_TOTAL
    Concurrency, \* CONCURRENCY
    MaxScans     \* bound of the model: changes of the list and scans

Lists == ScanNames \cup ScanNets
Unread == "unread"
HybridGroups == {"x25519mlkem768", "p256mlkem768"}
Answers == {"yes", "retry", "no"}

\* What a machine shows: tls 1.3, http/2, the curve, a chain that verifies and
\* has room for a signature, the days its certificate has left, its groups,
\* and the name the certificate is for.
Machine ==
    [tls13 : BOOLEAN, h2 : BOOLEAN, curve : BOOLEAN, chain : BOOLEAN, room : BOOLEAN,
     left : Int, groups : [HybridGroups -> Answers], cn : ScanNames, latency : Nat]

ScanConstants ==
    /\ ScanNames \cap ScanNets = {} /\ Unread \notin Lists
    /\ \A n \in Lists : Behind[n] \in Seq(Machine) /\ Behind[n] # << >>
    /\ Candidates \in Seq(Lists) /\ Concurrency \in Nat \ {0}
    /\ {ScanLimit, NetLimit, TaskLimit, MaxScans} \subseteq Nat

VARIABLES
    list,   \* scan_targets
    rows,   \* results: what the screen shows and its buttons count
    tasks,  \* of the scan that runs; << >> between scans
    ended,  \* history: the answers the rows were ranked from
    scans   \* how often the list changed or a scan was started

scanVars == <<list, rows, tasks, ended, scans>>

\* ScanResult as probe creates it.
Blank(t) ==
    [target |-> t, tls |-> FALSE, tls13 |-> FALSE, h2 |-> FALSE, curve |-> FALSE, valid |-> FALSE,
     left |-> 0, groups |-> [g \in HybridGroups |-> "no"], room |-> FALSE, latency |-> 0,
     feasible |-> FALSE]

Looks == <<"connect", "curve", "groups", "verify">>
Places == {"queued", "done"} \cup Range(Looks)

ScanTypeOK ==
    /\ list \in Seq(Lists) /\ \A i, j \in DOMAIN list : list[i] = list[j] => i = j
    /\ Len(tasks) <= TaskLimit /\ \A i \in DOMAIN tasks : tasks[i].at \in Places
    /\ Cardinality({i \in DOMAIN tasks : tasks[i].at \in Range(Looks)}) <= Concurrency
    /\ \A i \in DOMAIN rows : rows[i].target \in Lists
    /\ scans \in 0 .. MaxScans

ScanInit == list = << >> /\ rows = << >> /\ tasks = << >> /\ ended = {} /\ scans = 0

Again == scans < MaxScans /\ scans' = scans + 1
ScanIdle == tasks = << >> /\ Again

\* A word of a typed list: a spelling of a target (with a scheme, with a path,
\* without the port), or nothing a target can be read from.
Words == [of : Lists \cup {Unread}, plain : BOOLEAN]
\* normalize_target: every spelling gives the target.
Canon(w) == w.of

\* normalize_targets: words that give no target are left out, a target is
\* taken once, and the list is cut where the limit is reached.
Taken(out, t) ==
    IF t = Unread \/ Contains(out, t) \/ Len(out) >= ScanLimit THEN out ELSE Append(out, t)
Normalised(words) ==
    LET out[n \in 0 .. Len(words)] ==
            IF n = 0 THEN << >> ELSE Taken(out[n - 1], Canon(words[n]))
    IN  out[Len(words)]

\* xr_scan_targets, xr_scan_manual and "reset".
EditList(words) ==
    /\ ScanIdle /\ Normalised(words) # << >> /\ list' = Normalised(words)
    /\ UNCHANGED <<rows, tasks, ended>>
AddTarget(w) ==
    /\ ScanIdle /\ Canon(w) # Unread /\ ~Contains(list, Canon(w)) /\ Len(list) < ScanLimit
    /\ list' = Append(list, Canon(w))
    /\ UNCHANGED <<rows, tasks, ended>>
ResetList == ScanIdle /\ list' = Candidates /\ UNCHANGED <<rows, tasks, ended>>

\* The tasks of one target: a subnet is asked address by address, in bulk.
TasksOf(t) ==
    IF t \in ScanNames
    THEN <<[of |-> t, met |-> Range(Behind[t]), bulk |-> FALSE, at |-> "queued", got |-> Blank(t)]>>
    ELSE [i \in 1 .. (IF Len(Behind[t]) < NetLimit THEN Len(Behind[t]) ELSE NetLimit) |->
             [of |-> t, met |-> {Behind[t][i]}, bulk |-> TRUE, at |-> "queued", got |-> Blank(t)]]
Unfolded(l) ==
    LET all[n \in 0 .. Len(l)] == IF n = 0 THEN << >> ELSE all[n - 1] \o TasksOf(l[n])
        most == all[Len(l)]
    IN  SubSeq(most, 1, IF Len(most) < TaskLimit THEN Len(most) ELSE TaskLimit)

\* run_scan: no more than ScanLimit of the list is scanned.
RunScan ==
    /\ ScanIdle /\ list # << >>
    /\ tasks' = Unfolded(SubSeq(list, 1, IF Len(list) < ScanLimit THEN Len(list) ELSE ScanLimit))
    /\ UNCHANGED <<list, rows, ended>>

At(i, place, got) == tasks' = [tasks EXCEPT ![i].at = place, ![i].got = got]
Begin(i) ==
    /\ tasks[i].at = "queued"
    /\ Cardinality({j \in DOMAIN tasks : tasks[j].at \in Range(Looks)}) < Concurrency
    /\ At(i, "connect", tasks[i].got)
    /\ UNCHANGED <<list, rows, ended, scans>>

\* _connect_info: the version, the protocol and the certificate of one machine.
\* An address asked in bulk takes the name on its certificate.
Shown(task, m) ==
    [task.got EXCEPT !.target = IF task.bulk THEN m.cn ELSE @, !.tls = TRUE,
        !.tls13 = m.tls13, !.h2 = m.h2, !.left = m.left, !.room = m.room, !.latency = m.latency]
Connect(i) ==
    /\ tasks[i].at = "connect"
    /\ \/ \E m \in tasks[i].met : At(i, "curve", Shown(tasks[i], m))
       \/ At(i, "done", tasks[i].got)
    /\ UNCHANGED <<list, rows, ended, scans>>

\* _supports_x25519, probe_groups and _verify: a connection each; one that
\* fails counts as a no.
Curve(i) ==
    /\ tasks[i].at = "curve"
    /\ \E yes \in {m.curve : m \in tasks[i].met} \cup {FALSE} :
           At(i, "groups", [tasks[i].got EXCEPT !.curve = yes])
    /\ UNCHANGED <<list, rows, ended, scans>>
AskGroups(i) ==
    /\ tasks[i].at = "groups"
    /\ \E g \in [HybridGroups -> Answers] :
           /\ \A k \in HybridGroups : g[k] \in {m.groups[k] : m \in tasks[i].met} \cup {"no"}
           /\ At(i, "verify", [tasks[i].got EXCEPT !.groups = g])
    /\ UNCHANGED <<list, rows, ended, scans>>

\* A variation: a certificate of its last day counts as expired.
FeasibleLate(r) == r.tls13 /\ r.h2 /\ r.curve /\ r.valid /\ r.left > 0
\* feasible_of.
Feasible(r) == r.tls13 /\ r.h2 /\ r.curve /\ r.valid /\ r.left >= 0
Verify(i) ==
    /\ tasks[i].at = "verify"
    /\ \E yes \in {m.chain : m \in tasks[i].met} \cup {FALSE} :
           LET r == [tasks[i].got EXCEPT !.valid = yes]
           IN  At(i, "done", [r EXCEPT !.feasible = Feasible(r)])
    /\ UNCHANGED <<list, rows, ended, scans>>

\* _better.
Better(r, s) ==
    IF r.feasible # s.feasible THEN r.feasible
    ELSE IF r.room # s.room THEN r.room
    ELSE r.latency > 0 /\ (s.latency = 0 \/ r.latency < s.latency)

\* An address asked in bulk that spoke no tls gives no row.
Counts(task) == task.bulk => task.got.tls

\* rank: of every target the best row, those that fit first, then the fast.
Placed(out, r) ==
    IF \E i \in DOMAIN out : out[i].target = r.target
    THEN [i \in DOMAIN out |->
             IF out[i].target = r.target /\ Better(r, out[i]) THEN r ELSE out[i]]
    ELSE Append(out, r)
Dedupe(done) ==
    LET out[n \in 0 .. Len(done)] ==
            IF n = 0 THEN << >>
            ELSE IF Counts(done[n]) THEN Placed(out[n - 1], done[n].got) ELSE out[n - 1]
    IN  out[Len(done)]
Before(r, s) ==
    \/ r.feasible /\ ~s.feasible
    \/ r.feasible = s.feasible /\ r.latency > 0 /\ (s.latency = 0 \/ r.latency < s.latency)
\* The sort is stable: of rows that are as good the one found first stays first.
Sorted(best) ==
    LET Stands(i, j) == \/ Before(best[i], best[j])
                        \/ ~Before(best[j], best[i]) /\ i < j
    IN  {order \in [DOMAIN best -> DOMAIN best] :
            /\ \A k \in DOMAIN best : \E i \in DOMAIN best : order[i] = k
            /\ \A i, j \in DOMAIN best : i < j => Stands(order[i], order[j])}

\* The rows of a scan that is over.
Finish ==
    /\ tasks # << >> /\ \A i \in DOMAIN tasks : tasks[i].at = "done"
    /\ LET best == Dedupe(tasks)
       IN  \E order \in Sorted(best) : rows' = [i \in DOMAIN best |-> best[order[i]]]
    /\ ended' = {tasks[i].got : i \in {k \in DOMAIN tasks : Counts(tasks[k])}}
    /\ tasks' = << >> /\ UNCHANGED <<list, scans>>

\* ACTION_TIMEOUT or a restart: the scan is gone, the rows are those before.
Abandon == tasks # << >> /\ tasks' = << >> /\ UNCHANGED <<list, rows, ended, scans>>

ScanNext ==
    \/ \E words \in UNION {[1 .. n -> Words] : n \in 1 .. 2} : EditList(words)
    \/ \E w \in Words : AddTarget(w)
    \/ ResetList \/ RunScan \/ Finish \/ Abandon
    \/ \E i \in DOMAIN tasks :
           Begin(i) \/ Connect(i) \/ Curve(i) \/ AskGroups(i) \/ Verify(i)

\* A variation: the reality rule forgets the protocol.
GapsNoProtocol(r) == ~r.tls13 \/ ~r.curve \/ ~r.valid \/ r.left < 0
\* reality_gaps, and security_fit for one kind.
Gaps(r) == ~r.tls13 \/ ~r.h2 \/ ~r.curve \/ ~r.valid \/ r.left < 0
Supports(r, g) == r.groups[g] \in {"yes", "retry"}
FitsKind(r, k) ==
    /\ IF k.tls THEN r.tls13 ELSE ~Gaps(r)
    /\ k.group # "" => Supports(r, k.group)
    /\ k.mldsa => r.room

\* STRONGEST_FIRST and recommended_security.
RealityKind(g, m) == [tls |-> FALSE, group |-> g, mldsa |-> m]
TlsKind(g) == [tls |-> TRUE, group |-> g, mldsa |-> FALSE]
StrongestFirst ==
    <<RealityKind("x25519mlkem768", TRUE), RealityKind("", TRUE),
      RealityKind("x25519mlkem768", FALSE), RealityKind("p256mlkem768", FALSE),
      RealityKind("", FALSE),
      TlsKind("x25519mlkem768"), TlsKind("p256mlkem768"), TlsKind("")>>
Recommended(r) ==
    LET fit == {i \in DOMAIN StrongestFirst : FitsKind(r, StrongestFirst[i])}
    IN  {StrongestFirst[i] : i \in {k \in fit : \A j \in fit : k <= j}}

\* The verdict on the row and the table of encryptions under it agree, although
\* each is worked out by rules of its own from looks that met different machines:
\* a row fits exactly where plain reality does, and then the encryption advised
\* is one of reality (scan.py:761 feasible_of, :862 security_fit, :906
\* recommended_security).
VerdictsAgree ==
    \A i \in DOMAIN rows :
        /\ rows[i].feasible <=> FitsKind(rows[i], RealityKind("", FALSE))
        /\ rows[i].feasible => \E k \in Recommended(rows[i]) : ~k.tls

\* A row is no worse than another in what it fits and what it has room for.
AtLeast(r, s) ==
    /\ s.feasible => r.feasible
    /\ s.feasible = r.feasible /\ s.room => r.room

\* Every target that answered has one row, no answer for it was better, and no
\* row that does not fit stands before one that does, in whatever order the tasks
\* ended and addresses turned out to share a name (scan.py:1385 rank; the buttons
\* offer the first three rows).
RankKeepsBest ==
    /\ \A i, j \in DOMAIN rows : rows[i].target = rows[j].target => i = j
    /\ \A i, j \in DOMAIN rows : i < j /\ rows[j].feasible => rows[i].feasible
    /\ \A r \in ended : \E i \in DOMAIN rows :
           rows[i].target = r.target /\ AtLeast(rows[i], r)

\* The rows of a scan are the best of what answered, and what a row says is what
\* the table of encryptions says of its target.
RowsAreRight == VerdictsAgree /\ RankKeepsBest
==============================================================================
