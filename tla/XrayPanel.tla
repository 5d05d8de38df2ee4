------------------------------ MODULE XrayPanel ------------------------------
(***************************************************************************)
(* The panel of the proxy: the ports of its inbounds, the links of their   *)
(* clients with the subscription that serves them, the keys of one         *)
(* inbound, the scan for a target, what an inbound says to the core and to *)
(* its clients, the server of the subscriptions, the install of the core   *)
(* and the public name.  The parts share no state but the list of          *)
(* inbounds, of which each looks at fields of its own, and the name, of    *)
(* which the links ask only whether it is on: the first state picks one    *)
(* part, and only that one moves.                                          *)
(***************************************************************************)
EXTENDS PanelPorts

CONSTANTS Ids, Names, Doors, MaxPairs, MaxWords, MaxPresses
CONSTANTS Targets, MaxDraws, MaxEdits
CONSTANTS ScanNames, ScanNets, Behind, Candidates, ScanLimit, NetLimit, TaskLimit,
          Concurrency, MaxScans
CONSTANTS Hosts, FirstHost, MaxKeys, MaxSteps
CONSTANTS Entries, Readers, MaxBody, MaxFiles, People, Proxies
CONSTANTS Agents, NoAgent, MaxCalls
CONSTANTS Releases, Pinned, Below, Odd, MaxInstalls

VARIABLES inbounds, door, subEnabled, hostSet, tunnelOn, registry, opened, bound, stranger,
          call, load, settled, drawn, words, presses
VARIABLES security, group, seed, verify, reality, cipher, certFile, keyFile, target,
          result, chosen, waits, sure, minted, edits
VARIABLES list, rows, tasks, ended, scans
VARIABLES inb, pairs, halves, steps
VARIABLES files, cache, asks
VARIABLES version, core, panelSays, notice, job, installs
VARIABLES name, key, stored, on, sources, binary, funnel, stage, sent, awaited, shown, calls
VARIABLE focus  \* the part this behaviour is about

Links == INSTANCE PanelLinks
Keys == INSTANCE PanelKeys
Scan == INSTANCE Scanner
Server == INSTANCE SubServe
Release == INSTANCE CoreFetch

ASSUME PanelConstants ==
    /\ PortConstants /\ Links!LinkConstants /\ Keys!KeyConstants /\ Scan!ScanConstants
    /\ Links!WireConstants /\ Server!ServeConstants /\ Release!FetchConstants
    /\ Release!TunnelConstants

linkVars == <<inbounds, door, subEnabled, hostSet, tunnelOn, registry, opened, bound, stranger,
              call, load, settled, drawn, words, presses>>
keyVars == <<security, group, seed, verify, reality, cipher, certFile, keyFile, target,
             result, chosen, waits, sure, minted, edits>>
scanVars == <<list, rows, tasks, ended, scans>>
wireVars == <<inb, pairs, halves, steps>>
serveVars == <<files, cache, asks>>
fetchVars == <<version, core, panelSays, notice, job, installs>>
tunnelVars == <<name, key, stored, on, sources, binary, funnel, stage, sent, awaited, shown,
                calls>>
panelVars == <<portVars, linkVars, keyVars, scanVars, wireVars, serveVars, fetchVars, tunnelVars,
               focus>>

\* The variables of a part that is not looked at have one value.
Init ==
    /\ PortsInit /\ Links!LinkInit /\ Keys!KeyInit /\ Scan!ScanInit
    /\ Links!WireInit /\ Server!ServeInit /\ Release!FetchInit
    /\ Release!TunnelInit
    /\ focus \in {"ports", "links", "keys", "scan", "wire", "serve", "fetch", "tunnel"}
    /\ focus # "links" => door = (CHOOSE d \in Doors : TRUE) /\ ~hostSet /\ stranger = Links!Shut
    /\ focus # "tunnel" => name = Release!NoName /\ ~binary
    /\ focus # "keys" => security = "none"
    /\ focus # "wire" => inb = Links!Fresh("raw", "none")
    /\ focus # "fetch" => version = "pin"

Next ==
    /\ UNCHANGED focus
    /\ \/ /\ focus = "ports" /\ PortsNext
          /\ UNCHANGED <<linkVars, keyVars, scanVars, wireVars, serveVars, fetchVars,
                         tunnelVars>>
       \/ /\ focus = "links" /\ Links!LinkNext
          /\ UNCHANGED <<portVars, keyVars, scanVars, wireVars, serveVars, fetchVars,
                         tunnelVars>>
       \/ /\ focus = "keys" /\ Keys!KeyNext
          /\ UNCHANGED <<portVars, linkVars, scanVars, wireVars, serveVars, fetchVars,
                         tunnelVars>>
       \/ /\ focus = "scan" /\ Scan!ScanNext
          /\ UNCHANGED <<portVars, linkVars, keyVars, wireVars, serveVars, fetchVars,
                         tunnelVars>>
       \/ /\ focus = "wire" /\ Links!WireNext
          /\ UNCHANGED <<portVars, linkVars, keyVars, scanVars, serveVars, fetchVars,
                         tunnelVars>>
       \/ /\ focus = "serve" /\ Server!ServeNext
          /\ UNCHANGED <<portVars, linkVars, keyVars, scanVars, wireVars, fetchVars,
                         tunnelVars>>
       \/ /\ focus = "fetch" /\ Release!FetchNext
          /\ UNCHANGED <<portVars, linkVars, keyVars, scanVars, wireVars, serveVars,
                         tunnelVars>>
       \/ /\ focus = "tunnel" /\ Release!TunnelNext
          /\ UNCHANGED <<portVars, linkVars, keyVars, scanVars, wireVars, serveVars,
                         fetchVars>>

Spec == Init /\ [][Next]_panelVars

\* The shape of the state of every part.
TypeOK ==
    /\ PortsTypeOK /\ Links!LinkTypeOK /\ Keys!KeyTypeOK /\ Scan!ScanTypeOK /\ Links!WireTypeOK
    /\ Server!ServeTypeOK /\ Release!FetchTypeOK
    /\ Release!TunnelTypeOK

\* See PanelLinks: the registry of the screen is the one on the server.
FreshLinkIsServed == Links!FreshLinkIsServed

\* See PanelKeys: halves and targets fit.
KeysFit == Keys!KeysFit

\* See PanelLinks: the link of a client opens its inbound.
LinkOpensInbound == Links!LinkOpensInbound

\* See SubServe: an answer is right for a moment of its request.
AnswersAreRight == Server!AnswersAreRight

\* What an install leaves behind when it stops anywhere: see CoreFetch, the core in
\* place was checked and the screen names it, and no list without its key.
InstallIsTrue == Release!InstallIsTrue /\ Release!SourceHasItsKey

\* See CoreFetch: a name that the panel takes is one that the agent takes.
AcceptedNameIsTaken == Release!AcceptedNameIsTaken

\* See Scanner: the rows are the best, and say what the table says.
RowsAreRight == Scan!RowsAreRight
==============================================================================
