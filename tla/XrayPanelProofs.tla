--------------------------- MODULE XrayPanelProofs ---------------------------
(***************************************************************************)
(* Proofs about the panel of the proxy, for any ports, clients, keys,      *)
(* targets, registries, releases and agents.                               *)
(*                                                                         *)
(* A behaviour of XrayPanel moves one part, so there is one inductive      *)
(* invariant for each and a step lemma for it; the composition needs only  *)
(* that a part which rests keeps its invariant.                            *)
(***************************************************************************)
EXTENDS XrayPanel, RecursionLemmas, FiniteSetTheorems, SequenceTheorems, TLAPS


-----------------------------------------------------------------------------
(* The install of the core.                                                 *)

Jobs ==
    [at : {"ask", "spare", "take", "digest", "archive", "unpack"}, latest : BOOLEAN,
     want : Release!Tags, try : {"first", "pinned", "live"}, met : SUBSET Release!Tags,
     digest : {"none", "known"}]

\* What a job has been through before it is where it is.
JobIsFair ==
    /\ job \in Jobs
    /\ notice = Release!NoNotice
    /\ ~job.latest => job.try = "first" /\ job.want = Pinned /\ job.at \notin {"ask", "spare"}
    /\ job.at = "ask" => job.try = "first"
    /\ job.at = "spare" => Pinned \in job.met
    /\ job.try = "pinned" => job.want = Pinned
    /\ job.try = "live" => Pinned \in job.met
    /\ job.at \in {"digest", "archive", "unpack"} => job.want \in Releases
    /\ job.at = "unpack" => job.digest = "known"

FetchInv == (job = Release!Idle \/ JobIsFair) /\ Release!InstallIsTrue

LEMMA FetchBegins == Release!FetchInit => FetchInv
  BY DEF Release!FetchInit, FetchInv, Release!InstallIsTrue, Release!SealedOrNone,
     Release!NoticeIsTrue, Release!PinnedWasTried, Release!NoNotice

LEMMA TagsAreApart ==
    /\ Pinned \in Release!Tags /\ Pinned \in Releases
    /\ Release!NoTag \notin Release!Tags
    /\ \A t \in Release!Tags : t # Odd /\ t # Below => t \in Releases
  BY PanelConstants DEF Release!Tags, Release!FetchConstants

\* A command that ends in an error ends with a notice that is no success, and one for
\* want of a download only where the pinned release was tried.
LEMMA EndIsTrue ==
  ASSUME NEW code, FetchInv, JobIsFair, Release!Ends(code), UNCHANGED core,
         code = "download_failed" => Pinned \in job.met
  PROVE  FetchInv'
  BY DEF Release!Ends, FetchInv, Release!InstallIsTrue, Release!SealedOrNone,
     Release!NoticeIsTrue, Release!PinnedWasTried

LEMMA FailedDownload ==
  ASSUME FetchInv, JobIsFair, job.at \in {"digest", "archive"}, Release!DownloadFails
  PROVE  FetchInv'
  <1> USE TagsAreApart
  <1> DEFINE tried == [job EXCEPT !.met = @ \cup {job.want}]
  <1>1. tried \in Jobs /\ tried.met = job.met \cup {job.want}
    BY DEF JobIsFair, Jobs
  <1>2. CASE job.latest /\ job.try = "first"
    <2>1. job' = [tried EXCEPT !.at = "take", !.want = Pinned, !.try = "pinned", !.digest = "none"]
          /\ UNCHANGED <<core, panelSays, notice>>
      BY <1>2 DEF Release!DownloadFails
    <2>2. QED
      BY <1>1, <1>2, <2>1 DEF JobIsFair, Jobs, FetchInv, Release!InstallIsTrue,
         Release!SealedOrNone, Release!NoticeIsTrue, Release!PinnedWasTried
  <1>3. CASE job.try = "pinned"
    <2>1. job' = [tried EXCEPT !.at = "spare"] /\ UNCHANGED <<core, panelSays, notice>>
      BY <1>3 DEF Release!DownloadFails
    <2>2. job.latest /\ job.want = Pinned
      BY <1>3 DEF JobIsFair, Jobs
    <2>3. QED
      BY <1>1, <1>3, <2>1, <2>2 DEF JobIsFair, Jobs, FetchInv, Release!InstallIsTrue,
         Release!SealedOrNone, Release!NoticeIsTrue, Release!PinnedWasTried
  <1>4. CASE ~(job.latest /\ job.try = "first") /\ job.try # "pinned"
    <2>1. Pinned \in tried.met
      BY <1>1, <1>4 DEF JobIsFair, Jobs
    <2>2. /\ notice' = [is |-> "err", code |-> "download_failed", met |-> tried.met,
                        latest |-> job.latest]
          /\ job' = Release!Idle /\ UNCHANGED <<core, panelSays>>
      BY <1>4 DEF Release!DownloadFails
    <2>3. QED
      BY <2>1, <2>2 DEF FetchInv, Release!InstallIsTrue, Release!SealedOrNone,
         Release!NoticeIsTrue, Release!PinnedWasTried
  <1>5. QED
    BY <1>2, <1>3, <1>4

LEMMA FetchStep == FetchInv /\ Release!FetchNext => FetchInv'
  <1> SUFFICES ASSUME FetchInv, Release!FetchNext PROVE FetchInv'
    OBVIOUS
  <1> USE TagsAreApart
  <1>0. ASSUME job # Release!Idle PROVE JobIsFair
    BY <1>0 DEF FetchInv
  <1> DEFINE Same == UNCHANGED <<core, panelSays, notice>>
  <1>a. ASSUME Same, JobIsFair' PROVE FetchInv'
    BY <1>a DEF FetchInv, Release!InstallIsTrue, Release!SealedOrNone, Release!NoticeIsTrue,
       Release!PinnedWasTried
  <1>1. ASSUME NEW v \in {"pin", "latest"}, Release!SetVersion(v) PROVE FetchInv'
    BY <1>1 DEF Release!SetVersion, FetchInv, Release!InstallIsTrue, Release!SealedOrNone,
       Release!NoticeIsTrue, Release!PinnedWasTried
  <1>2. CASE Release!Press
    <2>1. JobIsFair'
      BY <1>2 DEF Release!Press, JobIsFair, Jobs
    <2>2. QED
      BY <1>2, <2>1 DEF Release!Press, FetchInv, Release!InstallIsTrue, Release!SealedOrNone,
         Release!NoticeIsTrue, Release!PinnedWasTried, Release!NoNotice
  <1>3. CASE Release!Refresh
    BY <1>3 DEF Release!Refresh, Release!Version, FetchInv, Release!InstallIsTrue,
       Release!SealedOrNone, Release!NoticeIsTrue, Release!PinnedWasTried
  <1>4. CASE Release!Astray
    BY <1>0, <1>4, EndIsTrue DEF Release!Astray, Release!Idle
  <1>5. ASSUME NEW tag \in Release!Tags \cup {Release!NoTag}, Release!Resolve(tag)
        PROVE  FetchInv'
    <2>1. JobIsFair
      BY <1>0, <1>5 DEF Release!Resolve, Release!Idle
    <2>2. job.latest
      BY <1>5, <2>1 DEF Release!Resolve, JobIsFair, Jobs
    <2>3. JobIsFair'
      BY <1>5, <2>1, <2>2 DEF Release!Resolve, JobIsFair, Jobs
    <2>4. QED
      BY <1>a, <1>5, <2>3 DEF Release!Resolve
  <1>6. ASSUME NEW tag \in Release!Tags \cup {Release!NoTag}, Release!ResolveSpare(tag)
        PROVE  FetchInv'
    <2>1. JobIsFair /\ job.at = "spare" /\ Pinned \in job.met /\ job.latest
      BY <1>0, <1>6 DEF Release!ResolveSpare, Release!Idle, JobIsFair, Jobs
    <2>2. CASE tag \in {Release!NoTag, Pinned}
      BY <1>6, <2>1, <2>2, EndIsTrue DEF Release!ResolveSpare
    <2>3. CASE tag \notin {Release!NoTag, Pinned}
      <3>1. JobIsFair'
        BY <1>6, <2>1, <2>3 DEF Release!ResolveSpare, JobIsFair, Jobs
      <3>2. QED
        BY <1>a, <1>6, <2>3, <3>1 DEF Release!ResolveSpare
    <2>4. QED
      BY <2>2, <2>3
  <1>7. CASE Release!Take
    <2>1. JobIsFair /\ job.at = "take"
      BY <1>0, <1>7 DEF Release!Take, Release!Idle
    <2>2. CASE job.want \in {Odd, Below}
      BY <1>7, <2>1, <2>2, EndIsTrue DEF Release!Take
    <2>3. CASE job.want \notin {Odd, Below}
      <3>1. job.want \in Releases
        BY <2>1, <2>3 DEF JobIsFair, Jobs
      <3>2. job' = [job EXCEPT !.at = "digest"] /\ Same
        BY <1>7, <2>3 DEF Release!Take
      <3>3. JobIsFair'
        BY <2>1, <3>1, <3>2 DEF JobIsFair, Jobs
      <3>4. QED
        BY <1>a, <3>2, <3>3
    <2>4. QED
      BY <2>2, <2>3
  <1>8. ASSUME NEW outcome \in {"there", "missing", "failed"}, Release!Digest(outcome)
        PROVE  FetchInv'
    <2>1. JobIsFair /\ job.at = "digest"
      BY <1>0, <1>8 DEF Release!Digest, Release!Idle
    <2>2. CASE outcome = "failed"
      BY <1>8, <2>1, <2>2, FailedDownload DEF Release!Digest
    <2>3. CASE outcome # "failed"
      <3>1. PICK d \in {"known", "none"} :
              job' = [job EXCEPT !.at = "archive", !.digest = d] /\ Same
        BY <1>8, <2>3 DEF Release!Digest
      <3>2. JobIsFair'
        BY <2>1, <3>1 DEF JobIsFair, Jobs
      <3>3. QED
        BY <1>a, <3>1, <3>2
    <2>4. QED
      BY <2>2, <2>3
  <1>9. ASSUME NEW outcome \in {"right", "other", "failed"}, Release!Archive(outcome)
        PROVE  FetchInv'
    <2>1. JobIsFair /\ job.at = "archive"
      BY <1>0, <1>9 DEF Release!Archive, Release!Idle
    <2>2. CASE outcome = "failed"
      BY <1>9, <2>1, <2>2, FailedDownload DEF Release!Archive
    <2>3. CASE outcome # "failed" /\ (job.digest = "none" \/ outcome = "other")
      BY <1>9, <2>1, <2>3, EndIsTrue DEF Release!Archive
    <2>4. CASE outcome # "failed" /\ ~(job.digest = "none" \/ outcome = "other")
      <3>1. job' = [job EXCEPT !.at = "unpack"] /\ Same
        BY <1>9, <2>4 DEF Release!Archive
      <3>2. JobIsFair'
        BY <2>1, <2>4, <3>1 DEF JobIsFair, Jobs
      <3>3. QED
        BY <1>a, <3>1, <3>2
    <2>5. QED
      BY <2>2, <2>3, <2>4
  <1>10. CASE Release!Unpack
    <2> DEFINE new == [tag |-> job.want, sealed |-> job.digest = "known"]
    <2>1. JobIsFair /\ job.want \in Releases /\ job.digest = "known"
      BY <1>0, <1>10 DEF Release!Unpack, Release!Idle, JobIsFair
    <2>2. /\ new.sealed = TRUE /\ new.tag = job.want
          /\ new \notin {Release!NoCore, Release!Torn}
      BY <2>1 DEF Release!NoCore, Release!Torn
    <2>3. job' = Release!Idle
      BY <1>10 DEF Release!Unpack, Release!Succeeds, Release!Ends
    <2>4. core' \in {core, Release!Torn, new}
      BY <1>10 DEF Release!Unpack
    <2>5. Release!SealedOrNone'
      BY <2>1, <2>2, <2>4 DEF FetchInv, Release!InstallIsTrue, Release!SealedOrNone
    <2>6. CASE core' = new /\ Release!Succeeds
      <3>1. Release!Version(core') = job.want
        BY <2>2, <2>6 DEF Release!Version
      <3>2. QED
        BY <2>3, <2>5, <2>6, <3>1 DEF Release!Succeeds, Release!Named, FetchInv,
           Release!InstallIsTrue, Release!NoticeIsTrue, Release!PinnedWasTried, Release!Version
    <2>7. CASE Release!Ends("unpack_failed") \/ Release!Ends("start_failed")
      BY <2>3, <2>5, <2>7 DEF Release!Ends, FetchInv,
         Release!InstallIsTrue, Release!NoticeIsTrue, Release!PinnedWasTried
    <2>8. QED
      BY <1>10, <2>6, <2>7 DEF Release!Unpack
  <1>11. QED
    BY <1>1, <1>2, <1>3, <1>4, <1>5, <1>6, <1>7, <1>8, <1>9, <1>10 DEF Release!FetchNext
-----------------------------------------------------------------------------
(* An inbound and its link.                                                 *)

\* The two halves of every pair belong together, and the flow is one that runs.
WireInv ==
    /\ inb \in Links!Inbound /\ pairs \in Nat /\ halves \in BOOLEAN
    /\ inb.private = inb.public /\ inb.secret = inb.shared
    /\ ~halves => inb.seed = inb.verify
    /\ inb.flow => Links!VisionRuns(inb)

LEMMA WireBegins == Links!WireInit => WireInv
  <1> SUFFICES ASSUME Links!WireInit PROVE WireInv
    OBVIOUS
  <1>1. PICK n \in Links!Networks, s \in Links!Securities : inb = Links!Fresh(n, s)
    BY DEF Links!WireInit
  <1>2. FirstHost \in Hosts
    BY PanelConstants DEF Links!WireConstants
  <1> USE DEF Links!Networks, Links!Securities, Links!Nothing
  <1>3. inb \in Links!Inbound
    <2> DEFINE ids == IF s = "reality" THEN {1} ELSE {}
               half == IF s = "reality" THEN 1 ELSE 0
    <2>1. ids \in SUBSET (0 .. 2) /\ half \in Nat
      OBVIOUS
    <2> DEFINE made == [network |-> n, security |-> s, sni |-> FirstHost, header |-> "-",
                        path |-> "/", service |-> "-", tag |-> "made", shortIds |-> ids,
                        private |-> half, public |-> half, seed |-> 0, verify |-> 0,
                        secret |-> 2, shared |-> 2, mode |-> "native", auth |-> "-",
                        long |-> FALSE, certs |-> FALSE, flow |-> FALSE]
    <2>2. inb = [made EXCEPT !.flow = Links!VisionRuns(made)]
      BY <1>1 DEF Links!Fresh
    <2> HIDE DEF ids, half
    <2>3. made \in Links!Inbound
      BY <1>2, <2>1 DEF Links!Inbound
    <2>4. Links!VisionRuns(made) \in BOOLEAN
      BY DEF Links!VisionRuns
    <2> HIDE DEF made
    <2>5. QED
      BY <2>2, <2>3, <2>4 DEF Links!Inbound
  <1>4. /\ inb.private = inb.public /\ inb.secret = inb.shared /\ inb.seed = inb.verify
        /\ inb.flow = Links!VisionRuns(inb)
    BY <1>1 DEF Links!Fresh, Links!VisionRuns
  <1>5. QED
    BY <1>3, <1>4 DEF Links!WireInit, WireInv

\* An inbound with another pair of encryption keys.
LEMMA PairFits ==
  ASSUME NEW i \in Links!Inbound, NEW m \in {"native", "xorpub"}, NEW l \in BOOLEAN,
         NEW p \in Nat, NEW kind \in {"x25519", "mlkem768"}
  PROVE  [i EXCEPT !.mode = m, !.secret = p, !.shared = p, !.long = l, !.auth = kind]
            \in Links!Inbound
  BY DEF Links!Inbound

LEMMA WireStep == WireInv /\ Links!WireNext => WireInv'
  <1> SUFFICES ASSUME WireInv, Links!WireNext PROVE WireInv'
    OBVIOUS
  <1>0. ASSUME NEW m \in {"native", "xorpub"}, NEW l \in BOOLEAN, Links!SetPair(m, l)
        PROVE  inb' \in Links!Inbound
    <2>1. PICK p \in Nat, kind \in {"x25519", "mlkem768"} :
            p = pairs + 1 /\ kind = IF l THEN "mlkem768" ELSE "x25519"
      BY DEF WireInv
    <2>2. inb' = [inb EXCEPT !.mode = m, !.secret = p, !.shared = p, !.long = l, !.auth = kind]
      BY <1>0, <2>1 DEF Links!SetPair, Links!StepTo
    <2>3. QED
      BY <2>2, PairFits DEF WireInv
  <1> USE DEF WireInv, Links!StepTo, Links!Plain, Links!Made, Links!Inbound, Links!VisionRuns,
              Links!Networks, Links!Securities
  <1>1. ASSUME NEW h \in Hosts, Links!SetSni(h) \/ Links!SetHeader(h) PROVE WireInv'
    BY <1>1 DEF Links!SetSni, Links!SetHeader
  <1>2. CASE Links!SetPath \/ Links!SetService \/ Links!SetShortId \/ Links!SetCerts
    <2>1. CASE Links!SetPath
      BY <2>1 DEF Links!SetPath
    <2>2. CASE Links!SetService
      BY <2>2 DEF Links!SetService
    <2>3. CASE Links!SetShortId
      BY <2>3 DEF Links!SetShortId
    <2>4. CASE Links!SetCerts
      BY <2>4 DEF Links!SetCerts
    <2>5. QED
      BY <1>2, <2>1, <2>2, <2>3, <2>4
  <1>3. ASSUME NEW flows \in BOOLEAN, Links!SetFlow(flows) PROVE WireInv'
    BY <1>3 DEF Links!SetFlow
  <1>4. ASSUME NEW v \in {0, Links!Half}, Links!TypeHalf(v) PROVE WireInv'
    <2>1. v \in Nat
      BY PanelConstants DEF Links!Half, Links!WireConstants
    <2>2. halves' = TRUE /\ pairs' = pairs
      BY <1>4 DEF Links!TypeHalf
    <2>3. CASE inb' = [inb EXCEPT !.verify = v]
      BY <2>1, <2>2, <2>3
    <2>4. CASE inb' = [inb EXCEPT !.seed = v, !.verify = IF v = 0 THEN 0 ELSE @]
      BY <2>1, <2>2, <2>4
    <2>5. QED
      BY <1>4, <2>3, <2>4 DEF Links!TypeHalf
  <1>5. CASE Links!SetKeys
    <2>1. PICK p \in Nat : p = pairs + 1
      OBVIOUS
    <2>2. inb' = [inb EXCEPT !.private = p, !.public = p] /\ pairs' = p /\ halves' = halves
      BY <1>5, <2>1 DEF Links!SetKeys
    <2>3. QED
      BY <2>2
  <1>6. CASE Links!SetSignature
    <2>1. PICK p \in Nat : p = pairs + 1
      OBVIOUS
    <2>2. inb' = [inb EXCEPT !.seed = p, !.verify = p] /\ pairs' = p /\ halves' = halves
      BY <1>6, <2>1 DEF Links!SetSignature
    <2>3. QED
      BY <2>2
  <1>7. ASSUME NEW m \in {"native", "xorpub"}, NEW l \in BOOLEAN, Links!SetPair(m, l)
        PROVE  WireInv'
    <2>1. PICK p \in Nat, kind \in {"x25519", "mlkem768"} :
            p = pairs + 1 /\ kind = IF l THEN "mlkem768" ELSE "x25519"
      OBVIOUS
    <2>2. /\ inb' = [inb EXCEPT !.mode = m, !.secret = p, !.shared = p, !.long = l, !.auth = kind]
          /\ pairs' = p /\ halves' = halves
      BY <1>7, <2>1 DEF Links!SetPair
    <2>3. inb' \in Links!Inbound
      BY <1>0, <1>7
    <2>4. /\ inb'.secret = p /\ inb'.shared = p
          /\ inb'.private = inb.private /\ inb'.public = inb.public
          /\ inb'.seed = inb.seed /\ inb'.verify = inb.verify
          /\ inb'.flow = inb.flow /\ inb'.network = inb.network /\ inb'.security = inb.security
      BY <2>2
    <2>5. QED
      BY <2>2, <2>3, <2>4
  <1>8. ASSUME NEW s \in {"reality", "tls"}, NEW k \in BOOLEAN, Links!Switch(s, k) PROVE WireInv'
    <2>1. PICK half \in Nat, other \in Nat :
            /\ inb' = [inb EXCEPT !.security = s, !.seed = half, !.verify = other]
            /\ (half = inb.seed /\ other = inb.verify) \/ (half = 0 /\ other = 0)
            /\ inb.security \in {"reality", "tls"} /\ UNCHANGED <<pairs, halves>>
      BY <1>8 DEF Links!Switch
    <2>2. PICK i \in Links!Inbound : i = [inb EXCEPT !.security = s]
      OBVIOUS
    <2>3. inb' = [i EXCEPT !.seed = half, !.verify = other]
      BY <2>1, <2>2
    <2>4. inb' \in Links!Inbound
      BY <2>3
    <2>5. /\ inb'.seed = half /\ inb'.verify = other /\ inb'.security = s
          /\ inb'.private = inb.private /\ inb'.public = inb.public
          /\ inb'.secret = inb.secret /\ inb'.shared = inb.shared
          /\ inb'.flow = inb.flow /\ inb'.network = inb.network
      BY <2>2, <2>3
    <2>6. QED
      BY <2>1, <2>4, <2>5
  <1>9. CASE Links!Restart
    BY <1>9 DEF Links!Restart, Links!ReadAgain, Links!AuthKind
  <1>10. QED
    BY <1>1, <1>2, <1>3, <1>4, <1>5, <1>6, <1>7, <1>8, <1>9 DEF Links!WireNext

LEMMA WireOpens == WireInv => LinkOpensInbound
  <1> SUFFICES ASSUME WireInv, ~halves
               PROVE  Links!Opens(Links!Link(inb), Links!Server(inb))
    BY DEF LinkOpensInbound, Links!LinkOpensInbound
  <1> USE DEF WireInv, Links!Inbound
  <1>1. inb.sni \in Links!NamesOf(inb)
    BY PanelConstants DEF Links!NamesOf, Links!WireConstants
  <1>2. (CHOOSE x \in Links!IdsOf(inb) : TRUE) \in Links!IdsOf(inb)
    BY DEF Links!IdsOf
  <1>3. QED
    BY <1>1, <1>2 DEF Links!Opens, Links!Link, Links!Server

-----------------------------------------------------------------------------
(* The link on the screen.                                                  *)

\* Since the last registry was built nothing was changed: it is on its way, or
\* on the server, with the service kept on its port if that was to be had.
LinkInv ==
    settled => IF call = "sync" THEN load = [reg |-> Links!SubRegistry, port |-> door]
               ELSE registry = Links!SubRegistry /\ (opened = door \/ stranger = door)

LEMMA LinkBegins == Links!LinkInit => LinkInv
  BY DEF Links!LinkInit, LinkInv

\* The registry is that of the clients there are.
LEMMA RegistryOfClients ==
  ASSUME UNCHANGED inbounds
  PROVE  Links!SubRegistry' = Links!SubRegistry
  <1>1. Links!Clients' = Links!Clients
    BY DEF Links!Clients
  <1>2. Links!Links' = Links!Links
    BY <1>1 DEF Links!Links
  <1>3. Links!Path' = Links!Path
    BY <1>1 DEF Links!Path, Links!PairOf, Links!Before
  <1>4. QED
    BY <1>2, <1>3 DEF Links!SubRegistry

LEMMA LinkStep == LinkInv /\ Links!LinkNext => LinkInv'
  <1> SUFFICES ASSUME LinkInv, Links!LinkNext PROVE LinkInv'
    OBVIOUS
  <1>1. ASSUME Links!Touched PROVE LinkInv'
    BY <1>1 DEF Links!Touched, LinkInv
  <1>2. CASE Links!SubsApply
    <2>1. /\ call = "none" /\ call' = "install"
          /\ UNCHANGED <<inbounds, door, opened, stranger, registry, settled>>
      BY <1>2 DEF Links!SubsApply, Links!Press, Links!serviceVars, Links!runVars
    <2>2. QED
      BY <2>1, RegistryOfClients DEF LinkInv
  <1>3. CASE Links!Installed
    <2>1. call = "install" /\ UNCHANGED <<inbounds, door, opened, stranger, registry>>
      BY <1>3 DEF Links!Installed, Links!serviceVars, Links!runVars
    <2>2. CASE call' = "sync" /\ Links!Build
      BY <2>1, <2>2, RegistryOfClients DEF LinkInv, Links!Build
    <2>3. CASE call' = "none" /\ UNCHANGED <<load, settled>>
      BY <2>1, <2>3, RegistryOfClients DEF LinkInv
    <2>4. QED
      BY <1>3, <2>2, <2>3 DEF Links!Installed
  <1>4. CASE Links!Synced
    <2>1. call = "sync" /\ call' = "none" /\ UNCHANGED <<inbounds, door, stranger>>
      BY <1>4 DEF Links!Synced
    <2>2. CASE registry' = load.reg /\ UNCHANGED settled /\ (Links!Keeps \/ Links!Restarts)
      <3>1. opened' = load.port \/ stranger = load.port
        BY <2>2 DEF Links!Keeps, Links!Restarts, Links!Listening, Links!runVars
      <3>2. QED
        BY <2>1, <2>2, <3>1, RegistryOfClients DEF LinkInv
    <2>3. CASE Links!Touched
      BY <1>1, <2>3
    <2>4. QED
      BY <1>4, <2>2, <2>3 DEF Links!Synced
  <1>5. CASE Links!Push
    <2>1. call' = "sync" /\ Links!Build /\ UNCHANGED <<inbounds, door>>
      BY <1>5 DEF Links!Push
    <2>2. QED
      BY <2>1, RegistryOfClients DEF LinkInv, Links!Build
  <1>6. CASE Links!SubsStatus \/ Links!ServiceRuns
    <2>1. UNCHANGED <<inbounds, door, opened, stranger, registry, call, load, settled>>
      BY <1>6 DEF Links!SubsStatus, Links!ServiceRuns, Links!serviceVars, Links!runVars
    <2>2. QED
      BY <2>1, RegistryOfClients DEF LinkInv
  <1>7. CASE \/ Links!CreateInbound \/ Links!RotateAll \/ Links!TunnelOff \/ Links!SubsStop
             \/ \E k \in DOMAIN inbounds :
                   \/ Links!ToggleInbound(k) \/ Links!RemoveInbound(k)
                   \/ \E n \in 1 .. Names : Links!RemoveClient(k, n) \/ Links!AddClient(k, n)
             \/ \E n \in 1 .. Names : Links!Rotate(n)
             \/ \E p \in Doors : Links!TypeDoor(p)
             \/ \E set \in BOOLEAN : Links!TypeHost(set)
    <2>1. Links!Touched
      BY <1>7, Zenon DEF Links!CreateInbound, Links!RotateAll, Links!TunnelOff, Links!SubsStop,
         Links!ToggleInbound, Links!RemoveInbound, Links!RemoveClient, Links!AddClient,
         Links!Rotate, Links!TypeDoor, Links!TypeHost
    <2>2. QED
      BY <1>1, <2>1
  <1>8. QED
    BY <1>2, <1>3, <1>4, <1>5, <1>6, <1>7, Zenon DEF Links!LinkNext

LEMMA LinkIsFresh == LinkInv => FreshLinkIsServed
  BY DEF LinkInv, FreshLinkIsServed, Links!FreshLinkIsServed

-----------------------------------------------------------------------------
(* The keys of one inbound.                                                 *)

\* Nothing but reality waits for a signature; a switch that waits for one has
\* looked whether the target has the chain for it.
KeyInv ==
    /\ minted \in Nat /\ KeysFit
    /\ waits \in {"mldsa", "switch"} => security = "reality"
    /\ waits = "switch" => Keys!Fits(result, [tls |-> FALSE, mldsa |-> TRUE, group |-> group])

LEMMA KeyBegins == Keys!KeyInit => KeyInv
  BY DEF Keys!KeyInit, KeyInv, KeysFit, Keys!KeysFit, Keys!SignatureIsWhole, Keys!TargetFits

LEMMA KeyStep == KeyInv /\ Keys!KeyNext => KeyInv'
  <1> SUFFICES ASSUME KeyInv, Keys!KeyNext PROVE KeyInv'
    OBVIOUS
  <1> USE DEF KeyInv, KeysFit, Keys!KeysFit, Keys!SignatureIsWhole, Keys!TargetFits, Keys!pair,
              Keys!Free, Keys!Mint, Keys!Kind
  <1>1. CASE (\E t \in Targets : Keys!Scan(t)) \/ Keys!Regen \/ Keys!Encrypt \/ Keys!Sign
    BY <1>1 DEF Keys!Scan, Keys!Regen, Keys!Encrypt, Keys!Sign
  <1>2. CASE Keys!Regenerated \/ Keys!Encrypted
    BY <1>2 DEF Keys!Regenerated, Keys!Encrypted
  <1>3. CASE Keys!Signed
    BY <1>3 DEF Keys!Signed, Keys!Store
  <1>4. CASE Keys!Unsign
    BY <1>4 DEF Keys!Unsign, Keys!Fits, Keys!None
  <1>5. CASE Keys!Use
    BY <1>5 DEF Keys!Use
  <1>6. ASSUME NEW k \in Keys!Kinds, Keys!Switch(k) PROVE KeyInv'
    <2>1. /\ k.tls \in BOOLEAN /\ k.mldsa \in BOOLEAN /\ k.mldsa => ~k.tls
          /\ waits = "none" /\ Keys!Fits(result, k) /\ Keys!DropPair(k)
          /\ security' = (IF k.tls THEN "tls" ELSE "reality") /\ group' = k.group
          /\ UNCHANGED <<result, minted>>
      BY <1>6 DEF Keys!Kinds, Keys!Switch
    <2>2. Keys!SignatureIsWhole'
      BY <2>1 DEF Keys!DropPair
    <2>3. CASE k.mldsa /\ (seed = Keys!None \/ verify = Keys!None)
      <3>1. waits' = "switch" /\ sure' = FALSE
        BY <1>6, <2>3 DEF Keys!Switch
      <3>2. Keys!Fits(result, [tls |-> FALSE, mldsa |-> TRUE, group |-> k.group])
        BY <2>1, <2>3 DEF Keys!Fits
      <3>3. Keys!Fits(result, [tls |-> FALSE, mldsa |-> TRUE, group |-> group])'
        BY <2>1, <3>2 DEF Keys!Fits
      <3>4. QED
        BY <2>1, <2>2, <2>3, <3>1, <3>3
    <2>4. CASE ~(k.mldsa /\ (seed = Keys!None \/ verify = Keys!None))
      <3>1. target' = result /\ waits' = "none"
        BY <1>6, <2>1, <2>4 DEF Keys!Switch
      <3>2. /\ (security' = "tls") <=> k.tls
            /\ (security' = "reality" /\ seed' # Keys!None /\ verify' # Keys!None) => k.mldsa
        BY <2>1, <2>4 DEF Keys!DropPair
      <3>3. Keys!Fits(target, Keys!Kind)'
        BY <2>1, <3>1, <3>2 DEF Keys!Fits
      <3>4. QED
        BY <2>1, <2>2, <3>1, <3>3
    <2>5. QED
      BY <2>3, <2>4
  <1>7. CASE Keys!Switched
    <2>1. /\ waits = "switch" /\ waits' = "none" /\ security = "reality"
          /\ UNCHANGED <<security, group, result>>
      BY <1>7 DEF Keys!Switched
    <2>2. CASE Keys!Mint /\ Keys!Store /\ target' = result /\ sure' = TRUE
      <3>1. seed' = verify' /\ seed' # Keys!None
        BY <2>2 DEF Keys!Store, Keys!None
      <3>2. Keys!Kind' = [tls |-> FALSE, mldsa |-> TRUE, group |-> group]
        BY <2>1, <3>1
      <3>3. QED
        BY <2>1, <2>2, <3>1, <3>2 DEF Keys!Fits
    <2>3. CASE UNCHANGED <<seed, verify, target, sure, minted>>
      BY <2>1, <2>3
    <2>4. QED
      BY <1>7, <2>2, <2>3 DEF Keys!Switched
  <1>8. CASE Keys!TypeTarget
    BY <1>8 DEF Keys!TypeTarget
  <1>9. ASSUME NEW c \in BOOLEAN, NEW f \in BOOLEAN, Keys!TypeCert(c, f) PROVE KeyInv'
    BY <1>9 DEF Keys!TypeCert
  <1>10. ASSUME NEW h \in {Keys!None, Keys!Typed}, Keys!TypeSeed(h) PROVE KeyInv'
    <2>1. CASE h = Keys!None
      BY <1>10, <2>1 DEF Keys!TypeSeed, Keys!Fits, Keys!None
    <2>2. CASE h # Keys!None
      BY <1>10, <2>2 DEF Keys!TypeSeed
    <2>3. QED
      BY <2>1, <2>2
  <1>11. ASSUME NEW h \in {Keys!None, Keys!Typed}, Keys!TypeVerify(h) PROVE KeyInv'
    BY <1>11 DEF Keys!TypeVerify
  <1>12. QED
    BY <1>1, <1>2, <1>3, <1>4, <1>5, <1>6, <1>7, <1>8, <1>9, <1>10, <1>11, Zenon
    DEF Keys!KeyNext

-----------------------------------------------------------------------------
(* The public name.                                                         *)

LEMMA SourceBegins == Release!TunnelInit => Release!SourceHasItsKey
  BY DEF Release!TunnelInit, Release!SourceHasItsKey

\* The list comes with the key, and nothing takes either away.
LEMMA SourceStep == Release!SourceHasItsKey /\ Release!TunnelNext => Release!SourceHasItsKey'
  <1> SUFFICES ASSUME Release!SourceHasItsKey, Release!TunnelNext PROVE Release!SourceHasItsKey'
    OBVIOUS
  <1>1. ASSUME UNCHANGED sources PROVE Release!SourceHasItsKey'
    BY <1>1 DEF Release!SourceHasItsKey
  <1>2. ASSUME NEW a \in Agents, Release!FetchKey(a) PROVE Release!SourceHasItsKey'
    BY <1>2 DEF Release!FetchKey, Release!Fails, Release!serverVars, Release!SourceHasItsKey
  <1>3. ASSUME NEW a \in Agents, Release!WriteList(a) PROVE Release!SourceHasItsKey'
    BY <1>3 DEF Release!WriteList, Release!SourceHasItsKey
  <1>4. ASSUME NEW a \in Agents,
               \/ \E verb \in {"status", "install", "up", "off"} : Release!Ask(a, verb)
               \/ Release!Status(a) \/ Release!InstallKnown(a) \/ Release!Package(a) \/ Release!Up(a)
               \/ Release!Off(a)
        PROVE  UNCHANGED sources
    BY <1>4 DEF Release!Ask, Release!Status, Release!InstallKnown, Release!Package, Release!Up, Release!Off,
       Release!serverVars
  <1>5. CASE \/ \E n \in {Release!NoName} \cup Release!PanelNames : Release!TypeName(n)
             \/ \E set \in BOOLEAN : Release!TypeKey(set)
             \/ Release!RestartBot \/ Release!Admin \/ Release!Deny \/ Release!GiveUp \/ Release!Reboot
    BY <1>1, <1>5 DEF Release!TypeName, Release!TypeKey, Release!RestartBot, Release!Admin, Release!Deny,
       Release!GiveUp, Release!Reboot, Release!serverVars
  <1>6. QED
    BY <1>1, <1>2, <1>3, <1>4, <1>5, Zenon DEF Release!TunnelNext

-----------------------------------------------------------------------------
(* The server of the subscriptions.                                         *)

Codes == {0, 200, 403, 404}
Requests ==
    [at : Server!Places \ {"free"}, from : Nat \ {0}, stamp : Nat, body : Server!PathStates,
     code : Codes, who : People, counted : People]

\* The body is that of the path between two moments.
Between(body, first, last) == \E v \in first .. last : v > 0 /\ files[v] = body

\* What a request holds at each place: what it read is not older than its stamp,
\* and that not older than itself; it found nothing to read at a moment of its own.
Unread(ask) == ask.body = Server!Silent
MayAnswer(ask) ==
    \/ Between(ask.body, ask.from, Server!Now)
    \/ /\ Unread(ask)
       /\ \E v \in ask.from .. Server!Now : files[v] \in {Server!Absent, Server!Broken}

AskHolds(ask) ==
    /\ ask.from <= Server!Now /\ ask.counted = ask.who
    /\ ask.at \in {"stat", "open"} => Unread(ask)
    /\ ask.at \in {"open", "load"} => ask.stamp \in ask.from .. Server!Now
    /\ ask.at = "load" => Between(ask.body, ask.stamp, Server!Now)
    /\ ask.at = "answer" => MayAnswer(ask)
    /\ ask.at = "done" => \E v \in ask.from .. Server!Now :
                              /\ ask.code \in Server!Right(files[v])
                              /\ ask.code = 200 => ask.body = files[v]

\* The cache holds what the path has been since the stamp it is kept under.
CacheHolds ==
    /\ cache.key \in Nat /\ cache.key <= Server!Now /\ cache.body \in Server!PathStates
    /\ cache.key # 0 => Between(cache.body, cache.key, Server!Now)

ServeInv ==
    /\ files \in Seq(Server!PathStates) /\ files # <<>>
    /\ cache \in [key : Nat, body : Server!PathStates]
    /\ asks \in [Readers -> {Server!NoAsk} \cup Requests]
    /\ CacheHolds
    /\ \A r \in Readers : asks[r] # Server!NoAsk => AskHolds(asks[r])

LEMMA ServeBegins == Server!ServeInit => ServeInv
  <1> SUFFICES ASSUME Server!ServeInit PROVE ServeInv
    OBVIOUS
  <1>1. Server!Absent \in Server!PathStates /\ Server!Silent \in Server!PathStates
    BY DEF Server!PathStates
  <1>2. files \in Seq(Server!PathStates) /\ files # <<>>
    BY <1>1 DEF Server!ServeInit
  <1>3. cache \in [key : Nat, body : Server!PathStates] /\ CacheHolds
    BY <1>1, <1>2 DEF Server!ServeInit, CacheHolds, Server!Now
  <1>4. asks \in [Readers -> {Server!NoAsk} \cup Requests]
        /\ \A r \in Readers : asks[r] = Server!NoAsk
    BY DEF Server!ServeInit
  <1>5. QED
    BY <1>2, <1>3, <1>4, Zenon DEF ServeInv

\* A request goes on, while the path stays what it is.
LEMMA RequestMoves ==
  ASSUME ServeInv, NEW r \in Readers, NEW ask \in {Server!NoAsk} \cup Requests,
         asks' = [asks EXCEPT ![r] = ask], ask # Server!NoAsk => AskHolds(ask),
         UNCHANGED files, cache' \in [key : Nat, body : Server!PathStates], CacheHolds'
  PROVE  ServeInv'
  <1>1. asks' \in [Readers -> {Server!NoAsk} \cup Requests]
    BY DEF ServeInv
  <1>2. ASSUME NEW q \in Readers, asks'[q] # Server!NoAsk PROVE AskHolds(asks[q])'
    <2>1. AskHolds(ask) => AskHolds(ask)'
      BY DEF AskHolds, Between, MayAnswer, Server!Now
    <2>2. AskHolds(asks[q]) /\ asks'[q] = asks[q] => AskHolds(asks[q])'
      BY DEF AskHolds, Between, MayAnswer, Server!Now, Unread
    <2>3. CASE q = r
      BY <1>2, <2>1, <2>3 DEF ServeInv, AskHolds, Between, MayAnswer, Server!Now, Unread
    <2>4. CASE q # r
      BY <1>2, <2>2, <2>4 DEF ServeInv
    <2>5. QED
      BY <2>3, <2>4
  <1>3. QED
    BY <1>1, <1>2, Zenon DEF ServeInv

\* An answer to what was read is right for what was read.
LEMMA VerdictIsRight ==
  ASSUME NEW body
  PROVE  /\ Server!Verdict(body) \in Server!Right(body)
         /\ Server!Verdict(body) \in Codes
         /\ Server!Verdict(Server!Silent) = 404
  BY DEF Server!Verdict, Server!Right, Server!Silent, Codes

LEMMA AskStep ==
  ASSUME ServeInv, NEW r \in Readers, NEW who \in People, NEW wrote \in Server!Wrote,
         NEW direct \in People \cup {"none"}, Server!Ask(r, who, wrote, direct)
  PROVE  ServeInv'
  <1>1. PICK peer \in Proxies \cup {who} :
          asks' = [asks EXCEPT ![r] =
             [at |-> "stat", from |-> Server!Now, stamp |-> 0, body |-> Server!Silent, code |-> 0,
              who |-> who,
              counted |-> Server!ClientIp(peer,
                             IF peer = who THEN wrote ELSE Append(wrote, who), direct)]]
    BY DEF Server!Ask
  <1> DEFINE forward == IF peer = who THEN wrote ELSE Append(wrote, who)
  <1>2. Server!ClientIp(peer, forward, direct) = who
    <2>1. CASE peer = who
      BY <2>1, PanelConstants DEF Server!ClientIp, Server!ServeConstants
    <2>2. CASE peer # who
      <3>1. wrote \in Seq(People)
        <4>1. CASE wrote = <<>>
          BY <4>1
        <4>2. ASSUME NEW a \in People, wrote = <<a>> PROVE wrote \in Seq(People)
          BY <4>2
        <4>3. QED
          BY <4>1, <4>2 DEF Server!Wrote
      <3>2. Append(wrote, who) # <<>> /\ Append(wrote, who)[Len(Append(wrote, who))] = who
        BY <3>1
      <3>3. QED
        BY <2>2, <3>2 DEF Server!ClientIp
    <2>3. QED
      BY <2>1, <2>2
  <1>3. PICK ask : ask = [at |-> "stat", from |-> Server!Now, stamp |-> 0, body |-> Server!Silent,
                          code |-> 0, who |-> who, counted |-> who]
    OBVIOUS
  <1>4. asks' = [asks EXCEPT ![r] = ask]
    BY <1>1, <1>2, <1>3, Zenon
  <1>5. Server!Now \in Nat \ {0}
    BY DEF ServeInv, Server!Now
  <1>6. ask \in Requests
    BY <1>3, <1>5 DEF Requests, Codes, Server!PathStates, Server!Places
  <1>7. AskHolds(ask)
    BY <1>3, <1>5 DEF AskHolds, Unread
  <1>8. UNCHANGED <<files, cache>>
    BY DEF Server!Ask
  <1>9. CacheHolds'
    BY <1>8 DEF ServeInv, CacheHolds, Between, Server!Now
  <1>10. QED
    BY <1>4, <1>6, <1>7, <1>8, <1>9, RequestMoves DEF ServeInv

\* A request that is under way, and the one it becomes.
LEMMA Underway ==
  ASSUME ServeInv, NEW r \in Readers, asks[r].at # "free"
  PROVE  asks[r] \in Requests /\ AskHolds(asks[r])
  BY DEF ServeInv, Server!NoAsk

\* A request with two fields changed.
LEMMA Changed ==
  ASSUME NEW was \in Requests, NEW place \in Server!Places \ {"free"}
  PROVE  /\ \A kept \in Server!PathStates : [was EXCEPT !.at = place, !.body = kept] \in Requests
         /\ \A stamp \in Nat : [was EXCEPT !.at = place, !.stamp = stamp] \in Requests
         /\ \A code \in Codes : [was EXCEPT !.at = place, !.code = code] \in Requests
  <1>1. PICK moved \in Requests : moved = [was EXCEPT !.at = place]
    BY DEF Requests
  <1>2. ASSUME NEW kept \in Server!PathStates
        PROVE  [was EXCEPT !.at = place, !.body = kept] \in Requests
    <2>1. [moved EXCEPT !.body = kept] \in Requests
      BY DEF Requests
    <2>2. [was EXCEPT !.at = place, !.body = kept] = [moved EXCEPT !.body = kept]
      BY <1>1 DEF Requests
    <2>3. QED
      BY <2>1, <2>2
  <1>3. ASSUME NEW stamp \in Nat PROVE [was EXCEPT !.at = place, !.stamp = stamp] \in Requests
    <2>1. [moved EXCEPT !.stamp = stamp] \in Requests
      BY DEF Requests
    <2>2. [was EXCEPT !.at = place, !.stamp = stamp] = [moved EXCEPT !.stamp = stamp]
      BY <1>1 DEF Requests
    <2>3. QED
      BY <2>1, <2>2
  <1>4. ASSUME NEW code \in Codes PROVE [was EXCEPT !.at = place, !.code = code] \in Requests
    <2>1. [moved EXCEPT !.code = code] \in Requests
      BY DEF Requests
    <2>2. [was EXCEPT !.at = place, !.code = code] = [moved EXCEPT !.code = code]
      BY <1>1 DEF Requests
    <2>3. QED
      BY <2>1, <2>2
  <1>5. QED
    BY <1>2, <1>3, <1>4

LEMMA StatStep ==
  ASSUME ServeInv, NEW r \in Readers, Server!Stat(r)
  PROVE  ServeInv'
  <1>1. asks[r].at = "stat" /\ UNCHANGED files
    BY DEF Server!Stat, Server!At
  <1>2. PICK was \in Requests : was = asks[r] /\ AskHolds(was)
    BY <1>1, Underway
  <1>3. Server!Now \in Nat \ {0} /\ files[Server!Now] \in Server!PathStates
    BY DEF ServeInv, Server!Now
  <1>4. CASE files[Server!Now] = Server!Absent
    <2>1. PICK ask : ask = [was EXCEPT !.at = "answer"]
      OBVIOUS
    <2>2. asks' = [asks EXCEPT ![r] = ask] /\ cache' = [key |-> 0, body |-> Server!Silent]
      BY <1>2, <1>4, <2>1 DEF Server!Stat
    <2>3. ask \in Requests
      BY <2>1 DEF Requests, Server!Places
    <2>4. AskHolds(ask)
      BY <1>1, <1>2, <1>3, <1>4, <2>1 DEF AskHolds, MayAnswer, Requests, Unread
    <2>5. cache' \in [key : Nat, body : Server!PathStates] /\ CacheHolds'
      BY <1>1, <1>3, <2>2 DEF CacheHolds, Server!PathStates, Server!Now
    <2>6. QED
      BY <1>1, <2>2, <2>3, <2>4, <2>5, RequestMoves
  <1>5. CASE files[Server!Now] # Server!Absent /\ cache.key = Server!Now
    <2>1. PICK ask : ask = [was EXCEPT !.at = "answer", !.body = cache.body]
      OBVIOUS
    <2>2. asks' = [asks EXCEPT ![r] = ask] /\ UNCHANGED cache
      BY <1>2, <1>5, <2>1 DEF Server!Stat
    <2>3. ask \in Requests
      BY <2>1, Changed DEF Server!Places, ServeInv
    <2>4. Between(cache.body, Server!Now, Server!Now)
      BY <1>3, <1>5 DEF ServeInv, CacheHolds
    <2>5. AskHolds(ask)
      BY <1>1, <1>2, <1>3, <2>1, <2>4 DEF AskHolds, MayAnswer, Requests, Between
    <2>6. CacheHolds'
      BY <1>1, <2>2 DEF ServeInv, CacheHolds, Between, Server!Now
    <2>7. QED
      BY <1>1, <2>2, <2>3, <2>5, <2>6, RequestMoves DEF ServeInv
  <1>6. CASE files[Server!Now] # Server!Absent /\ cache.key # Server!Now
    <2>1. PICK ask : ask = [was EXCEPT !.at = "open", !.stamp = Server!Now]
      OBVIOUS
    <2>2. asks' = [asks EXCEPT ![r] = ask] /\ UNCHANGED cache
      BY <1>2, <1>6, <2>1 DEF Server!Stat
    <2>3. ask \in Requests
      BY <1>3, <2>1, Changed DEF Server!Places
    <2>4. AskHolds(ask)
      BY <1>1, <1>2, <1>3, <2>1 DEF AskHolds, Requests, Unread
    <2>5. CacheHolds'
      BY <1>1, <2>2 DEF ServeInv, CacheHolds, Between, Server!Now
    <2>6. QED
      BY <1>1, <2>2, <2>3, <2>4, <2>5, RequestMoves DEF ServeInv
  <1>7. QED
    BY <1>4, <1>5, <1>6

LEMMA OpenStep ==
  ASSUME ServeInv, NEW r \in Readers, Server!Open(r)
  PROVE  ServeInv'
  <1>1. asks[r].at = "open" /\ UNCHANGED <<files, cache>>
    BY DEF Server!Open, Server!At
  <1>2. PICK was \in Requests : was = asks[r] /\ AskHolds(was)
    BY <1>1, Underway
  <1>3. Server!Now \in Nat \ {0} /\ files[Server!Now] \in Server!PathStates
    BY DEF ServeInv, Server!Now
  <1>4. CacheHolds'
    BY <1>1 DEF ServeInv, CacheHolds, Between, Server!Now
  <1>5. CASE files[Server!Now] \in {Server!Absent, Server!Broken}
    <2>1. PICK ask : ask = [was EXCEPT !.at = "answer"]
      OBVIOUS
    <2>2. asks' = [asks EXCEPT ![r] = ask]
      BY <1>2, <1>5, <2>1 DEF Server!Open
    <2>3. ask \in Requests
      BY <2>1 DEF Requests, Server!Places
    <2>4. AskHolds(ask)
      BY <1>1, <1>2, <1>3, <1>5, <2>1 DEF AskHolds, MayAnswer, Requests, Unread
    <2>5. QED
      BY <1>1, <1>4, <2>2, <2>3, <2>4, RequestMoves DEF ServeInv
  <1>6. CASE files[Server!Now] \notin {Server!Absent, Server!Broken}
    <2>1. PICK ask : ask = [was EXCEPT !.at = "load", !.body = files[Server!Now]]
      OBVIOUS
    <2>2. asks' = [asks EXCEPT ![r] = ask]
      BY <1>2, <1>6, <2>1 DEF Server!Open
    <2>3. ask \in Requests
      BY <1>3, <2>1, Changed DEF Server!Places
    <2>4. AskHolds(ask)
      BY <1>1, <1>2, <1>3, <2>1 DEF AskHolds, Between, Requests
    <2>5. QED
      BY <1>1, <1>4, <2>2, <2>3, <2>4, RequestMoves DEF ServeInv
  <1>7. QED
    BY <1>5, <1>6

LEMMA LoadStep ==
  ASSUME ServeInv, NEW r \in Readers, Server!Load(r)
  PROVE  ServeInv'
  <1>1. asks[r].at = "load" /\ UNCHANGED files
    BY DEF Server!Load, Server!At
  <1>2. PICK was \in Requests : was = asks[r] /\ AskHolds(was)
    BY <1>1, Underway
  <1>3. PICK ask : ask = [was EXCEPT !.at = "answer"]
    OBVIOUS
  <1>4. asks' = [asks EXCEPT ![r] = ask] /\ cache' = [key |-> was.stamp, body |-> was.body]
    BY <1>2, <1>3 DEF Server!Load, Server!Goes
  <1>5. ask \in Requests
    BY <1>3 DEF Requests, Server!Places
  <1>6. Server!Now \in Nat \ {0}
    BY DEF ServeInv, Server!Now
  <1>7. was.stamp \in was.from .. Server!Now /\ Between(was.body, was.stamp, Server!Now)
    BY <1>1, <1>2 DEF AskHolds
  <1>8. AskHolds(ask)
    BY <1>2, <1>3, <1>6, <1>7 DEF AskHolds, MayAnswer, Between, Requests
  <1>9. cache' \in [key : Nat, body : Server!PathStates]
    BY <1>4, <1>7 DEF Requests
  <1>10. CacheHolds'
    BY <1>1, <1>4, <1>6, <1>7 DEF CacheHolds, Between, Server!Now, Requests
  <1>11. QED
    BY <1>1, <1>4, <1>5, <1>8, <1>9, <1>10, RequestMoves

LEMMA ReplyStep ==
  ASSUME ServeInv, NEW r \in Readers, Server!Reply(r)
  PROVE  ServeInv'
  <1>1. asks[r].at = "answer" /\ UNCHANGED <<files, cache>>
    BY DEF Server!Reply, Server!At
  <1>2. PICK was \in Requests : was = asks[r] /\ AskHolds(was)
    BY <1>1, Underway
  <1>3. PICK ask : ask = [was EXCEPT !.at = "done", !.code = Server!Verdict(was.body)]
    OBVIOUS
  <1>4. asks' = [asks EXCEPT ![r] = ask]
    BY <1>2, <1>3 DEF Server!Reply, Server!Answers
  <1>5. ask \in Requests
    <2>1. PICK code \in Codes : code = Server!Verdict(was.body)
      BY VerdictIsRight
    <2>2. "done" \in Server!Places \ {"free"}
      BY DEF Server!Places
    <2>3. [was EXCEPT !.at = "done", !.code = code] \in Requests
      BY <2>2, Changed, Zenon
    <2>4. QED
      BY <1>3, <2>1, <2>3
  <1>6. \E v \in ask.from .. Server!Now :
           ask.code \in Server!Right(files[v]) /\ (ask.code = 200 => ask.body = files[v])
    <2>1. ask.from = was.from /\ ask.body = was.body /\ ask.code = Server!Verdict(was.body)
      BY <1>3 DEF Requests
    <2>2. CASE Between(was.body, was.from, Server!Now)
      <3>1. PICK v \in was.from .. Server!Now : files[v] = was.body
        BY <2>2 DEF Between
      <3>2. QED
        BY <2>1, <3>1, VerdictIsRight
    <2>3. CASE was.body = Server!Silent
               /\ \E v \in was.from .. Server!Now : files[v] \in {Server!Absent, Server!Broken}
      <3>1. PICK v \in was.from .. Server!Now : files[v] \in {Server!Absent, Server!Broken}
        BY <2>3
      <3>2. 404 \in Server!Right(files[v])
        BY <3>1 DEF Server!Right, Server!Absent, Server!Broken
      <3>3. QED
        BY <2>1, <2>3, <3>1, <3>2, VerdictIsRight
    <2>4. QED
      BY <1>1, <1>2, <2>2, <2>3 DEF AskHolds, MayAnswer, Unread
  <1>7. AskHolds(ask)
    BY <1>2, <1>3, <1>6 DEF AskHolds, Requests
  <1>8. CacheHolds'
    BY <1>1 DEF ServeInv, CacheHolds, Between, Server!Now
  <1>9. QED
    BY <1>1, <1>4, <1>5, <1>7, <1>8, RequestMoves DEF ServeInv

LEMMA CloseStep ==
  ASSUME ServeInv, NEW r \in Readers, Server!Close(r)
  PROVE  ServeInv'
  <1>1. asks' = [asks EXCEPT ![r] = Server!NoAsk] /\ UNCHANGED <<files, cache>>
    BY DEF Server!Close
  <1>2. CacheHolds'
    BY <1>1 DEF ServeInv, CacheHolds, Between, Server!Now
  <1>3. QED
    BY <1>1, <1>2, RequestMoves DEF ServeInv

\* What was true of an earlier moment of a request stays true of it.
LEMMA PathMoves ==
  ASSUME ServeInv, NEW f \in Server!PathStates, Server!Becomes(f)
  PROVE  ServeInv'
  <1>1. files' = Append(files, f) /\ UNCHANGED <<cache, asks>>
    BY DEF Server!Becomes
  <1>2. files' \in Seq(Server!PathStates) /\ files' # <<>>
    BY <1>1 DEF ServeInv
  <1>3. /\ Server!Now \in Nat /\ Server!Now' = Server!Now + 1
        /\ \A v \in 1 .. Server!Now : files'[v] = files[v]
    BY <1>1 DEF ServeInv, Server!Now
  <1>4. ASSUME NEW body, NEW first \in Nat, Between(body, first, Server!Now)
        PROVE  Between(body, first, Server!Now)'
    BY <1>3, <1>4 DEF Between
  <1>5. CacheHolds'
    <2>1. PICK kept \in Nat, held \in Server!PathStates : kept = cache.key /\ held = cache.body
      BY DEF ServeInv
    <2>2. kept # 0 => Between(held, kept, Server!Now)'
      BY <1>4, <2>1 DEF ServeInv, CacheHolds
    <2>3. cache'.key = kept /\ cache'.body = held
      BY <1>1, <2>1
    <2>4. kept <= Server!Now' /\ held \in Server!PathStates
      BY <1>3, <2>1 DEF ServeInv, CacheHolds
    <2>5. QED
      BY <2>2, <2>3, <2>4 DEF CacheHolds, Between
  <1>6. ASSUME NEW r \in Readers, asks[r] # Server!NoAsk PROVE AskHolds(asks[r])'
    <2>1. PICK ask \in Requests : ask = asks[r] /\ AskHolds(ask)
      BY <1>6 DEF ServeInv
    <2>2. ask.from \in Nat \ {0} /\ ask.stamp \in Nat
      BY DEF Requests
    <2>3. Between(ask.body, ask.from, Server!Now) => Between(ask.body, ask.from, Server!Now)'
      BY <1>4, <2>2
    <2>4. Between(ask.body, ask.stamp, Server!Now) => Between(ask.body, ask.stamp, Server!Now)'
      BY <1>4, <2>2
    <2>5. \A v \in ask.from .. Server!Now : v \in ask.from .. Server!Now' /\ files'[v] = files[v]
      BY <1>3, <2>2
    <2>6. MayAnswer(ask) => MayAnswer(ask)'
      BY <2>3, <2>5 DEF MayAnswer, Unread
    <2>7. ask.at = "done" => \E v \in ask.from .. Server!Now' :
                                 /\ ask.code \in Server!Right(files'[v])
                                 /\ ask.code = 200 => ask.body = files'[v]
      BY <2>1, <2>5 DEF AskHolds
    <2>8. AskHolds(ask)'
      BY <1>3, <2>1, <2>2, <2>4, <2>6, <2>7 DEF AskHolds, Unread, Server!Right
    <2>9. QED
      BY <1>1, <2>1, <2>8
  <1>7. QED
    BY <1>1, <1>2, <1>5, <1>6 DEF ServeInv

LEMMA ServeStep == ServeInv /\ Server!ServeNext => ServeInv'
  BY AskStep, StatStep, OpenStep, LoadStep, ReplyStep, CloseStep, PathMoves, Zenon
  DEF Server!ServeNext

LEMMA AnswersFit == ServeInv => AnswersAreRight
  <1> SUFFICES ASSUME ServeInv, NEW r \in Readers, asks[r].at # "free"
               PROVE  /\ asks[r].counted = asks[r].who
                      /\ asks[r].at = "done" =>
                            \E v \in asks[r].from .. Server!Now :
                               /\ asks[r].code \in Server!Right(files[v])
                               /\ asks[r].code = 200 => asks[r].body = files[v]
    BY Zenon DEF AnswersAreRight, Server!AnswersAreRight, Server!ServedIsCurrent,
       Server!CountedAsItself
  <1>1. AskHolds(asks[r])
    BY Underway
  <1>2. QED
    BY <1>1, Zenon DEF AskHolds

-----------------------------------------------------------------------------
(* The ports.                                                               *)

\* A set of ports has a least one: the one below which there are fewest.
LEMMA LeastOfAll ==
  ASSUME NEW S \in SUBSET Nat, S # {}
  PROVE  Min(S) \in S /\ \A x \in S : Min(S) <= x
  <1> DEFINE Under(x) == {y \in S : y < x}
             all == {Under(x) : x \in S}
  <1>1. all \subseteq FiniteSubsetsOf(S)
    <2> SUFFICES ASSUME NEW x \in S PROVE Under(x) \in SUBSET S /\ IsFiniteSet(Under(x))
      BY DEF FiniteSubsetsOf
    <2>1. Under(x) \in SUBSET Nat /\ x \in Nat
      OBVIOUS
    <2>2. \A y \in Under(x) : y <= x
      <3> SUFFICES ASSUME NEW y \in S, y < x PROVE y <= x
        OBVIOUS
      <3>1. x \in Nat /\ y \in Nat
        OBVIOUS
      <3>2. QED
        BY <3>1
    <2> HIDE DEF Under
    <2>3. IsFiniteSet(Under(x))
      BY <2>1, <2>2, FS_BoundedSetOfNaturals
    <2>4. QED
      BY <2>3 DEF Under
  <1>2. PICK few \in all : \A less \in all : <<less, few>> \notin StrictSubsetOrdering(S)
    <2>1. all # {}
      OBVIOUS
    <2> HIDE DEF all
    <2>2. QED
      BY <1>1, <2>1, FS_StrictSubsetOrderingWellFounded, WFMin
  <1>3. PICK least \in S : few = Under(least)
    OBVIOUS
  <1>4. ASSUME NEW y \in S, y < least PROVE FALSE
    <2>0. y \in Nat /\ least \in Nat /\ \A z \in S : z \in Nat
      OBVIOUS
    <2>1. Under(y) \subseteq Under(least) /\ y \in Under(least) /\ y \notin Under(y)
      <3>1. \A z \in S : z < y => z < least
        BY <1>4, <2>0
      <3>2. ~ (y < y)
        BY <2>0
      <3>3. QED
        BY <1>4, <3>1, <3>2, Zenon
    <2>2. <<Under(y), Under(least)>> \in StrictSubsetOrdering(S)
      BY <2>1 DEF StrictSubsetOrdering
    <2>3. QED
      BY <1>2, <1>3, <2>2
  <1>5. \A y \in S : least <= y
    BY <1>4
  <1>6. QED
    BY <1>5 DEF Min

\* As many ports as the bot and the programs beside it could ever open, in a
\* configuration that runs, in one that is made, and the two ports that give way.
Room == MaxPort > 2 * Cardinality(Slots) + MaxStrangers + 4

Crowd == Cardinality(Slots) + MaxStrangers + 3

PortsCounted ==
    /\ Cardinality(others) <= MaxStrangers
    /\ Cardinality(file.inbounds) <= Cardinality(Slots)
    /\ Cardinality(conf.inbounds) <= Cardinality(Slots)
    /\ Cardinality(look) <= Crowd

\* An inbound that is on has a port, and a configuration the port of its metrics.
LitHavePorts == \A i \in Slots : lit[i] => at[i] # NoPort
IsWhole(f) == f = NoFile \/ f.metrics \in Ports
FilesAreWhole == IsWhole(file) /\ IsWhole(conf) /\ (run => file # NoFile)

PortInv == PortsTypeOK /\ LitHavePorts /\ FilesAreWhole /\ PortsAreApart /\ PortsCounted

LEMMA PortNumbers ==
    /\ MaxPort \in Nat /\ Base \in Nat /\ MaxStrangers \in Nat /\ NoPort \notin Ports
    /\ IsFiniteSet(Slots) /\ Cardinality(Slots) \in Nat
    /\ IsFiniteSet(Ports) /\ Cardinality(Ports) = MaxPort
    /\ \A S \in SUBSET Ports : IsFiniteSet(S) /\ Cardinality(S) \in Nat
  <1>1. MaxPort \in Nat /\ Base \in Nat /\ MaxStrangers \in Nat /\ IsFiniteSet(Slots)
    BY PanelConstants DEF PortConstants, Ports
  <1>2. IsFiniteSet(Ports) /\ Cardinality(Ports) = MaxPort
    BY <1>1, FS_Interval DEF Ports
  <1>3. NoPort \notin Ports
    BY DEF NoPort, Ports
  <1>4. ASSUME NEW S \in SUBSET Ports PROVE IsFiniteSet(S) /\ Cardinality(S) \in Nat
    BY <1>2, FS_Subset, FS_CardinalityType
  <1>5. QED
    BY <1>1, <1>2, <1>3, <1>4, FS_CardinalityType

LEMMA FreePortIsFree ==
  ASSUME NEW from, NEW used
  PROVE  /\ FreePort(from, used) \in Ports \cup {NoPort}
         /\ FreePort(from, used) # NoPort => FreePort(from, used) \notin used
         /\ Ports \ used # {} => FreePort(from, used) # NoPort
  <1> DEFINE over == {p \in Ports \ used : p >= from}
  <1>1. over \in SUBSET Nat /\ Ports \ used \in SUBSET Nat
    BY DEF Ports
  <1>2. over # {} => Min(over) \in over
    <2> HIDE DEF over
    <2>1. QED
      BY <1>1, LeastOfAll
  <1>3. Ports \ used # {} => Min(Ports \ used) \in Ports \ used
    BY <1>1, LeastOfAll
  <1>4. FreePort(from, used) = IF over # {} THEN Min(over)
                               ELSE IF Ports \ used # {} THEN Min(Ports \ used) ELSE NoPort
    BY DEF FreePort
  <1>5. over \subseteq Ports \ used
    OBVIOUS
  <1> HIDE DEF over
  <1>6. QED
    BY <1>2, <1>3, <1>4, <1>5, PortNumbers

LEMMA NextPortIsPort ==
  ASSUME NEW extra
  PROVE  NextPort(extra) \in Ports \cup {NoPort}
  <1> DEFINE used == Taken \cup extra \cup {own.sub, own.api}
             free == {k \in DOMAIN Favourites : Favourites[k] \notin used}
  <1>1. Favourites \in Seq(Ports)
    BY PanelConstants DEF PortConstants
  <1>2. free \in SUBSET Nat /\ free \subseteq DOMAIN Favourites
    BY <1>1
  <1>3. CASE free # {}
    <2>1. NextPort(extra) = Favourites[Min(free)]
      BY <1>3 DEF NextPort
    <2> HIDE DEF free
    <2>2. Min(free) \in free
      BY <1>2, <1>3, LeastOfAll
    <2>3. Min(free) \in 1 .. Len(Favourites)
      <3>1. DOMAIN Favourites = 1 .. Len(Favourites)
        BY <1>1
      <3>2. QED
        BY <1>2, <2>2, <3>1
    <2>4. \A k \in 1 .. Len(Favourites) : Favourites[k] \in Ports
      BY <1>1
    <2>5. QED
      BY <2>1, <2>3, <2>4
  <1>4. CASE free = {}
    <2>1. NextPort(extra) = FreePort(Base, used)
      BY <1>4 DEF NextPort
    <2>2. QED
      BY <2>1, FreePortIsFree
  <1>5. QED
    BY <1>3, <1>4

\* There are ports left beside any few.
LEMMA PortsLeft ==
  ASSUME NEW S, IsFiniteSet(S), Cardinality(S) < MaxPort
  PROVE  Ports \ S # {}
  <1> SUFFICES ASSUME Ports \subseteq S PROVE FALSE
    OBVIOUS
  <1>1. Cardinality(Ports) <= Cardinality(S) /\ Cardinality(S) \in Nat
    BY FS_Subset, FS_CardinalityType
  <1>2. QED
    BY <1>1, PortNumbers

\* The ports of some inbounds are no more than the inbounds.
LEMMA PortsOfSome ==
  ASSUME NEW f \in [Slots -> Ports \cup {NoPort}], NEW S \in SUBSET Slots
  PROVE  /\ IsFiniteSet({f[i] : i \in S})
         /\ Cardinality({f[i] : i \in S}) <= Cardinality(Slots)
  <1> DEFINE image == {f[i] : i \in S}
             g == [i \in S |-> f[i]]
  <1>1. g \in Surjection(S, image)
    BY DEF Surjection
  <1>2. IsFiniteSet(S) /\ Cardinality(S) <= Cardinality(Slots) /\ Cardinality(S) \in Nat
    BY PortNumbers, FS_Subset, FS_CardinalityType
  <1> HIDE DEF g, image
  <1>3. IsFiniteSet(image) /\ Cardinality(image) <= Cardinality(S)
    BY <1>1, <1>2, FS_Surjection
  <1>4. Cardinality(image) \in Nat
    BY <1>3, FS_CardinalityType
  <1>5. Cardinality(image) <= Cardinality(Slots)
    BY <1>2, <1>3, <1>4, PortNumbers
  <1>6. QED
    BY <1>3, <1>5 DEF image

\* A union of finite sets has no more members than both together.
LEMMA JoinIsSmall ==
  ASSUME NEW S, NEW T, NEW m \in Nat, NEW n \in Nat, IsFiniteSet(S), IsFiniteSet(T),
         Cardinality(S) <= m, Cardinality(T) <= n
  PROVE  IsFiniteSet(S \cup T) /\ Cardinality(S \cup T) <= m + n
  <1>1. IsFiniteSet(S \cap T) /\ Cardinality(S \cap T) \in Nat /\ Cardinality(S) \in Nat
        /\ Cardinality(T) \in Nat
    BY FS_Intersection, FS_CardinalityType
  <1>2. IsFiniteSet(S \cup T)
        /\ Cardinality(S \cup T) = Cardinality(S) + Cardinality(T) - Cardinality(S \cap T)
    BY FS_Union
  <1>3. QED
    BY <1>1, <1>2

\* A look sees what others, the subscriptions and the core have open.
LEMMA LooksAreSmall ==
  ASSUME PortInv, Look
  PROVE  look' \in SUBSET Ports /\ Cardinality(look') <= Crowd
  <1> USE PortNumbers
  <1>1. /\ others \in SUBSET Ports /\ serving \in Ports \cup {NoPort} /\ file \in Files
        /\ Cardinality(others) <= MaxStrangers /\ Cardinality(file.inbounds) <= Cardinality(Slots)
    BY DEF PortInv, PortsTypeOK, PortsCounted
  <1>2. file.inbounds \in SUBSET Ports /\ {file.api, file.metrics} \subseteq Ports \cup {NoPort}
    BY <1>1 DEF Files
  <1> DEFINE three == {serving} \cup {file.api} \cup {file.metrics}
             open == others \cup file.inbounds
  <1>3. IsFiniteSet(three) /\ Cardinality(three) <= 3
    <2>1. ASSUME NEW x PROVE IsFiniteSet({x}) /\ Cardinality({x}) <= 1
      <3>1. IsFiniteSet({x}) /\ Cardinality({x}) = 1
        BY FS_Singleton
      <3>2. QED
        BY <3>1
    <2>2. \A x, y, z : IsFiniteSet({x} \cup {y} \cup {z}) /\ Cardinality({x} \cup {y} \cup {z}) <= 3
      <3> SUFFICES ASSUME NEW x, NEW y, NEW z
                   PROVE  /\ IsFiniteSet({x} \cup {y} \cup {z})
                          /\ Cardinality({x} \cup {y} \cup {z}) <= 3
        OBVIOUS
      <3>1. IsFiniteSet({x} \cup {y}) /\ Cardinality({x} \cup {y}) <= 1 + 1
        BY <2>1, JoinIsSmall
      <3> DEFINE two == {x} \cup {y}
      <3>2. IsFiniteSet(two) /\ Cardinality(two) <= 2
        BY <3>1
      <3> HIDE DEF two
      <3>3. IsFiniteSet(two \cup {z}) /\ Cardinality(two \cup {z}) <= 2 + 1
        BY <2>1, <3>2, JoinIsSmall
      <3>4. QED
        BY <3>3 DEF two
    <2>3. QED
      BY <2>2
  <1>4. IsFiniteSet(open) /\ Cardinality(open) <= MaxStrangers + Cardinality(Slots)
    BY <1>1, <1>2, JoinIsSmall
  <1> HIDE DEF three, open
  <1>5. IsFiniteSet(open \cup three)
        /\ Cardinality(open \cup three) <= (MaxStrangers + Cardinality(Slots)) + 3
    <2>1. MaxStrangers + Cardinality(Slots) \in Nat
      OBVIOUS
    <2>2. QED
      BY <1>3, <1>4, <2>1, JoinIsSmall
  <1>6. Live \subseteq open \cup three
    BY <1>1 DEF Live, Open, open, three
  <1>7. Live \in SUBSET Ports
    <2>1. run => Open(file) \cup {file.metrics} \subseteq Ports
      BY <1>2 DEF Open, PortInv, FilesAreWhole, IsWhole
    <2>2. QED
      BY <1>1, <1>2, <2>1 DEF Live
  <1>8. ASSUME NEW S \in SUBSET (open \cup three) PROVE Cardinality(S) <= Crowd
    <2>1. Cardinality(S) \in Nat /\ Cardinality(S) <= Cardinality(open \cup three)
          /\ Cardinality(open \cup three) \in Nat
      BY <1>5, FS_Subset, FS_CardinalityType
    <2>2. QED
      BY <1>5, <2>1 DEF Crowd
  <1>9. QED
    BY <1>6, <1>7, <1>8 DEF Look

\* A port that makes way is free of all it makes way for.
LEMMA BeyondIsFree ==
  ASSUME NEW p \in Ports, NEW used, IsFiniteSet(used), Cardinality(used) < MaxPort
  PROVE  Beyond(p, used) \in Ports /\ Beyond(p, used) \notin used
  <1>1. Ports \ used # {}
    BY PortsLeft
  <1>2. QED
    BY <1>1, FreePortIsFree, PortNumbers DEF Beyond

\* What the ports of the bot make way for leaves room.
LEMMA ForeignIsSmall ==
  ASSUME PortInv, Room
  PROVE  /\ IsFiniteSet(Foreign \cup Taken)
         /\ Cardinality(Foreign \cup Taken) <= Crowd + Cardinality(Slots)
         /\ Cardinality(Foreign \cup Taken) \in Nat
  <1> USE PortNumbers
  <1>1. look \in SUBSET Ports /\ Cardinality(look) <= Crowd /\ Crowd \in Nat
    BY DEF PortInv, PortsTypeOK, PortsCounted, Crowd
  <1>2. IsFiniteSet(Foreign) /\ Cardinality(Foreign) <= Crowd
    <2>1. Foreign \in SUBSET look
      BY DEF Foreign
    <2>2. IsFiniteSet(look) /\ Cardinality(look) \in Nat
      BY <1>1
    <2>3. Cardinality(Foreign) <= Cardinality(look) /\ IsFiniteSet(Foreign)
          /\ Cardinality(Foreign) \in Nat
      BY <2>1, <2>2, FS_Subset, FS_CardinalityType
    <2>4. QED
      BY <1>1, <2>2, <2>3
  <1>3. IsFiniteSet(Taken) /\ Cardinality(Taken) <= Cardinality(Slots)
    <2>1. at \in [Slots -> Ports \cup {NoPort}]
      BY DEF PortInv, PortsTypeOK
    <2>2. /\ IsFiniteSet({at[i] : i \in Slots})
          /\ Cardinality({at[i] : i \in Slots}) <= Cardinality(Slots)
      BY <2>1, PortsOfSome
    <2>3. Taken \in SUBSET {at[i] : i \in Slots}
      BY DEF Taken
    <2>4. IsFiniteSet(Taken) /\ Cardinality(Taken) <= Cardinality({at[i] : i \in Slots})
          /\ Cardinality(Taken) \in Nat /\ Cardinality({at[i] : i \in Slots}) \in Nat
      BY <2>2, <2>3, FS_Subset, FS_CardinalityType
    <2>5. QED
      BY <2>2, <2>4
  <1>4. QED
    BY <1>1, <1>2, <1>3, JoinIsSmall, FS_CardinalityType

LEMMA ResolveStep ==
  ASSUME PortInv, Room, Resolve
  PROVE  PortInv'
  <1> USE PortNumbers
  <1> DEFINE used == Foreign \cup Taken
             m == Beyond(own.metrics, used)
             used1 == Plus(used, own.metrics, m)
             a == Beyond(own.api, used1)
             s == Beyond(botSub, Plus(used1, own.api, a))
  <1>1. own.metrics \in Ports /\ own.api \in Ports /\ botSub \in Ports
        /\ own \in [{"metrics", "api", "sub"} -> Ports]
    BY DEF PortInv, PortsTypeOK
  <1>2. IsFiniteSet(used) /\ Cardinality(used) <= Crowd + Cardinality(Slots)
        /\ Cardinality(used) \in Nat
    BY ForeignIsSmall
  <1>3. own' = [metrics |-> m, api |-> a, sub |-> s] /\ botSub' = s
    BY <1>1 DEF Resolve, Resolved, Copied
  <1>4. \/ step' = "idle" /\ UNCHANGED conf
        \/ /\ step' = "sent"
           /\ conf' = [inbounds |-> {at[i] : i \in {j \in Slots : lit[j]}},
                       api |-> a, metrics |-> m]
    BY <1>1 DEF Resolve, Resolved
  <1> HIDE DEF used
  <1>5. m \in Ports /\ m \notin used
    BY <1>1, <1>2, BeyondIsFree DEF Room, Crowd
  <1> HIDE DEF m
  <1>6. IsFiniteSet(used1) /\ Cardinality(used1) < MaxPort /\ used \subseteq used1
    <2>1. IsFiniteSet(used \cup {m}) /\ Cardinality(used \cup {m}) = Cardinality(used) + 1
      BY <1>2, <1>5, FS_AddElement
    <2>2. Cardinality(used \cup {m}) \in Nat
      BY <2>1, FS_CardinalityType
    <2>3. QED
      BY <1>2, <2>1, <2>2 DEF Plus, Room, Crowd
  <1> HIDE DEF used1
  <1>7. a \in Ports /\ a \notin used
    BY <1>1, <1>6, BeyondIsFree
  <1> HIDE DEF a
  <1>8. s \in Ports
    BY <1>1, FreePortIsFree DEF Beyond
  <1> HIDE DEF s
  <1>9. UNCHANGED <<at, lit, subOn, report, file, run, serving, others, want, draft, typed, taps>>
        /\ look' = {}
    BY DEF Resolve
  <1>10. Taken \subseteq used
    BY DEF used
  <1>11. own' \in [{"metrics", "api", "sub"} -> Ports] /\ own'.sub = s /\ botSub' = s
    BY <1>3, <1>5, <1>7, <1>8
  <1>12. Cardinality(look') <= Crowd
    BY <1>9, FS_EmptySet DEF Crowd
  <1>13. PortsStayApart' /\ CopiesAgree' /\ LitHavePorts'
    BY <1>9, <1>11 DEF PortInv, PortsAreApart, PortsStayApart, CopiesAgree, LitHavePorts
  <1>14. CASE step' = "idle" /\ UNCHANGED conf
    <2>1. PortsTypeOK'
      BY <1>9, <1>14, <1>11 DEF PortInv, PortsTypeOK
    <2>2. SentIsApart' /\ FilesAreWhole' /\ PortsCounted'
      BY <1>9, <1>14, <1>12 DEF PortInv, PortsAreApart, SentIsApart, FilesAreWhole, IsWhole,
         PortsCounted
    <2>3. QED
      BY <1>13, <2>1, <2>2 DEF PortInv, PortsAreApart
  <1>15. CASE /\ step' = "sent"
              /\ conf' = [inbounds |-> {at[i] : i \in {j \in Slots : lit[j]}},
                          api |-> a, metrics |-> m]
    <2> DEFINE lights == {at[i] : i \in {j \in Slots : lit[j]}}
    <2>1. lights \subseteq Taken /\ lights \in SUBSET Ports
      BY DEF PortInv, LitHavePorts, PortsTypeOK, Taken
    <2>2. Cardinality(lights) <= Cardinality(Slots)
      BY PortsOfSome DEF PortInv, PortsTypeOK
    <2> HIDE DEF lights
    <2>3. conf' = [inbounds |-> lights, api |-> a, metrics |-> m]
      BY <1>15 DEF lights
    <2>4. conf' \in Files /\ conf'.inbounds = lights /\ conf'.api = a /\ conf'.metrics = m
      BY <1>5, <1>7, <2>1, <2>3 DEF Files
    <2>5. SentIsApart'
      BY <1>5, <1>7, <1>10, <2>1, <2>4 DEF SentIsApart
    <2>6. PortsTypeOK'
      BY <1>9, <1>15, <1>11, <2>4 DEF PortInv, PortsTypeOK
    <2>7. FilesAreWhole'
      BY <1>5, <1>9, <2>4 DEF PortInv, FilesAreWhole, IsWhole
    <2>8. PortsCounted'
      BY <1>9, <1>12, <2>2, <2>4 DEF PortInv, PortsCounted
    <2>9. QED
      BY <1>13, <2>5, <2>6, <2>7, <2>8 DEF PortInv, PortsAreApart
  <1>16. QED
    BY <1>14, <1>15, <1>4

LEMMA PortsBegin == PortsInit => PortInv
  <1> SUFFICES ASSUME PortsInit PROVE PortInv
    OBVIOUS
  <1> USE PortNumbers DEF PortsInit
  <1>1. NoFile \in Files
    BY DEF NoFile, Files
  <1>2. PortsTypeOK
    BY <1>1, PanelConstants DEF PortsTypeOK, PortConstants
  <1>3. Cardinality({}) = 0
    BY FS_EmptySet
  <1>4. PortsCounted
    BY <1>3 DEF PortsCounted, NoFile, Crowd
  <1>5. QED
    BY <1>2, <1>4 DEF PortInv, LitHavePorts, FilesAreWhole, IsWhole, PortsAreApart, PortsStayApart,
       SentIsApart, CopiesAgree

\* What the core was seen to listen on are ports of its configuration.
LEMMA AnsweringArePorts ==
  ASSUME NEW f \in Files, NEW up
  PROVE  Answering(f, up) \in SUBSET Ports
  BY PortNumbers DEF Answering, Open, Files

\* The ports of the inbounds, the configuration and the others stay as they are.
Rests == UNCHANGED <<at, lit, own, botSub, file, run, conf, others>>

\* The steps that choose a port, look, or change what the screen shows.
LEMMA RestStep ==
  ASSUME PortInv, Rests, PortsTypeOK', Cardinality(look') <= Crowd
  PROVE  PortInv'
  BY DEF PortInv, Rests, LitHavePorts, FilesAreWhole, IsWhole, PortsAreApart, PortsStayApart,
     SentIsApart, CopiesAgree, PortsCounted

LEMMA ButtonStep ==
  ASSUME PortInv, (\E p \in {NoPort, draft} \cup Ports : Create(p)) \/ Draft \/ Choose \/ Apply
  PROVE  PortInv'
  <1> USE PortNumbers
  <1>0. taps \in Nat /\ draft \in Ports \cup {NoPort} /\ want \in Ports \cup {NoPort}
        /\ look \in SUBSET Ports /\ Cardinality(look) <= Crowd
    BY DEF PortInv, PortsTypeOK, PortsCounted
  <1>1. ASSUME NEW p \in {NoPort, draft} \cup Ports, Create(p) PROVE PortInv'
    <2>1. look' \in SUBSET Ports /\ Cardinality(look') <= Crowd
      BY <1>1, LooksAreSmall DEF Create
    <2>2. PortsTypeOK'
      BY <1>0, <1>1, <2>1 DEF Create, Tap, PortInv, PortsTypeOK, serverVars
    <2>3. QED
      BY <1>1, <2>1, <2>2, RestStep DEF Create, Rests, serverVars
  <1>2. CASE Draft
    <2>1. draft' \in Ports \cup {NoPort}
      BY <1>2, NextPortIsPort DEF Draft
    <2>2. PortsTypeOK'
      BY <1>0, <1>2, <2>1 DEF Draft, Tap, PortInv, PortsTypeOK, serverVars
    <2>3. QED
      BY <1>0, <1>2, <2>2, RestStep DEF Draft, Rests, serverVars
  <1>3. CASE Choose
    <2>1. look' \in SUBSET Ports /\ Cardinality(look') <= Crowd
      BY <1>3, LooksAreSmall DEF Choose
    <2>2. want' \in Ports \cup {NoPort}
      BY <1>0, <1>3, NextPortIsPort DEF Choose
    <2>3. PortsTypeOK'
      BY <1>0, <1>3, <2>1, <2>2 DEF Choose, PortInv, PortsTypeOK, serverVars
    <2>4. QED
      BY <1>3, <2>1, <2>3, RestStep DEF Choose, Rests, serverVars
  <1>4. CASE Apply
    <2>1. look' \in SUBSET Ports /\ Cardinality(look') <= Crowd
      BY <1>4, LooksAreSmall DEF Apply
    <2>2. PortsTypeOK'
      BY <1>0, <1>4, <2>1 DEF Apply, Tap, PortInv, PortsTypeOK, serverVars
    <2>3. QED
      BY <1>4, <2>1, <2>2, RestStep DEF Apply, Rests, serverVars
  <1>5. QED
    BY <1>1, <1>2, <1>3, <1>4

LEMMA ScreenStep ==
  ASSUME PortInv, Check \/ Serve \/ Unserve \/ Status
  PROVE  PortInv'
  <1> USE PortNumbers
  <1>0. /\ taps \in Nat /\ serving \in Ports \cup {NoPort} /\ own.sub \in Ports
        /\ Cardinality(look) <= Crowd /\ botSub = own.sub
    BY DEF PortInv, PortsTypeOK, PortsCounted, PortsAreApart, CopiesAgree
  <1>1. CASE Check
    <2>1. report' \in SUBSET Ports
      BY <1>1, AnsweringArePorts DEF Check, PortInv, PortsTypeOK
    <2>2. PortsTypeOK'
      BY <1>0, <1>1, <2>1 DEF Check, Tap, PortInv, PortsTypeOK, serverVars
    <2>3. QED
      BY <1>0, <1>1, <2>2, RestStep DEF Check, Rests, serverVars
  <1>2. CASE Serve
    <2>1. serving' \in Ports \cup {NoPort} /\ botSub' = botSub
      BY <1>0, <1>2 DEF Serve
    <2>2. PortsTypeOK'
      BY <1>0, <1>2, <2>1 DEF Serve, Tap, PortInv, PortsTypeOK
    <2>3. QED
      BY <1>0, <1>2, <2>1, <2>2, RestStep DEF Serve, Rests
  <1>3. CASE Unserve
    <2>1. serving' \in Ports \cup {NoPort} /\ subOn' = FALSE /\ taps' \in Nat
      BY <1>0, <1>3 DEF Unserve, Tap
    <2>2. PortsTypeOK'
      BY <1>3, <2>1 DEF Unserve, PortInv, PortsTypeOK
    <2>3. QED
      BY <1>0, <1>3, <2>2, RestStep DEF Unserve, Rests
  <1>4. CASE Status
    <2>1. PortsTypeOK'
      BY <1>0, <1>4 DEF Status, Tap, PortInv, PortsTypeOK, serverVars
    <2>2. QED
      BY <1>0, <1>4, <2>1, RestStep DEF Status, Rests, serverVars
  <1>5. QED
    BY <1>1, <1>2, <1>3, <1>4

\* The steps that change the list of inbounds alone.
LEMMA ListStep ==
  ASSUME PortInv, UNCHANGED <<own, botSub, file, run, conf, others>>,
         PortsTypeOK', Cardinality(look') <= Crowd, LitHavePorts', PortsStayApart'
  PROVE  PortInv'
  BY DEF PortInv, FilesAreWhole, IsWhole, PortsAreApart, SentIsApart, CopiesAgree, PortsCounted

LEMMA InboundStep ==
  ASSUME PortInv,
         Add \/ \E i \in Slots : Toggle(i) \/ Delete(i) \/ \E p \in Ports : SetPort(i, p)
  PROVE  PortInv'
  <1> USE PortNumbers
  <1>0. /\ at \in [Slots -> Ports \cup {NoPort}] /\ lit \in [Slots -> BOOLEAN]
        /\ LitHavePorts /\ PortsStayApart /\ taps \in Nat /\ typed \in Nat
        /\ want \in Ports \cup {NoPort} /\ draft \in Ports \cup {NoPort}
        /\ Cardinality(look) <= Crowd
    BY DEF PortInv, PortsTypeOK, PortsAreApart, PortsCounted
  <1>1. CASE Add
    <2>1. Guarded \in Ports \cup {NoPort}
      BY <1>0, FreePortIsFree DEF Guarded
    <2>2. look' = {} /\ Cardinality(look') <= Crowd
      BY <1>1, FS_EmptySet DEF Add, Crowd
    <2>3. draft' \in Ports \cup {NoPort} /\ step' = "idle" /\ want' = NoPort
          /\ UNCHANGED <<own, botSub, subOn, report, serverVars, others, typed, taps>>
      BY <1>0, <1>1 DEF Add
    <2>4. CASE UNCHANGED <<at, lit>>
      <3>1. PortsTypeOK'
        BY <2>2, <2>3, <2>4 DEF PortInv, PortsTypeOK, serverVars
      <3>2. QED
        BY <1>0, <2>2, <2>3, <2>4, <3>1, ListStep DEF serverVars, LitHavePorts, PortsStayApart
    <2>5. ASSUME NEW i \in Slots, at[i] = NoPort, Addable(Guarded),
                 at' = [at EXCEPT ![i] = Guarded], lit' = [lit EXCEPT ![i] = TRUE]
          PROVE  PortInv'
      <3>1. PICK p \in Ports : p = Guarded /\ p \notin Taken
        BY <2>1, <2>5 DEF Addable
      <3>2. at' = [at EXCEPT ![i] = p]
        BY <2>5, <3>1
      <3>3. \A j \in Slots : at[j] # p
        BY <3>1 DEF Taken
      <3>4. PortsStayApart' /\ LitHavePorts'
        BY <1>0, <2>5, <3>2, <3>3 DEF PortsStayApart, LitHavePorts
      <3>5. at' \in [Slots -> Ports \cup {NoPort}] /\ lit' \in [Slots -> BOOLEAN]
        BY <1>0, <2>5, <3>2
      <3>6. PortsTypeOK'
        BY <2>2, <2>3, <3>5 DEF PortInv, PortsTypeOK, serverVars
      <3>7. QED
        BY <2>2, <2>3, <3>4, <3>6, ListStep DEF serverVars
    <2>6. QED
      BY <1>1, <2>4, <2>5, Zenon DEF Add
  <1>2. ASSUME NEW i \in Slots, Toggle(i) PROVE PortInv'
    <2>1. lit' \in [Slots -> BOOLEAN] /\ LitHavePorts' /\ PortsStayApart'
      BY <1>0, <1>2 DEF Toggle, LitHavePorts, PortsStayApart
    <2>2. PortsTypeOK'
      BY <1>0, <1>2, <2>1 DEF Toggle, Tap, PortInv, PortsTypeOK, serverVars
    <2>3. QED
      BY <1>0, <1>2, <2>1, <2>2, ListStep DEF Toggle, serverVars
  <1>3. ASSUME NEW i \in Slots, Delete(i) PROVE PortInv'
    <2>1. at' \in [Slots -> Ports \cup {NoPort}] /\ lit' \in [Slots -> BOOLEAN]
          /\ LitHavePorts' /\ PortsStayApart'
      BY <1>0, <1>3 DEF Delete, LitHavePorts, PortsStayApart
    <2>2. PortsTypeOK'
      BY <1>0, <1>3, <2>1 DEF Delete, Tap, PortInv, PortsTypeOK, serverVars
    <2>3. QED
      BY <1>0, <1>3, <2>1, <2>2, ListStep DEF Delete, serverVars
  <1>4. ASSUME NEW i \in Slots, NEW p \in Ports, SetPort(i, p) PROVE PortInv'
    <2>1. at' \in [Slots -> Ports \cup {NoPort}] /\ LitHavePorts' /\ PortsStayApart'
      BY <1>0, <1>4 DEF SetPort, LitHavePorts, PortsStayApart
    <2>2. PortsTypeOK'
      BY <1>0, <1>4, <2>1 DEF SetPort, Type, PortInv, PortsTypeOK, serverVars
    <2>3. QED
      BY <1>0, <1>4, <2>1, <2>2, ListStep DEF SetPort, serverVars
  <1>5. QED
    BY <1>1, <1>2, <1>3, <1>4

LEMMA OwnStep ==
  ASSUME PortInv, NEW p \in Ports, NEW part \in {"api", "sub"}, SetOwn(part, p)
  PROVE  PortInv'
  <1>1. own \in [{"metrics", "api", "sub"} -> Ports] /\ botSub = own.sub /\ botSub \in Ports
    BY DEF PortInv, PortsTypeOK, PortsAreApart, CopiesAgree
  <1>2. own' \in [{"metrics", "api", "sub"} -> Ports] /\ botSub' = own'.sub /\ botSub' \in Ports
    BY <1>1 DEF SetOwn
  <1>3. PortsTypeOK'
    BY <1>2 DEF SetOwn, Type, PortInv, PortsTypeOK, serverVars
  <1>4. QED
    BY <1>2, <1>3 DEF SetOwn, serverVars, PortInv, LitHavePorts, FilesAreWhole, IsWhole,
       PortsAreApart, PortsStayApart, SentIsApart, CopiesAgree, PortsCounted

\* The steps that change what is on the server, or on its way there.
LEMMA ServerStep ==
  ASSUME PortInv, UNCHANGED <<at, lit, own, botSub, look, others>>, PortsTypeOK',
         FilesAreWhole', conf' \in {conf, NoFile}, file' \in {file, conf, NoFile}
  PROVE  PortInv'
  <1>1. Cardinality(NoFile.inbounds) = 0
    BY FS_EmptySet DEF NoFile
  <1>2. PortsCounted'
    BY <1>1, PortNumbers DEF PortInv, PortsCounted
  <1>3. QED
    BY <1>2 DEF PortInv, LitHavePorts, PortsAreApart, PortsStayApart, SentIsApart, CopiesAgree

LEMMA CoreStep ==
  ASSUME PortInv, Applied \/ Purge \/ \E up \in BOOLEAN : Core(up)
  PROVE  PortInv'
  <1> USE PortNumbers
  <1>0. /\ file \in Files /\ conf \in Files /\ run \in BOOLEAN
        /\ report \in SUBSET Ports /\ taps \in Nat
        /\ FilesAreWhole /\ NoFile \in Files
    BY DEF PortInv, PortsTypeOK, NoFile, Files
  <1>1. CASE Applied
    <2>1. /\ conf' = NoFile /\ file' \in {file, conf} /\ step' = "idle"
          /\ UNCHANGED <<at, lit, own, botSub, subOn, serving, others, want, look, draft, typed,
                         taps>>
      BY <1>1 DEF Applied
    <2>2. report' \in SUBSET Ports /\ run' \in BOOLEAN
      BY <1>0, <1>1, AnsweringArePorts DEF Applied
    <2>3. PortsTypeOK'
      BY <1>0, <2>1, <2>2 DEF PortInv, PortsTypeOK
    <2>4. FilesAreWhole'
      BY <1>0, <1>1 DEF Applied, Starts, FilesAreWhole, IsWhole
    <2>5. QED
      BY <2>1, <2>3, <2>4, ServerStep
  <1>2. CASE Purge
    <2>1. file' \in Files /\ run' = FALSE /\ report' = {} /\ taps' \in Nat
      BY <1>0, <1>2 DEF Purge, Tap
    <2>2. PortsTypeOK'
      BY <1>2, <2>1 DEF Purge, PortInv, PortsTypeOK
    <2>3. FilesAreWhole'
      BY <1>0, <1>2 DEF Purge, FilesAreWhole, IsWhole
    <2>4. QED
      BY <1>2, <2>2, <2>3, ServerStep DEF Purge
  <1>3. ASSUME NEW up \in BOOLEAN, Core(up) PROVE PortInv'
    <2>1. report' \in SUBSET Ports
      BY <1>0, <1>3, AnsweringArePorts DEF Core
    <2>2. PortsTypeOK'
      BY <1>0, <1>3, <2>1 DEF Core, Tap, PortInv, PortsTypeOK
    <2>3. FilesAreWhole'
      BY <1>0, <1>3 DEF Core, Starts, FilesAreWhole, IsWhole
    <2>4. QED
      BY <1>3, <2>2, <2>3, ServerStep DEF Core
  <1>4. QED
    BY <1>1, <1>2, <1>3

LEMMA StrangerStep ==
  ASSUME PortInv, NEW p \in Ports, Stranger(p)
  PROVE  PortInv'
  <1> USE PortNumbers
  <1>1. others \in SUBSET Ports /\ Cardinality(others) < MaxStrangers /\ others' = others \cup {p}
        /\ UNCHANGED <<at, lit, own, botSub, subOn, report, serverVars, step, want, look, draft,
                       typed, taps>>
    BY DEF Stranger, PortInv, PortsTypeOK
  <1>2. others' \in SUBSET Ports
    BY <1>1
  <1>3. IsFiniteSet(others) /\ Cardinality(others) \in Nat
    BY <1>1
  <1>4. Cardinality(others') <= MaxStrangers
    BY <1>1, <1>3, FS_AddElement
  <1>5. PortsTypeOK'
    BY <1>1, <1>2 DEF PortInv, PortsTypeOK, serverVars
  <1>6. QED
    BY <1>1, <1>4, <1>5 DEF serverVars, PortInv, LitHavePorts, FilesAreWhole, IsWhole,
       PortsAreApart, PortsStayApart, SentIsApart, CopiesAgree, PortsCounted

LEMMA PortsStep == ASSUME Room PROVE PortInv /\ PortsNext => PortInv'
  BY ButtonStep, ScreenStep, InboundStep, OwnStep, CoreStep, StrangerStep, ResolveStep, Zenon
  DEF PortsNext

-----------------------------------------------------------------------------
(* The scan for a target.  A list, its tasks and the rows of their answers  *)
(* are computed by recursion; what each computes is shown by induction over *)
(* its steps (RecursionLemmas).                                             *)

Row ==
    [target : Scan!Lists, tls : BOOLEAN, tls13 : BOOLEAN, h2 : BOOLEAN, curve : BOOLEAN,
     valid : BOOLEAN, left : Int, groups : [Scan!HybridGroups -> Scan!Answers], room : BOOLEAN,
     latency : Nat, feasible : BOOLEAN]
Task ==
    [of : Scan!Lists, met : SUBSET Scan!Machine, bulk : BOOLEAN,
     at : {"queued", "connect", "curve", "groups", "verify", "done"}, got : Row]

\* A verdict is given with the last look; what was not looked at does not fit.
Judged(r) == r.feasible <=> Scan!Feasible(r)
TaskOK(t) ==
    /\ t \in Task
    /\ t.at = "done" => Judged(t.got)
    /\ t.at \in {"queued", "connect"} => Judged(t.got)

ScanInv ==
    /\ list \in Seq(Scan!Lists)
    /\ tasks \in Seq(Task) /\ \A i \in 1 .. Len(tasks) : TaskOK(tasks[i])
    /\ rows \in Seq(Row) /\ \A i \in 1 .. Len(rows) : Judged(rows[i])
    /\ Scan!RankKeepsBest

LEMMA BlankRow == ASSUME NEW t \in Scan!Lists PROVE Scan!Blank(t) \in Row /\ Judged(Scan!Blank(t))
  BY DEF Scan!Blank, Row, Judged, Scan!Feasible, Scan!Answers

\* A step of one task keeps the others.
LEMMA AtKeeps ==
  ASSUME tasks \in Seq(Task), \A j \in 1 .. Len(tasks) : TaskOK(tasks[j]),
         NEW i \in 1 .. Len(tasks), NEW got \in Row,
         NEW place \in {"queued", "connect", "curve", "groups", "verify", "done"},
         place \in {"queued", "connect", "done"} => Judged(got),
         Scan!At(i, place, got)
  PROVE  tasks' \in Seq(Task) /\ \A j \in 1 .. Len(tasks') : TaskOK(tasks'[j])
  <1> DEFINE t == [tasks[i] EXCEPT !.at = place, !.got = got]
  <1>1. tasks[i] \in Task
    OBVIOUS
  <1>2. t \in Task /\ t.at = place /\ t.got = got
    BY <1>1 DEF Task
  <1>3. tasks' = [tasks EXCEPT ![i] = t]
    BY DEF Scan!At
  <1> HIDE DEF t
  <1>4. tasks' \in Seq(Task) /\ Len(tasks') = Len(tasks)
    BY <1>2, <1>3
  <1>5. TaskOK(t)
    BY <1>2 DEF TaskOK
  <1>6. ASSUME NEW j \in 1 .. Len(tasks') PROVE TaskOK(tasks'[j])
    <2>1. tasks'[j] = IF j = i THEN t ELSE tasks[j]
      BY <1>3, <1>4
    <2>2. QED
      BY <1>4, <1>5, <2>1
  <1>7. QED
    BY <1>4, <1>6

LEMMA RowOfTask ==
  ASSUME NEW t, TaskOK(t)
  PROVE  /\ t.got \in Row /\ t.of \in Scan!Lists /\ t.bulk \in BOOLEAN
         /\ t.met \subseteq Scan!Machine
  BY DEF TaskOK, Task

LEMMA TaskSteps ==
  ASSUME ScanInv, NEW i \in DOMAIN tasks,
         \/ Scan!Begin(i) \/ Scan!Connect(i) \/ Scan!Curve(i) \/ Scan!AskGroups(i)
         \/ Scan!Verify(i)
  PROVE  tasks' \in Seq(Task) /\ \A j \in 1 .. Len(tasks') : TaskOK(tasks'[j])
  <1> DEFINE t == tasks[i]
             got == tasks[i].got
  <1>1. tasks \in Seq(Task) /\ \A j \in 1 .. Len(tasks) : TaskOK(tasks[j])
    BY DEF ScanInv
  <1>2. i \in 1 .. Len(tasks) /\ TaskOK(t)
    BY <1>1
  <1>3. got \in Row /\ t.bulk \in BOOLEAN /\ t.met \subseteq Scan!Machine
    BY <1>2, RowOfTask
  <1>4. CASE Scan!Begin(i)
    <2>1. Judged(got) /\ Scan!At(i, "connect", got)
      BY <1>2, <1>4 DEF Scan!Begin, TaskOK
    <2>2. QED
      BY <1>1, <1>2, <1>3, <2>1, AtKeeps
  <1>5. CASE Scan!Connect(i)
    <2>1. ASSUME NEW m \in t.met, Scan!At(i, "curve", Scan!Shown(t, m))
          PROVE  tasks' \in Seq(Task) /\ \A j \in 1 .. Len(tasks') : TaskOK(tasks'[j])
      <3>1. m \in Scan!Machine
        BY <1>3, <2>1
      <3>2. m.cn \in Scan!Lists
        BY <3>1 DEF Scan!Machine, Scan!Lists
      <3>3. Scan!Shown(t, m) \in Row
        BY <1>3, <3>1, <3>2 DEF Scan!Shown, Row, Scan!Machine
      <3>4. QED
        BY <1>1, <1>2, <2>1, <3>3, AtKeeps
    <2>2. ASSUME Scan!At(i, "done", got)
          PROVE  tasks' \in Seq(Task) /\ \A j \in 1 .. Len(tasks') : TaskOK(tasks'[j])
      <3>1. Judged(got)
        BY <1>2, <1>5 DEF Scan!Connect, TaskOK
      <3>2. QED
        BY <1>1, <1>2, <1>3, <2>2, <3>1, AtKeeps
    <2>3. QED
      BY <1>5, <2>1, <2>2 DEF Scan!Connect
  <1>6. CASE Scan!Curve(i)
    <2>1. PICK yes \in {m.curve : m \in t.met} \cup {FALSE} :
            Scan!At(i, "groups", [got EXCEPT !.curve = yes])
      BY <1>6 DEF Scan!Curve
    <2>2. yes \in BOOLEAN
      BY <1>3 DEF Scan!Machine
    <2>3. [got EXCEPT !.curve = yes] \in Row
      BY <1>3, <2>2 DEF Row
    <2>4. QED
      BY <1>1, <1>2, <2>1, <2>3, AtKeeps
  <1>7. CASE Scan!AskGroups(i)
    <2>1. PICK g \in [Scan!HybridGroups -> Scan!Answers] :
            Scan!At(i, "verify", [got EXCEPT !.groups = g])
      BY <1>7 DEF Scan!AskGroups
    <2>2. [got EXCEPT !.groups = g] \in Row
      BY <1>3 DEF Row
    <2>3. QED
      BY <1>1, <1>2, <2>1, <2>2, AtKeeps
  <1>8. CASE Scan!Verify(i)
    <2>1. PICK yes \in {m.chain : m \in t.met} \cup {FALSE} :
            LET r == [got EXCEPT !.valid = yes]
            IN  Scan!At(i, "done", [r EXCEPT !.feasible = Scan!Feasible(r)])
      BY <1>8 DEF Scan!Verify
    <2>2. yes \in BOOLEAN
      BY <1>3 DEF Scan!Machine
    <2> DEFINE r == [got EXCEPT !.valid = yes]
               f == Scan!Feasible(r)
               s == [r EXCEPT !.feasible = f]
    <2>3. r \in Row
      BY <1>3, <2>2 DEF Row
    <2> HIDE DEF r
    <2>4. f \in BOOLEAN
      BY Zenon DEF Scan!Feasible
    <2>5. Scan!Feasible(s) = f
      BY <2>3 DEF Scan!Feasible, Row
    <2> HIDE DEF f
    <2>6. s \in Row /\ s.feasible = f
      BY <2>3, <2>4 DEF Row
    <2> HIDE DEF s
    <2>7. Judged(s)
      BY <2>4, <2>5, <2>6 DEF Judged
    <2>8. Scan!At(i, "done", s)
      BY <2>1 DEF s, r, f
    <2>9. QED
      BY <1>1, <1>2, <2>6, <2>7, <2>8, AtKeeps
  <1>9. QED
    BY <1>4, <1>5, <1>6, <1>7, <1>8

\* The list that a text is read to.
LEMMA NormalisedIsList ==
  ASSUME NEW text \in Seq(Scan!Words)
  PROVE  Scan!Normalised(text) \in Seq(Scan!Lists)
  <1> DEFINE N == Len(text)
             S == Seq(Scan!Lists)
             Onto(n, b) == Scan!Taken(b, Scan!Canon(text[n]))
             turn == [n \in 1 .. N |-> [b \in S |-> Onto(n, b)]]
             none == << >>
             Body(f) == [n \in 0 .. N |-> IF n = 0 THEN << >> ELSE Onto(n, f[n - 1])]
             out == CHOOSE g : g = Body(g)
  <1>1. N \in Nat /\ none \in S
    OBVIOUS
  <1>2. \A n \in 1 .. N, b \in S : Onto(n, b) \in S
    <2> SUFFICES ASSUME NEW n \in 1 .. N, NEW b \in S PROVE Onto(n, b) \in S
      OBVIOUS
    <2>1. text[n] \in Scan!Words
      OBVIOUS
    <2>2. Scan!Canon(text[n]) \in Scan!Lists \cup {Scan!Unread}
      BY <2>1 DEF Scan!Words, Scan!Canon
    <2>3. QED
      BY <2>2 DEF Scan!Taken
  <1>3. Scan!Normalised(text) = out[N]
    BY DEF Scan!Normalised
  <1> HIDE DEF N, S, Onto
  <1>4. turn \in [1 .. N -> [S -> S]]
    BY <1>2
  <1>5. \A n \in 1 .. N, b \in S : turn[n][b] = Onto(n, b)
    OBVIOUS
  <1>6. PICK f \in [0 .. N -> S] : f[0] = << >> /\ \A n \in 1 .. N : f[n] = turn[n][f[n - 1]]
    <2> HIDE DEF turn, none
    <2>1. \E f \in [0 .. N -> S] : Recurs(f, N, none, turn)
      BY <1>1, <1>4, RecursionExists
    <2>2. QED
      BY <2>1 DEF none, Recurs
  <1> HIDE DEF turn
  <1>7. f = Body(f)
    <2>1. ASSUME NEW n \in 1 .. N PROVE f[n] = Onto(n, f[n - 1])
      BY <1>1, <1>5, <1>6
    <2>2. \A n \in 0 .. N : f[n] = IF n = 0 THEN << >> ELSE Onto(n, f[n - 1])
      BY <1>1, <1>6, <2>1
    <2>3. QED
      BY <2>2
  <1>8. out = Body(out)
    BY <1>7
  <1> HIDE DEF out
  <1> DEFINE T == {n \in 0 .. N : out[n] \in S}
  <1>9. 0 .. N \subseteq T
    <2>1. 0 \in T
      BY <1>1, <1>8
    <2>2. ASSUME NEW n \in 1 .. N, n - 1 \in T PROVE n \in T
      BY <2>2, <1>1, <1>2, <1>8
    <2> HIDE DEF T
    <2>3. QED
      BY <1>1, <2>1, <2>2, UpTo
  <1>10. QED
    BY <1>1, <1>3, <1>9 DEF S

\* The tasks of one target.
LEMMA TasksOfTarget ==
  ASSUME NEW t \in Scan!Lists
  PROVE  /\ Scan!TasksOf(t) \in Seq(Task)
         /\ \A i \in 1 .. Len(Scan!TasksOf(t)) : TaskOK(Scan!TasksOf(t)[i])
  <1>1. Scan!Blank(t) \in Row /\ Judged(Scan!Blank(t))
    BY BlankRow
  <1>2. Behind[t] \in Seq(Scan!Machine)
    BY PanelConstants DEF Scan!ScanConstants
  <1> DEFINE one(met, bulk) == [of |-> t, met |-> met, bulk |-> bulk, at |-> "queued",
                                got |-> Scan!Blank(t)]
  <1>3. ASSUME NEW met \in SUBSET Scan!Machine, NEW bulk \in BOOLEAN
        PROVE  one(met, bulk) \in Task /\ TaskOK(one(met, bulk))
    BY <1>1 DEF Task, TaskOK
  <1> HIDE DEF one
  <1>4. CASE t \in ScanNames
    <2>1. Scan!Range(Behind[t]) \subseteq Scan!Machine
      BY <1>2 DEF Scan!Range
    <2>2. Scan!TasksOf(t) = <<one(Scan!Range(Behind[t]), FALSE)>>
      BY <1>4 DEF Scan!TasksOf, one
    <2> DEFINE x == one(Scan!Range(Behind[t]), FALSE)
    <2>3. x \in Task /\ TaskOK(x)
      BY <1>3, <2>1
    <2>4. Scan!TasksOf(t) = <<x>>
      BY <2>2
    <2> HIDE DEF x
    <2>5. <<x>> \in Seq(Task) /\ \A i \in 1 .. Len(<<x>>) : <<x>>[i] = x
      BY <2>3
    <2>6. QED
      BY <2>3, <2>4, <2>5
  <1>5. CASE t \notin ScanNames
    <2> DEFINE n == IF Len(Behind[t]) < NetLimit THEN Len(Behind[t]) ELSE NetLimit
    <2>1. n \in Nat /\ n <= Len(Behind[t])
      BY <1>2, PanelConstants DEF Scan!ScanConstants
    <2>2. Scan!TasksOf(t) = [i \in 1 .. n |-> one({Behind[t][i]}, TRUE)]
      BY <1>5 DEF Scan!TasksOf, one
    <2> HIDE DEF n
    <2>3. \A i \in 1 .. n : {Behind[t][i]} \in SUBSET Scan!Machine
      BY <1>2, <2>1
    <2>4. \A i \in 1 .. n : one({Behind[t][i]}, TRUE) \in Task /\ TaskOK(one({Behind[t][i]}, TRUE))
      BY <1>3, <2>3
    <2> DEFINE q == [i \in 1 .. n |-> one({Behind[t][i]}, TRUE)]
    <2>5. q \in Seq(Task) /\ Len(q) = n
      <3>1. q \in [1 .. n -> Task]
        BY <2>4
      <3> HIDE DEF q
      <3>2. QED
        BY <2>1, <3>1
    <2>6. \A i \in 1 .. n : TaskOK(q[i])
      BY <2>4
    <2>7. Scan!TasksOf(t) = q
      BY <2>2
    <2> HIDE DEF q
    <2>8. QED
      BY <2>5, <2>6, <2>7
  <1>6. QED
    BY <1>4, <1>5

Queue == {q \in Seq(Task) : \A i \in 1 .. Len(q) : TaskOK(q[i])}

LEMMA ConcatTasks ==
  ASSUME NEW p \in Queue, NEW q \in Queue
  PROVE  p \o q \in Queue
  <1>1. p \o q \in Seq(Task) /\ Len(p \o q) = Len(p) + Len(q)
    BY DEF Queue
  <1>2. ASSUME NEW i \in 1 .. Len(p \o q) PROVE TaskOK((p \o q)[i])
    <2>1. CASE i <= Len(p)
      <3>1. (p \o q)[i] = p[i] /\ i \in 1 .. Len(p)
        BY <1>1, <2>1 DEF Queue
      <3>2. QED
        BY <3>1 DEF Queue
    <2>2. CASE i > Len(p)
      <3>1. (p \o q)[i] = q[i - Len(p)] /\ i - Len(p) \in 1 .. Len(q)
        BY <1>1, <2>2 DEF Queue
      <3>2. QED
        BY <3>1 DEF Queue
    <2>3. Len(p) \in Nat /\ Len(q) \in Nat
      BY DEF Queue
    <2>4. i <= Len(p) \/ i > Len(p)
      BY <1>1, <2>3
    <2>5. QED
      BY <2>1, <2>2, <2>4
  <1>3. QED
    BY <1>1, <1>2 DEF Queue

LEMMA UnfoldedIsQueue ==
  ASSUME NEW l \in Seq(Scan!Lists)
  PROVE  Scan!Unfolded(l) \in Queue
  <1> DEFINE N == Len(l)
             Onto(n, b) == b \o Scan!TasksOf(l[n])
             turn == [n \in 1 .. N |-> [b \in Queue |-> Onto(n, b)]]
             none == << >>
             Body(f) == [n \in 0 .. N |-> IF n = 0 THEN << >> ELSE Onto(n, f[n - 1])]
             all == CHOOSE g : g = Body(g)
             most == all[N]
  <1>1. N \in Nat /\ none \in Queue
    BY DEF Queue
  <1>2. \A n \in 1 .. N, b \in Queue : Onto(n, b) \in Queue
    <2> SUFFICES ASSUME NEW n \in 1 .. N, NEW b \in Queue PROVE Onto(n, b) \in Queue
      OBVIOUS
    <2>1. l[n] \in Scan!Lists
      OBVIOUS
    <2>2. Scan!TasksOf(l[n]) \in Queue
      BY <2>1, TasksOfTarget DEF Queue
    <2>3. QED
      BY <2>2, ConcatTasks
  <1>3. Scan!Unfolded(l) = SubSeq(most, 1, IF Len(most) < TaskLimit THEN Len(most) ELSE TaskLimit)
    BY DEF Scan!Unfolded
  <1> HIDE DEF N, Onto
  <1>4. turn \in [1 .. N -> [Queue -> Queue]]
    BY <1>2
  <1>5. \A n \in 1 .. N, b \in Queue : turn[n][b] = Onto(n, b)
    OBVIOUS
  <1>6. PICK f \in [0 .. N -> Queue] : f[0] = << >> /\ \A n \in 1 .. N : f[n] = turn[n][f[n - 1]]
    <2> HIDE DEF turn, none
    <2>1. \E f \in [0 .. N -> Queue] : Recurs(f, N, none, turn)
      BY <1>1, <1>4, RecursionExists
    <2>2. QED
      BY <2>1 DEF none, Recurs
  <1> HIDE DEF turn
  <1>7. f = Body(f)
    <2>1. ASSUME NEW n \in 1 .. N PROVE f[n] = Onto(n, f[n - 1])
      BY <1>1, <1>5, <1>6
    <2>2. \A n \in 0 .. N : f[n] = IF n = 0 THEN << >> ELSE Onto(n, f[n - 1])
      BY <1>1, <1>6, <2>1
    <2>3. QED
      BY <2>2
  <1>8. all = Body(all)
    BY <1>7
  <1> HIDE DEF all
  <1> DEFINE T == {n \in 0 .. N : all[n] \in Queue}
  <1>9. 0 .. N \subseteq T
    <2>1. 0 \in T
      BY <1>1, <1>8
    <2>2. ASSUME NEW n \in 1 .. N, n - 1 \in T PROVE n \in T
      BY <2>2, <1>1, <1>2, <1>8
    <2> HIDE DEF T
    <2>3. QED
      BY <1>1, <2>1, <2>2, UpTo
  <1>10. most \in Queue
    BY <1>1, <1>9
  <1> HIDE DEF most
  <1> DEFINE n == IF Len(most) < TaskLimit THEN Len(most) ELSE TaskLimit
  <1>11. n \in Nat /\ n <= Len(most)
    BY <1>10, PanelConstants DEF Scan!ScanConstants, Queue
  <1> HIDE DEF n
  <1>12. SubSeq(most, 1, n) \in Seq(Task) /\ Len(SubSeq(most, 1, n)) = n
    BY <1>10, <1>11 DEF Queue
  <1>13. \A i \in 1 .. n : SubSeq(most, 1, n)[i] = most[i]
    BY <1>10, <1>11 DEF Queue
  <1>14. \A i \in 1 .. n : TaskOK(SubSeq(most, 1, n)[i])
    BY <1>10, <1>11, <1>13 DEF Queue
  <1>15. QED
    BY <1>3, <1>12, <1>14 DEF Queue, n

LEMMA BetterIsAtLeast ==
  ASSUME NEW r \in Row, NEW s \in Row, Scan!Better(r, s)
  PROVE  Scan!AtLeast(r, s)
  BY DEF Scan!Better, Scan!AtLeast, Row

LEMMA AtLeastItself == ASSUME NEW r \in Row PROVE Scan!AtLeast(r, r)
  BY DEF Scan!AtLeast

LEMMA AtLeastTransitive ==
  ASSUME NEW a \in Row, NEW b \in Row, NEW c \in Row, Scan!AtLeast(a, b), Scan!AtLeast(b, c)
  PROVE  Scan!AtLeast(a, c)
  BY DEF Scan!AtLeast, Row

\* Rows that are judged, one to a target.
Apart ==
  {b \in Seq(Row) : /\ \A i \in 1 .. Len(b) : Judged(b[i])
                    /\ \A i, j \in 1 .. Len(b) : b[i].target = b[j].target => i = j}

\* A target that has an answer has a row no worse.
Covered(b, r) == \E i \in 1 .. Len(b) : b[i].target = r.target /\ Scan!AtLeast(b[i], r)

\* A row that is placed is covered, and what was covered stays so.
LEMMA PlacedCovers ==
  ASSUME NEW b \in Apart, NEW r \in Row, Judged(r)
  PROVE  /\ Scan!Placed(b, r) \in Apart
         /\ Covered(Scan!Placed(b, r), r)
         /\ \A s \in Row : Covered(b, s) => Covered(Scan!Placed(b, r), s)
  <1>1. b \in Seq(Row) /\ Len(b) \in Nat /\ DOMAIN b = 1 .. Len(b)
    BY DEF Apart
  <1>2. CASE \E i \in 1 .. Len(b) : b[i].target = r.target
    <2> DEFINE p == [i \in 1 .. Len(b) |->
                       IF b[i].target = r.target /\ Scan!Better(r, b[i]) THEN r ELSE b[i]]
    <2>1. Scan!Placed(b, r) = p
      BY <1>1, <1>2 DEF Scan!Placed
    <2>2. \A i \in 1 .. Len(b) : p[i] \in Row /\ p[i].target = b[i].target /\ Judged(p[i])
      BY <1>1 DEF Apart
    <2>3. p \in Seq(Row) /\ Len(p) = Len(b)
      <3>1. p \in [1 .. Len(b) -> Row]
        BY <2>2
      <3> HIDE DEF p
      <3>2. QED
        BY <1>1, <3>1
    <2>4. p \in Apart
      <3> HIDE DEF p
      <3>1. QED
        BY <2>2, <2>3 DEF Apart
    <2>5. \A i \in 1 .. Len(b) : Scan!AtLeast(p[i], b[i])
      <3> SUFFICES ASSUME NEW i \in 1 .. Len(b) PROVE Scan!AtLeast(p[i], b[i])
        OBVIOUS
      <3>1. b[i] \in Row
        BY <1>1
      <3>2. CASE p[i] = b[i]
        BY <3>1, <3>2, AtLeastItself
      <3>3. CASE p[i] = r /\ Scan!Better(r, b[i])
        BY <3>1, <3>3, BetterIsAtLeast
      <3>4. QED
        BY <3>2, <3>3
    <2>6. ASSUME NEW s \in Row, Covered(b, s) PROVE Covered(p, s)
      <3>1. PICK i \in 1 .. Len(b) : b[i].target = s.target /\ Scan!AtLeast(b[i], s)
        BY <2>6 DEF Covered
      <3>2. b[i] \in Row /\ p[i] \in Row
        BY <1>1, <2>2
      <3>3. Scan!AtLeast(p[i], s)
        BY <2>5, <3>1, <3>2, AtLeastTransitive
      <3>4. p[i].target = s.target
        BY <2>2, <3>1
      <3> HIDE DEF p
      <3>5. QED
        BY <2>3, <3>3, <3>4 DEF Covered
    <2>7. Covered(p, r)
      <3>1. PICK i \in 1 .. Len(b) : b[i].target = r.target
        BY <1>2
      <3>2. b[i] \in Row
        BY <1>1
      <3>3. CASE Scan!Better(r, b[i])
        <4>1. p[i] = r
          BY <3>1, <3>3
        <4>2. Scan!AtLeast(p[i], r)
          BY <4>1, AtLeastItself
        <4> HIDE DEF p
        <4>3. QED
          BY <2>3, <4>1, <4>2 DEF Covered
      <3>4. CASE ~Scan!Better(r, b[i])
        <4>1. p[i] = b[i]
          BY <3>1, <3>4
        <4>2. Scan!AtLeast(b[i], r)
          BY <3>2, <3>4 DEF Scan!Better, Scan!AtLeast, Row
        <4> HIDE DEF p
        <4>3. QED
          BY <2>3, <3>1, <4>1, <4>2 DEF Covered
      <3>5. QED
        BY <3>3, <3>4
    <2> HIDE DEF p
    <2>8. QED
      BY <2>1, <2>4, <2>6, <2>7
  <1>3. CASE \A i \in 1 .. Len(b) : b[i].target # r.target
    <2> DEFINE p == Append(b, r)
    <2>1. Scan!Placed(b, r) = p
      BY <1>1, <1>3 DEF Scan!Placed
    <2>2. p \in Seq(Row) /\ Len(p) = Len(b) + 1
      BY <1>1
    <2>3. p[Len(b) + 1] = r /\ \A i \in 1 .. Len(b) : p[i] = b[i]
      BY <1>1
    <2> HIDE DEF p
    <2>4. \A i \in 1 .. Len(b) + 1 : i \in 1 .. Len(b) \/ i = Len(b) + 1
      BY <1>1
    <2>5. p \in Apart
      <3>1. \A i \in 1 .. Len(p) : Judged(p[i])
        BY <2>2, <2>3, <2>4 DEF Apart
      <3>2. ASSUME NEW i \in 1 .. Len(p), NEW j \in 1 .. Len(p), p[i].target = p[j].target
            PROVE  i = j
        <4>1. CASE i \in 1 .. Len(b) /\ j \in 1 .. Len(b)
          BY <2>3, <3>2, <4>1 DEF Apart
        <4>2. CASE i = Len(b) + 1 /\ j \in 1 .. Len(b)
          BY <1>3, <2>3, <3>2, <4>2
        <4>3. CASE j = Len(b) + 1 /\ i \in 1 .. Len(b)
          BY <1>3, <2>3, <3>2, <4>3
        <4>4. QED
          BY <2>2, <2>4, <4>1, <4>2, <4>3
      <3>3. QED
        BY <2>2, <3>1, <3>2 DEF Apart
    <2>6. Covered(p, r)
      <3>1. Scan!AtLeast(r, r)
        BY AtLeastItself
      <3>2. Len(b) + 1 \in 1 .. Len(p)
        BY <1>1, <2>2
      <3>3. QED
        BY <2>3, <3>1, <3>2 DEF Covered
    <2>7. ASSUME NEW s \in Row, Covered(b, s) PROVE Covered(p, s)
      <3>1. PICK i \in 1 .. Len(b) : b[i].target = s.target /\ Scan!AtLeast(b[i], s)
        BY <2>7 DEF Covered
      <3>2. i \in 1 .. Len(p) /\ p[i] = b[i]
        BY <1>1, <2>2, <2>3
      <3>3. QED
        BY <3>1, <3>2 DEF Covered
    <2>8. QED
      BY <2>1, <2>5, <2>6, <2>7
  <1>4. QED
    BY <1>2, <1>3

LEMMA GotOfTask == ASSUME NEW t \in Task PROVE t.got \in Row
  BY DEF Task

\* What the answers of a scan come to: a row for every target, and none better.
LEMMA DedupeCovers ==
  ASSUME NEW done \in Seq(Task), \A i \in 1 .. Len(done) : Judged(done[i].got)
  PROVE  /\ Scan!Dedupe(done) \in Apart
         /\ \A i \in 1 .. Len(done) :
                Scan!Counts(done[i]) => Covered(Scan!Dedupe(done), done[i].got)
  <1>0. \A i \in 1 .. Len(done) : done[i] \in Task
    OBVIOUS
  <1> DEFINE N == Len(done)
             Onto(n, b) == IF Scan!Counts(done[n]) THEN Scan!Placed(b, done[n].got) ELSE b
             turn == [n \in 1 .. N |-> [b \in Apart |-> Onto(n, b)]]
             none == << >>
             Body(f) == [n \in 0 .. N |-> IF n = 0 THEN << >> ELSE Onto(n, f[n - 1])]
             out == CHOOSE g : g = Body(g)
  <1>1. N \in Nat /\ none \in Apart
    BY DEF Apart
  <1>2. \A n \in 1 .. N, b \in Apart : Onto(n, b) \in Apart
    <2> SUFFICES ASSUME NEW n \in 1 .. N, NEW b \in Apart PROVE Onto(n, b) \in Apart
      OBVIOUS
    <2>1. done[n].got \in Row /\ Judged(done[n].got)
      BY <1>0, GotOfTask
    <2>2. Scan!Placed(b, done[n].got) \in Apart
      BY <2>1, PlacedCovers
    <2>3. QED
      BY <2>2
  <1>3. Scan!Dedupe(done) = out[N]
    BY DEF Scan!Dedupe
  <1>4. ASSUME NEW n \in 1 .. N, NEW b \in Apart
        PROVE  /\ Scan!Counts(done[n]) => Covered(Onto(n, b), done[n].got)
               /\ \A s \in Row : Covered(b, s) => Covered(Onto(n, b), s)
    <2>1. done[n].got \in Row /\ Judged(done[n].got)
      BY <1>0, GotOfTask
    <2>2. /\ Covered(Scan!Placed(b, done[n].got), done[n].got)
          /\ \A s \in Row : Covered(b, s) => Covered(Scan!Placed(b, done[n].got), s)
      BY <2>1, PlacedCovers
    <2>3. QED
      BY <2>2
  <1>5. \A i \in 1 .. N : done[i].got \in Row
    BY <1>0, GotOfTask
  <1> HIDE DEF N, Onto
  <1>6. turn \in [1 .. N -> [Apart -> Apart]]
    BY <1>2
  <1>7. \A n \in 1 .. N, b \in Apart : turn[n][b] = Onto(n, b)
    OBVIOUS
  <1>8. PICK f \in [0 .. N -> Apart] : f[0] = << >> /\ \A n \in 1 .. N : f[n] = turn[n][f[n - 1]]
    <2> HIDE DEF turn, none
    <2>1. \E f \in [0 .. N -> Apart] : Recurs(f, N, none, turn)
      BY <1>1, <1>6, RecursionExists
    <2>2. QED
      BY <2>1 DEF none, Recurs
  <1> HIDE DEF turn
  <1>9. f = Body(f)
    <2>1. ASSUME NEW n \in 1 .. N PROVE f[n] = Onto(n, f[n - 1])
      BY <1>1, <1>7, <1>8
    <2>2. \A n \in 0 .. N : f[n] = IF n = 0 THEN << >> ELSE Onto(n, f[n - 1])
      BY <1>1, <1>8, <2>1
    <2>3. QED
      BY <2>2
  <1>10. out = Body(out)
    BY <1>9
  <1> HIDE DEF out
  <1> DEFINE Holds(n) == /\ out[n] \in Apart
                         /\ \A i \in 1 .. N : i <= n /\ Scan!Counts(done[i]) => Covered(out[n], done[i].got)
             T == {n \in 0 .. N : Holds(n)}
  <1>11. 0 .. N \subseteq T
    <2>1. 0 \in T
      <3>1. out[0] \in Apart
        BY <1>1, <1>10
      <3>2. \A i \in 1 .. N : ~(i <= 0)
        BY <1>1
      <3>3. QED
        BY <1>1, <3>1, <3>2
    <2>2. ASSUME NEW n \in 1 .. N, n - 1 \in T PROVE n \in T
      <3>1. Holds(n - 1) /\ n \in 0 .. N
        BY <1>1, <2>2
      <3>2. out[n] = Onto(n, out[n - 1])
        BY <1>1, <1>10
      <3>3. out[n] \in Apart
        BY <1>2, <3>1, <3>2
      <3>4. ASSUME NEW i \in 1 .. N, i <= n, Scan!Counts(done[i])
            PROVE  Covered(out[n], done[i].got)
        <4>1. CASE i = n
          BY <1>4, <3>1, <3>2, <3>4, <4>1
        <4>2. CASE i # n
          <5>1. i <= n - 1
            BY <1>1, <3>4, <4>2
          <5>2. Covered(out[n - 1], done[i].got)
            BY <3>1, <3>4, <5>1
          <5>3. QED
            BY <1>4, <1>5, <3>1, <3>2, <5>2
        <4>3. QED
          BY <4>1, <4>2
      <3>5. QED
        BY <3>1, <3>3, <3>4
    <2> HIDE DEF T
    <2>3. QED
      BY <1>1, <2>1, <2>2, UpTo
  <1>12. N \in 0 .. N
    BY <1>1
  <1>13. Holds(N)
    BY <1>11, <1>12
  <1>14. QED
    BY <1>1, <1>3, <1>13 DEF N

LEMMA BeforeIsStrict ==
  ASSUME NEW r \in Row, NEW s \in Row
  PROVE  /\ ~Scan!Before(r, r)
         /\ Scan!Before(r, s) /\ s.feasible => r.feasible
         /\ ~Scan!Before(s, r) /\ s.feasible => r.feasible
  BY DEF Scan!Before, Row

\* Rows in an order of Sorted: as far apart, those that fit first, all there.
LEMMA SortedKeeps ==
  ASSUME NEW best \in Apart, NEW order \in Scan!Sorted(best), NEW ranked,
         ranked = [i \in DOMAIN best |-> best[order[i]]]
  PROVE  /\ ranked \in Apart
         /\ \A i, j \in 1 .. Len(ranked) : i < j /\ ranked[j].feasible => ranked[i].feasible
         /\ \A r \in Row : Covered(best, r) => Covered(ranked, r)
  <1> DEFINE N == Len(best)
             Stands(i, j) == \/ Scan!Before(best[i], best[j])
                             \/ ~Scan!Before(best[j], best[i]) /\ i < j
  <1>1. best \in Seq(Row) /\ N \in Nat /\ DOMAIN best = 1 .. N
    BY DEF Apart
  <1>2. order \in [1 .. N -> 1 .. N]
    BY <1>1 DEF Scan!Sorted
  <1>3. \A k \in 1 .. N : \E i \in 1 .. N : order[i] = k
    BY <1>1 DEF Scan!Sorted
  <1>4. \A i, j \in 1 .. N : i < j => Stands(order[i], order[j])
    BY <1>1 DEF Scan!Sorted
  <1>5. /\ \A i \in 1 .. N : Judged(best[i])
        /\ \A i, j \in 1 .. N : best[i].target = best[j].target => i = j
    BY DEF Apart
  <1>6. \A i \in 1 .. N : best[i] \in Row
    BY <1>1
  <1> HIDE DEF N
  <1>7. ranked = [i \in 1 .. N |-> best[order[i]]]
    BY <1>1
  <1>8. \A i \in 1 .. N : order[i] \in 1 .. N /\ ranked[i] = best[order[i]]
    BY <1>2, <1>7
  <1>9. ranked \in Seq(Row) /\ Len(ranked) = N
    <2>1. ranked \in [1 .. N -> Row]
      BY <1>6, <1>7, <1>8
    <2>2. QED
      BY <1>1, <2>1
  <1>10. ASSUME NEW i \in 1 .. N, NEW j \in 1 .. N, i < j PROVE order[i] # order[j]
    <2>1. SUFFICES ASSUME order[i] = order[j] PROVE FALSE
      OBVIOUS
    <2>2. Stands(order[i], order[i]) /\ order[i] \in 1 .. N
      BY <1>4, <1>8, <1>10, <2>1
    <2>3. ~Scan!Before(best[order[i]], best[order[i]])
      BY <1>6, <2>2, BeforeIsStrict
    <2>4. ~(order[i] < order[i])
      BY <1>1, <2>2
    <2>5. QED
      BY <2>2, <2>3, <2>4
  <1>11. ASSUME NEW i \in 1 .. N, NEW j \in 1 .. N, order[i] = order[j] PROVE i = j
    BY <1>1, <1>10, <1>11
  <1>12. ASSUME NEW i \in 1 .. N, NEW j \in 1 .. N, i < j, ranked[j].feasible
         PROVE  ranked[i].feasible
    <2>1. Stands(order[i], order[j])
      BY <1>4, <1>12
    <2>2. ranked[i] = best[order[i]] /\ ranked[j] = best[order[j]]
          /\ ranked[i] \in Row /\ ranked[j] \in Row
      BY <1>6, <1>8
    <2>3. Scan!Before(ranked[i], ranked[j]) \/ ~Scan!Before(ranked[j], ranked[i])
      BY <2>1, <2>2
    <2>4. QED
      BY <1>12, <2>2, <2>3, BeforeIsStrict
  <1>13. ranked \in Apart
    <2>1. \A i \in 1 .. N : Judged(ranked[i])
      BY <1>5, <1>8
    <2>2. ASSUME NEW i \in 1 .. N, NEW j \in 1 .. N, ranked[i].target = ranked[j].target
          PROVE  i = j
      <3>1. order[i] = order[j]
        BY <1>5, <1>8, <2>2
      <3>2. QED
        BY <1>11, <3>1
    <2>3. QED
      BY <1>9, <2>1, <2>2 DEF Apart
  <1>14. ASSUME NEW r \in Row, Covered(best, r) PROVE Covered(ranked, r)
    <2>1. PICK k \in 1 .. N : best[k].target = r.target /\ Scan!AtLeast(best[k], r)
      BY <1>14 DEF Covered, N
    <2>2. PICK i \in 1 .. N : order[i] = k
      BY <1>3
    <2>3. ranked[i] = best[k]
      BY <1>8, <2>2
    <2>4. QED
      BY <1>9, <2>1, <2>3 DEF Covered
  <1>15. QED
    BY <1>9, <1>12, <1>13, <1>14

LEMMA FinishKeeps ==
  ASSUME ScanInv, Scan!Finish
  PROVE  /\ rows' \in Seq(Row) /\ \A i \in 1 .. Len(rows') : Judged(rows'[i])
         /\ Scan!RankKeepsBest'
  <1> DEFINE best == Scan!Dedupe(tasks)
  <1>1. tasks \in Seq(Task) /\ \A i \in 1 .. Len(tasks) : TaskOK(tasks[i])
    BY DEF ScanInv
  <1>2. \A i \in 1 .. Len(tasks) : tasks[i].at = "done"
    BY <1>1 DEF Scan!Finish
  <1>3. \A i \in 1 .. Len(tasks) : Judged(tasks[i].got)
    BY <1>1, <1>2 DEF TaskOK
  <1>4. /\ best \in Apart
        /\ \A i \in 1 .. Len(tasks) : Scan!Counts(tasks[i]) => Covered(best, tasks[i].got)
    BY <1>1, <1>3, DedupeCovers
  <1>5. PICK order \in Scan!Sorted(best) : rows' = [i \in DOMAIN best |-> best[order[i]]]
    BY DEF Scan!Finish
  <1> HIDE DEF best
  <1>6. /\ rows' \in Apart
        /\ \A i, j \in 1 .. Len(rows') : i < j /\ rows'[j].feasible => rows'[i].feasible
        /\ \A r \in Row : Covered(best, r) => Covered(rows', r)
    BY <1>4, <1>5, SortedKeeps
  <1>7. ASSUME NEW r \in ended' PROVE Covered(rows', r)
    <2>1. PICK i \in 1 .. Len(tasks) : Scan!Counts(tasks[i]) /\ r = tasks[i].got
      BY <1>1, <1>7 DEF Scan!Finish
    <2>2. r \in Row
      BY <1>1, <2>1, GotOfTask
    <2>3. QED
      BY <1>4, <1>6, <2>1, <2>2
  <1>8. rows' \in Seq(Row) /\ DOMAIN rows' = 1 .. Len(rows')
    BY <1>6 DEF Apart
  <1>9. \A i \in 1 .. Len(rows') : Judged(rows'[i])
    BY <1>6 DEF Apart
  <1>10. \A i, j \in 1 .. Len(rows') : rows'[i].target = rows'[j].target => i = j
    BY <1>6 DEF Apart
  <1>11. \A r \in ended' : \E i \in 1 .. Len(rows') :
            rows'[i].target = r.target /\ Scan!AtLeast(rows'[i], r)
    BY <1>7 DEF Covered
  <1>12. QED
    BY <1>6, <1>8, <1>9, <1>10, <1>11 DEF Scan!RankKeepsBest, Scan!AtLeast

LEMMA ScanBegins == Scan!ScanInit => ScanInv
  BY DEF Scan!ScanInit, ScanInv, Scan!RankKeepsBest

\* Where the rows are those of before, they are as right as before.
LEMMA RowsRest ==
  ASSUME ScanInv, UNCHANGED <<rows, ended>>, list' \in Seq(Scan!Lists), tasks' \in Queue
  PROVE  ScanInv'
  BY DEF ScanInv, Scan!RankKeepsBest, Queue

LEMMA ScanRests == ScanInv /\ UNCHANGED scanVars => ScanInv'
  <1> SUFFICES ASSUME ScanInv, UNCHANGED scanVars PROVE ScanInv'
    OBVIOUS
  <1>1. tasks \in Queue /\ list \in Seq(Scan!Lists)
    BY DEF ScanInv, Queue
  <1>2. UNCHANGED <<rows, ended>> /\ tasks' = tasks /\ list' = list
    BY DEF scanVars
  <1>3. QED
    BY <1>1, <1>2, RowsRest

LEMMA ListSteps ==
  ASSUME ScanInv,
         \/ \E text \in UNION {[1 .. n -> Scan!Words] : n \in 1 .. 2} : Scan!EditList(text)
         \/ \E w \in Scan!Words : Scan!AddTarget(w)
         \/ Scan!ResetList
  PROVE  list' \in Seq(Scan!Lists) /\ UNCHANGED <<rows, ended, tasks>>
  <1>1. ASSUME NEW n \in 1 .. 2, NEW text \in [1 .. n -> Scan!Words], Scan!EditList(text)
        PROVE  list' \in Seq(Scan!Lists) /\ UNCHANGED <<rows, ended, tasks>>
    <2>1. text \in Seq(Scan!Words)
      OBVIOUS
    <2>2. QED
      BY <1>1, <2>1, NormalisedIsList DEF Scan!EditList
  <1>2. ASSUME NEW w \in Scan!Words, Scan!AddTarget(w)
        PROVE  list' \in Seq(Scan!Lists) /\ UNCHANGED <<rows, ended, tasks>>
    <2>1. Scan!Canon(w) \in Scan!Lists
      BY <1>2 DEF Scan!AddTarget, Scan!Canon, Scan!Words
    <2>2. list \in Seq(Scan!Lists)
      BY DEF ScanInv
    <2>3. QED
      BY <1>2, <2>1, <2>2 DEF Scan!AddTarget
  <1>3. CASE Scan!ResetList
    BY <1>3, PanelConstants DEF Scan!ResetList, Scan!ScanConstants
  <1>4. QED
    BY <1>1, <1>2, <1>3

LEMMA RunSteps ==
  ASSUME ScanInv, Scan!RunScan
  PROVE  tasks' \in Queue
  <1> DEFINE n == IF Len(list) < ScanLimit THEN Len(list) ELSE ScanLimit
  <1>1. list \in Seq(Scan!Lists)
    BY DEF ScanInv
  <1>2. n \in Nat /\ n <= Len(list)
    BY <1>1, PanelConstants DEF Scan!ScanConstants
  <1>3. tasks' = Scan!Unfolded(SubSeq(list, 1, n))
    BY DEF Scan!RunScan
  <1> HIDE DEF n
  <1>4. SubSeq(list, 1, n) \in Seq(Scan!Lists)
    BY <1>1, <1>2
  <1>5. QED
    BY <1>3, <1>4, UnfoldedIsQueue

LEMMA ScanStep == ScanInv /\ Scan!ScanNext => ScanInv'
  <1> SUFFICES ASSUME ScanInv, Scan!ScanNext PROVE ScanInv'
    OBVIOUS
  <1>1. tasks \in Queue /\ list \in Seq(Scan!Lists)
    BY DEF ScanInv, Queue
  <1>2. CASE \/ \E text \in UNION {[1 .. n -> Scan!Words] : n \in 1 .. 2} : Scan!EditList(text)
             \/ \E w \in Scan!Words : Scan!AddTarget(w)
             \/ Scan!ResetList
    <2>1. list' \in Seq(Scan!Lists) /\ UNCHANGED <<rows, ended, tasks>>
      BY <1>2, ListSteps
    <2>2. QED
      BY <1>1, <2>1, RowsRest
  <1>3. CASE Scan!RunScan
    <2>1. tasks' \in Queue
      BY <1>3, RunSteps
    <2>2. UNCHANGED <<rows, ended>> /\ list' = list
      BY <1>3 DEF Scan!RunScan
    <2>3. QED
      BY <1>1, <2>1, <2>2, RowsRest
  <1>4. CASE Scan!Abandon
    <2>1. tasks' = << >> /\ UNCHANGED <<rows, ended>> /\ list' = list
      BY <1>4 DEF Scan!Abandon
    <2>2. tasks' \in Queue
      BY <2>1 DEF Queue
    <2>3. QED
      BY <1>1, <2>1, <2>2, RowsRest
  <1>5. ASSUME NEW i \in DOMAIN tasks,
               \/ Scan!Begin(i) \/ Scan!Connect(i) \/ Scan!Curve(i) \/ Scan!AskGroups(i)
               \/ Scan!Verify(i)
        PROVE  ScanInv'
    <2>1. tasks' \in Queue
      BY <1>5, TaskSteps DEF Queue
    <2>2. UNCHANGED <<rows, ended>> /\ list' = list
      BY <1>5 DEF Scan!Begin, Scan!Connect, Scan!Curve, Scan!AskGroups, Scan!Verify
    <2>3. QED
      BY <1>1, <2>1, <2>2, RowsRest
  <1>6. CASE Scan!Finish
    <2>1. /\ rows' \in Seq(Row) /\ \A i \in 1 .. Len(rows') : Judged(rows'[i])
          /\ Scan!RankKeepsBest'
      BY <1>6, FinishKeeps
    <2>2. tasks' = << >> /\ list' = list
      BY <1>6 DEF Scan!Finish
    <2>3. QED
      BY <1>1, <2>1, <2>2 DEF ScanInv
  <1>7. QED
    BY <1>2, <1>3, <1>4, <1>5, <1>6 DEF Scan!ScanNext

\* The least of the encryptions that a row fits is one of reality where plain
\* reality is one of them.
LEMMA RowSaysOne ==
  ASSUME NEW r \in Row, Judged(r)
  PROVE  /\ r.feasible <=> Scan!FitsKind(r, Scan!RealityKind("", FALSE))
         /\ r.feasible => \E k \in Scan!Recommended(r) : ~k.tls
  <1>1. r.feasible <=> Scan!FitsKind(r, Scan!RealityKind("", FALSE))
    BY DEF Judged, Scan!Feasible, Scan!FitsKind, Scan!RealityKind, Scan!Gaps, Row
  <1>2. ASSUME r.feasible PROVE \E k \in Scan!Recommended(r) : ~k.tls
    <2> DEFINE kinds == Scan!StrongestFirst
               fit == {i \in DOMAIN kinds : Scan!FitsKind(r, kinds[i])}
    <2>1. DOMAIN kinds = 1 .. 8 /\ kinds[5] = Scan!RealityKind("", FALSE)
      BY DEF Scan!StrongestFirst
    <2>2. /\ kinds[1].tls = FALSE /\ kinds[2].tls = FALSE /\ kinds[3].tls = FALSE
          /\ kinds[4].tls = FALSE /\ kinds[5].tls = FALSE
      BY DEF Scan!StrongestFirst, Scan!RealityKind
    <2>3. Scan!Recommended(r) = {kinds[i] : i \in {k \in fit : \A j \in fit : k <= j}}
      BY DEF Scan!Recommended
    <2> HIDE DEF kinds
    <2>4. Scan!FitsKind(r, kinds[5])
      BY <1>1, <1>2, <2>1, Zenon
    <2> DEFINE places == DOMAIN kinds
    <2>a. places = 1 .. 8
      BY <2>1
    <2> HIDE DEF places
    <2>b. 5 \in places /\ places \subseteq Nat
      BY <2>a
    <2>5. 5 \in DOMAIN kinds /\ DOMAIN kinds \subseteq Nat
      BY <2>b, Zenon DEF places
    <2>6. 5 \in fit
      BY <2>4, <2>5, Zenon
    <2>7. fit \subseteq DOMAIN kinds
      BY Zenon
    <2> HIDE DEF fit
    <2>8. fit \in SUBSET Nat /\ fit # {}
      BY <2>5, <2>6, <2>7
    <2>9. PICK i \in fit : \A j \in fit : i <= j
      BY <2>8, SetHasLeast
    <2>10. i \in 1 .. 8 /\ i <= 5
      BY <2>1, <2>6, <2>7, <2>9
    <2>11. i = 1 \/ i = 2 \/ i = 3 \/ i = 4 \/ i = 5
      BY <2>10
    <2>12. ~kinds[i].tls
      BY <2>2, <2>11
    <2>13. kinds[i] \in Scan!Recommended(r)
      BY <2>3, <2>9
    <2>14. QED
      BY <2>12, <2>13
  <1>3. QED
    BY <1>1, <1>2

LEMMA RowsSayOne == ScanInv => Scan!RowsAreRight
  <1> SUFFICES ASSUME ScanInv PROVE Scan!VerdictsAgree
    BY DEF Scan!RowsAreRight, ScanInv
  <1>1. rows \in Seq(Row) /\ \A i \in 1 .. Len(rows) : Judged(rows[i])
    BY DEF ScanInv
  <1>2. \A i \in DOMAIN rows : rows[i] \in Row /\ Judged(rows[i])
    BY <1>1
  <1>3. QED
    BY <1>2, RowSaysOne, Zenon DEF Scan!VerdictsAgree

-----------------------------------------------------------------------------
(* The composition: one part moves, and the invariants of the others rest.  *)

PanelInv ==
    LinkInv /\ KeyInv /\ WireInv /\ ServeInv /\ FetchInv /\ Release!SourceHasItsKey
    /\ ScanInv

LEMMA PanelBegins == Init => PanelInv
  BY LinkBegins, KeyBegins, WireBegins, ServeBegins, FetchBegins, SourceBegins, ScanBegins,
     Zenon
  DEF Init, PanelInv

LEMMA LinksRest == LinkInv /\ UNCHANGED linkVars => LinkInv'
  BY RegistryOfClients DEF LinkInv, linkVars

LEMMA KeysRest == KeyInv /\ UNCHANGED keyVars => KeyInv'
  BY DEF KeyInv, keyVars, KeysFit, Keys!KeysFit, Keys!SignatureIsWhole, Keys!TargetFits, Keys!Kind,
     Keys!Fits

LEMMA WireRests == WireInv /\ UNCHANGED wireVars => WireInv'
  BY DEF WireInv, wireVars, Links!VisionRuns

LEMMA ServeRests == ServeInv /\ UNCHANGED serveVars => ServeInv'
  <1> SUFFICES ASSUME ServeInv, UNCHANGED serveVars PROVE ServeInv'
    OBVIOUS
  <1>1. UNCHANGED <<files, cache, asks>>
    BY DEF serveVars
  <1>2. CacheHolds'
    BY <1>1 DEF ServeInv, CacheHolds, Between, Server!Now
  <1>3. \A r \in Readers : AskHolds(asks[r]) => AskHolds(asks[r])'
    BY <1>1 DEF AskHolds, Between, MayAnswer, Server!Now, Unread
  <1>4. QED
    BY <1>1, <1>2, <1>3 DEF ServeInv

LEMMA FetchRests == FetchInv /\ UNCHANGED fetchVars => FetchInv'
  BY DEF FetchInv, fetchVars, JobIsFair, Release!InstallIsTrue, Release!SealedOrNone,
     Release!NoticeIsTrue, Release!PinnedWasTried

LEMMA SourceRests == Release!SourceHasItsKey /\ UNCHANGED tunnelVars => Release!SourceHasItsKey'
  BY DEF tunnelVars, Release!SourceHasItsKey

LEMMA PortsRest == PortInv /\ UNCHANGED portVars => PortInv'
  <1> SUFFICES ASSUME PortInv, UNCHANGED portVars PROVE PortInv'
    OBVIOUS
  <1>1. PortsTypeOK' /\ Cardinality(look') <= Crowd
    BY DEF portVars, PortInv, PortsTypeOK, PortsCounted
  <1>2. QED
    BY <1>1, RestStep DEF portVars, Rests

LEMMA PanelStep == PanelInv /\ [Next]_panelVars => PanelInv'
  <1> SUFFICES ASSUME PanelInv, [Next]_panelVars PROVE PanelInv'
    OBVIOUS
  <1>1. LinkInv'
    <2>1. Links!LinkNext \/ UNCHANGED linkVars
      BY Zenon DEF Next, panelVars
    <2>2. QED
      BY <2>1, LinkStep, LinksRest DEF PanelInv
  <1>2. KeyInv'
    <2>1. Keys!KeyNext \/ UNCHANGED keyVars
      BY Zenon DEF Next, panelVars
    <2>2. QED
      BY <2>1, KeyStep, KeysRest DEF PanelInv
  <1>3. WireInv'
    <2>1. Links!WireNext \/ UNCHANGED wireVars
      BY Zenon DEF Next, panelVars
    <2>2. QED
      BY <2>1, WireStep, WireRests DEF PanelInv
  <1>4. ServeInv'
    <2>1. Server!ServeNext \/ UNCHANGED serveVars
      BY Zenon DEF Next, panelVars
    <2>2. QED
      BY <2>1, ServeStep, ServeRests DEF PanelInv
  <1>5. FetchInv'
    <2>1. Release!FetchNext \/ UNCHANGED fetchVars
      BY Zenon DEF Next, panelVars
    <2>2. QED
      BY <2>1, FetchStep, FetchRests DEF PanelInv
  <1>6. Release!SourceHasItsKey'
    <2>1. Release!TunnelNext \/ UNCHANGED tunnelVars
      BY Zenon DEF Next, panelVars
    <2>2. QED
      BY <2>1, SourceStep, SourceRests DEF PanelInv
  <1>7. ScanInv'
    <2>1. Scan!ScanNext \/ UNCHANGED scanVars
      BY Zenon DEF Next, panelVars
    <2>2. QED
      BY <2>1, ScanStep, ScanRests DEF PanelInv
  <1>8. QED
    BY <1>1, <1>2, <1>3, <1>4, <1>5, <1>6, <1>7 DEF PanelInv

LEMMA PanelHolds == Spec => []PanelInv
  BY PanelBegins, PanelStep, PTL DEF Spec

\* The link on the screen is the one served, when nothing was changed since
\* (panel.py:655 subs_apply).
THEOREM FreshLinksServed == Spec => []FreshLinkIsServed
  <1>1. PanelInv => FreshLinkIsServed
    BY LinkIsFresh DEF PanelInv
  <1>2. QED
    BY <1>1, PanelHolds, PTL

\* The halves of a signature and the target fit the encryption of an inbound,
\* whatever order presses, answers and typed values come in (scan.py:862
\* security_fit, xray.py:1333 switch_security).
THEOREM KeysAlwaysFit == Spec => []KeysFit
  <1>1. PanelInv => KeysFit
    BY DEF PanelInv, KeyInv
  <1>2. QED
    BY <1>1, PanelHolds, PTL

\* A link opens its inbound after any changes, switches and restarts, while no
\* half of a signature was typed (xray.py:987 vless_link, :575 stream).
THEOREM LinksAlwaysOpen == Spec => []LinkOpensInbound
  <1>1. PanelInv => LinkOpensInbound
    BY WireOpens DEF PanelInv
  <1>2. QED
    BY <1>1, PanelHolds, PTL

\* An answer of the subscription server is right for a moment of its request,
\* and counted for the client that made it (sub_server.py:240 read_registry).
THEOREM AnswersAlwaysRight == Spec => []AnswersAreRight
  <1>1. PanelInv => AnswersAreRight
    BY AnswersFit DEF PanelInv
  <1>2. QED
    BY <1>1, PanelHolds, PTL

\* The core in place was checked, the screen names it, and no list of packages
\* is left without its key, wherever an install stops (xray_agent.py).
THEOREM InstallsAreTrue == Spec => []InstallIsTrue
  <1>1. PanelInv => InstallIsTrue
    BY DEF PanelInv, FetchInv, InstallIsTrue
  <1>2. QED
    BY <1>1, PanelHolds, PTL

\* The rows of a scan have one row for every target that answered, the best of its
\* answers, those that fit before those that do not, whatever order the tasks ended
\* in and whatever names addresses turned out to share; and a row says of its target
\* what the table of encryptions says (scan.py:1385 rank, :761 feasible_of, :906
\* recommended_security).
THEOREM RowsAlwaysRight == Spec => []RowsAreRight
  <1>1. PanelInv => RowsAreRight
    BY RowsSayOne DEF PanelInv, RowsAreRight
  <1>2. QED
    BY <1>1, PanelHolds, PTL

\* No two inbounds have one port, no inbound that is sent has a port of the bot,
\* and the two copies of the port of the subscriptions agree, where the server
\* has more ports than inbounds and programs could take (xray.py:1482
\* resolve_ports).
THEOREM PortsStayRight ==
  ASSUME Room
  PROVE  Spec => []PortsAreApart
  <1>1. Init => PortInv
    BY PortsBegin DEF Init
  <1>2. PortInv /\ [Next]_panelVars => PortInv'
    <2>1. [Next]_panelVars => PortsNext \/ UNCHANGED portVars
      BY Zenon DEF Next, panelVars
    <2>2. QED
      BY <2>1, PortsStep, PortsRest, Room
  <1>3. PortInv => PortsAreApart
    BY DEF PortInv
  <1>4. QED
    BY <1>1, <1>2, <1>3, PTL DEF Spec
=============================================================================
