------------------------------ MODULE PanelLinks ------------------------------
(***************************************************************************)
(* The clients of the inbounds and the one subscription that serves their  *)
(* links.  A client has a pair of segments; the pair of the first client,  *)
(* by name and then by inbound, is the path of the subscription.  The      *)
(* registry on the server is what the last apply or push has written.      *)
(* Agents that were given up and still write are in SubsPush.  After them, *)
(* what one link says and what it is to open.                              *)
(***************************************************************************)
EXTENDS Integers, Sequences, FiniteSets, SequencesExt, FiniteSetsExt

CONSTANTS
    Ids,       \* bound of the model: the ids an inbound may get
    Names,     \* the names of clients, in their order; the first is "owner"
    Doors,     \* the ports the subscriptions may have
    MaxPairs,  \* bound of the model: pairs of segments drawn
    MaxWords,  \* bound of the model: values the owner types
    MaxPresses \* bound of the model: buttons the owner presses

Owner == 1
NoPair == 0
Shut == "shut"
NoReg == [path |-> NoPair, links |-> {}]

LinkConstants ==
    /\ Ids # {} /\ Ids \subseteq Nat \ {0} /\ IsFiniteSet(Ids)
    /\ Names \in Nat \ {0} /\ IsFiniteSet(Doors) /\ Shut \notin Doors
    /\ MaxPairs \in Nat /\ MaxWords \in Nat /\ MaxPresses \in Nat

VARIABLES
    inbounds,   \* the list of [id, enable, pair], a pair for every client
    door,       \* sub_port
    subEnabled, \* sub_enabled
    hostSet, tunnelOn, \* tunnel_host is set, tunnel_enabled
    registry,   \* on the server: the registry
    opened,     \* the port systemd keeps the service on
    bound,      \* the service listens there
    stranger,   \* the port another program listens on, or none
    call,       \* what the panel waits for
    load,       \* the registry and the port on their way to the server
    settled,    \* history: nothing has changed since the registry was built
    drawn, words, presses

linkVars == <<inbounds, door, subEnabled, hostSet, tunnelOn, registry, opened, bound,
              stranger, call, load, settled, drawn, words, presses>>
tunnelVars == <<hostSet, tunnelOn>>
runVars == <<opened, bound>>
serviceVars == <<registry, runVars, stranger>>

Clients == {c \in (1 .. Len(inbounds)) \X (1 .. Names) : inbounds[c[1]].pair[c[2]] # NoPair}
PairOf(c) == inbounds[c[1]].pair[c[2]]

\* ensure_sub_all: canonical_clients sorts by name, then by the id of the inbound.
Before(c, d) ==
    \/ c[2] < d[2]
    \/ c[2] = d[2] /\ inbounds[c[1]].id <= inbounds[d[1]].id
Path ==
    IF Clients = {} THEN NoPair
    ELSE PairOf(CHOOSE c \in Clients : \A d \in Clients : Before(c, d))

\* aggregate: the links of the clients of every enabled inbound.
Links ==
    {<<inbounds[c[1]].id, c[2]>> : c \in {d \in Clients : inbounds[d[1]].enable}}
SubRegistry == [path |-> Path, links |-> Links]

\* public_domain: the name of the tunnel, while it is on.
Domain == tunnelOn /\ hostSet

LinkTypeOK ==
    /\ \A k \in 1 .. Len(inbounds) :
          inbounds[k] \in [id : Ids, enable : BOOLEAN, pair : [1 .. Names -> 0 .. MaxPairs]]
    /\ door \in Doors /\ subEnabled \in BOOLEAN /\ hostSet \in BOOLEAN /\ tunnelOn \in BOOLEAN
    /\ opened \in Doors \cup {Shut} /\ stranger \in Doors \cup {Shut}
    /\ bound \in BOOLEAN /\ (bound => opened # Shut) /\ settled \in BOOLEAN
    /\ call \in {"none", "install", "sync"}
    /\ drawn \in 0 .. MaxPairs /\ words \in Nat /\ presses \in Nat

\* The tunnel is on when the state file says so: see Tunnel for the button.
LinkInit ==
    /\ inbounds = <<>> /\ door \in Doors /\ subEnabled = FALSE
    /\ hostSet \in BOOLEAN /\ tunnelOn \in {FALSE, hostSet}
    /\ registry = NoReg /\ opened = Shut /\ bound = FALSE /\ stranger \in Doors \cup {Shut}
    /\ call = "none"
    /\ load = [reg |-> NoReg, port |-> door] /\ settled = FALSE
    /\ drawn = 0 /\ words = 0 /\ presses = 0

Press == call = "none" /\ presses < MaxPresses /\ presses' = presses + 1
Draw(n) == drawn + n <= MaxPairs /\ drawn' = drawn + n
Touched == settled' = FALSE

\* create_quick: the client "owner" of a new inbound draws a pair of its own.
CreateInbound ==
    /\ Press /\ Touched /\ Draw(1)
    /\ LET free == Ids \ {inbounds[k].id : k \in DOMAIN inbounds}
       IN /\ free # {}
          /\ inbounds' = Append(inbounds,
                [id |-> Min(free), enable |-> TRUE,
                 pair |-> [n \in 1 .. Names |-> IF n = Owner THEN drawn + 1 ELSE NoPair]])
    /\ UNCHANGED <<door, subEnabled, tunnelVars, serviceVars, call, load, words>>

ToggleInbound(k) ==
    /\ Press /\ Touched /\ inbounds' = [inbounds EXCEPT ![k].enable = ~@]
    /\ UNCHANGED <<door, subEnabled, tunnelVars, serviceVars, call, load, drawn, words>>

RemoveInbound(k) ==
    /\ Press /\ Touched /\ inbounds' = RemoveAt(inbounds, k)
    /\ UNCHANGED <<door, subEnabled, tunnelVars, serviceVars, call, load, drawn, words>>

RemoveClient(k, n) ==
    /\ Press /\ Touched /\ <<k, n>> \in Clients
    /\ inbounds' = [inbounds EXCEPT ![k].pair[n] = NoPair]
    /\ UNCHANGED <<door, subEnabled, tunnelVars, serviceVars, call, load, drawn, words>>

\* rotate_subscription: one new pair for the clients of one name.
Rotate(n) ==
    /\ Press /\ Touched /\ Draw(1) /\ \E c \in Clients : c[2] = n
    /\ inbounds' = [k \in DOMAIN inbounds |->
          IF <<k, n>> \in Clients THEN [inbounds[k] EXCEPT !.pair[n] = drawn + 1] ELSE inbounds[k]]
    /\ UNCHANGED <<door, subEnabled, tunnelVars, serviceVars, call, load, words>>

\* "rotate" of the subscriptions: every client draws a pair of its own.
RotateAll ==
    /\ Press /\ Touched /\ Clients # {} /\ Draw(Cardinality(Clients))
    /\ LET line == SetToSortSeq(Clients,
                      LAMBDA c, d : c[1] < d[1] \/ (c[1] = d[1] /\ c[2] < d[2]))
           new(c) == drawn + (CHOOSE j \in DOMAIN line : line[j] = c)
       IN inbounds' = [k \in DOMAIN inbounds |->
             [inbounds[k] EXCEPT !.pair =
                [n \in 1 .. Names |-> IF <<k, n>> \in Clients THEN new(<<k, n>>) ELSE NoPair]]]
    /\ UNCHANGED <<door, subEnabled, tunnelVars, serviceVars, call, load, words>>

Word == words < MaxWords /\ words' = words + 1

\* xr_client_email: a new client takes the pair its name has elsewhere.
AddClient(k, n) ==
    /\ Word /\ Touched /\ <<k, n>> \notin Clients
    /\ LET same == {j \in DOMAIN inbounds : <<j, n>> \in Clients}
       IN IF same # {}
          THEN /\ inbounds' = [inbounds EXCEPT ![k].pair[n] = inbounds[Min(same)].pair[n]]
               /\ UNCHANGED drawn
          ELSE Draw(1) /\ inbounds' = [inbounds EXCEPT ![k].pair[n] = drawn + 1]
    /\ UNCHANGED <<door, subEnabled, tunnelVars, serviceVars, call, load, presses>>

\* xr_sub_port.
TypeDoor(p) ==
    /\ Word /\ Touched /\ p # door /\ door' = p
    /\ UNCHANGED <<inbounds, subEnabled, tunnelVars, serviceVars, call, load, drawn, presses>>

\* xr_tunnel_host: an empty one turns the tunnel off in the settings.
TypeHost(set) ==
    /\ Word /\ Touched /\ hostSet' = set /\ tunnelOn' = (tunnelOn /\ set)
    /\ UNCHANGED <<inbounds, door, subEnabled, serviceVars, call, load, drawn, presses>>

Stopped == opened' = Shut /\ bound' = FALSE

\* tunnel_action "off": a subscription server that does not stop is passed over.
TunnelOff ==
    /\ Press /\ Touched /\ tunnelOn' = FALSE /\ subEnabled' = FALSE
    /\ (subEnabled /\ Stopped) \/ UNCHANGED runVars
    /\ UNCHANGED <<inbounds, door, hostSet, registry, stranger, call, load, drawn, words>>

\* subs_apply: the domain is asked for once, then the server file goes out.
SubsApply ==
    /\ Press /\ Domain /\ call' = "install"
    /\ UNCHANGED <<inbounds, door, subEnabled, tunnelVars, serviceVars, load, settled, drawn, words>>

\* A variation: the registry is the one of an earlier apply.
BuildLate == load' = [reg |-> IF load.reg = NoReg THEN SubRegistry ELSE load.reg, port |-> door]
Build == load' = [reg |-> SubRegistry, port |-> door]

\* sub_install has answered; the registry is built and sent.
Installed ==
    /\ call = "install"
    /\ \/ call' = "sync" /\ Build /\ settled' = TRUE
       \/ call' = "none" /\ UNCHANGED <<load, settled>>
    /\ UNCHANGED <<inbounds, door, subEnabled, tunnelVars, serviceVars, drawn, words, presses>>

\* port_open: somebody listens, the service or a stranger.
Listening(p) == p = stranger \/ (bound /\ p = opened)

\* sub_sync leaves the service alone where somebody listens on the port asked
\* for, which is not asked who it is.
Keeps == Listening(load.port) /\ UNCHANGED runVars

\* Otherwise it restarts the service on that port, and says ok after ten seconds
\* whether or not it has come to listen.
Restarts == stranger # load.port /\ opened' = load.port /\ bound' \in BOOLEAN

\* sub_sync has answered; an error comes before the write, after it, after the
\* stop or out of the start.
Synced ==
    /\ call = "sync" /\ call' = "none"
    /\ \/ registry' = load.reg /\ subEnabled' = TRUE /\ UNCHANGED settled /\ (Keeps \/ Restarts)
       \/ /\ registry' \in {registry, load.reg} /\ Touched /\ UNCHANGED subEnabled
          /\ UNCHANGED runVars \/ Stopped \/ (opened' = load.port /\ bound' = FALSE)
    /\ UNCHANGED <<inbounds, door, tunnelVars, stranger, load, drawn, words, presses>>

\* The service comes up, on a port that nobody else has, or ends and is due again.
ServiceRuns ==
    /\ opened \notin {Shut, stranger} /\ bound' = ~bound
    /\ UNCHANGED <<inbounds, door, subEnabled, tunnelVars, registry, opened, stranger, call,
                   load, settled, drawn, words, presses>>

\* The push in the background sends the same two to a service in use.
Push ==
    /\ call = "none" /\ subEnabled /\ Domain /\ ~settled
    /\ call' = "sync" /\ Build /\ settled' = TRUE
    /\ UNCHANGED <<inbounds, door, subEnabled, tunnelVars, serviceVars, drawn, words, presses>>

SubsStatus ==
    /\ Press /\ subEnabled' = Listening(door)
    /\ UNCHANGED <<inbounds, door, tunnelVars, serviceVars, call, load, settled, drawn, words>>

\* subs_stop: the answer is ok although systemctl failed, or is an error although
\* it did not.
SubsStop ==
    /\ Press /\ Touched /\ subEnabled' \in {FALSE, subEnabled}
    /\ Stopped \/ UNCHANGED runVars
    /\ UNCHANGED <<inbounds, door, tunnelVars, registry, stranger, call, load, drawn, words>>

LinkNext ==
    \/ CreateInbound
    \/ \E k \in DOMAIN inbounds :
          \/ ToggleInbound(k) \/ RemoveInbound(k)
          \/ \E n \in 1 .. Names : RemoveClient(k, n) \/ AddClient(k, n)
    \/ \E n \in 1 .. Names : Rotate(n)
    \/ RotateAll
    \/ \E p \in Doors : TypeDoor(p)
    \/ \E set \in BOOLEAN : TypeHost(set)
    \/ TunnelOff
    \/ SubsApply \/ Installed \/ Synced \/ ServiceRuns \/ Push \/ SubsStatus \/ SubsStop

\* When an apply or a push has answered ok and nothing was changed since its
\* registry was built, what the server holds is the registry of the screen, with
\* every link of every enabled inbound (README.md:75; panel.py:655 subs_apply),
\* and the service is kept on the port of its links, unless another program has
\* that port: the agent takes that one for the service.
FreshLinkIsServed ==
    settled /\ call = "none" =>
        /\ registry = SubRegistry
        /\ opened = door \/ stranger = door

-----------------------------------------------------------------------------
(* One inbound as the core is to be configured with it, and the link that   *)
(* is to open it (BOT/xray.py): two texts written by functions that share   *)
(* no code, from fields the owner, a scan and the core change one by one,   *)
(* and that are written to the state file and read again.                   *)

CONSTANTS
    Hosts,      \* names a field may hold
    FirstHost,  \* DEFAULT_SNI
    MaxKeys,   \* bound of the model: key pairs the core makes
    MaxSteps    \* bound of the model: changes of the inbound

Networks == {"raw", "grpc", "xhttp"}
Securities == {"reality", "tls", "none"}
Nothing == "-"
Half == MaxKeys + 1 \* a typed half of a signature

WireConstants == FirstHost \in Hosts /\ Nothing \notin Hosts /\ {MaxKeys, MaxSteps} \subseteq Nat

\* XrayInbound with one client: a key pair is the number of the pair, 0 for
\* none.  A typed text is the mark "typed".
Inbound ==
    [network : Networks, security : Securities, sni : Hosts, header : Hosts \cup {Nothing},
     path : {"/", "typed"}, service : {Nothing, "typed"}, tag : {"made"},
     shortIds : SUBSET (0 .. 2), private : Nat, public : Nat, seed : Nat, verify : Nat,
     secret : Nat, shared : Nat, mode : {"native", "xorpub"}, auth : {Nothing, "x25519", "mlkem768"},
     long : BOOLEAN, certs : BOOLEAN, flow : BOOLEAN]

VARIABLES
    inb,    \* the inbound, with the flow of its client
    pairs,  \* key pairs made so far
    halves,  \* history: a half of a signature was typed
    steps

wireVars == <<inb, pairs, halves, steps>>

WireTypeOK == inb \in Inbound /\ pairs \in 0 .. MaxKeys /\ halves \in BOOLEAN /\ steps \in 0 .. MaxSteps

\* make_client: the flow is that of vision where vision runs.
VisionRuns(i) == i.network = "raw" /\ i.security \in {"reality", "tls"}

\* new_inbound and the first client.
Fresh(n, s) ==
    LET i == [network |-> n, security |-> s, sni |-> FirstHost, header |-> Nothing, path |-> "/",
              service |-> Nothing, tag |-> "made",
              shortIds |-> IF s = "reality" THEN {1} ELSE {},
              private |-> IF s = "reality" THEN 1 ELSE 0, public |-> IF s = "reality" THEN 1 ELSE 0,
              seed |-> 0, verify |-> 0, secret |-> 2, shared |-> 2, mode |-> "native",
              auth |-> Nothing, long |-> FALSE, certs |-> FALSE, flow |-> FALSE]
    IN  [i EXCEPT !.flow = VisionRuns(i)]

WireInit ==
    /\ \E n \in Networks, s \in Securities : inb = Fresh(n, s)
    /\ pairs = 2 /\ halves = FALSE /\ steps = 0

-----------------------------------------------------------------------------
(* What the core is told: stream, settings and entry.                      *)

NamesOf(i) == IF {i.sni, i.header} \ {Nothing} = {} THEN {FirstHost} ELSE {i.sni, i.header} \ {Nothing}
IdsOf(i) == IF i.shortIds = {} THEN {0} ELSE i.shortIds
Server(i) ==
    [network |-> i.network, security |-> i.security,
     service |-> IF i.service # Nothing THEN i.service ELSE i.tag,
     path |-> i.path, host |-> i.header,
     names |-> NamesOf(i), private |-> i.private, ids |-> IdsOf(i), seed |-> i.seed,
     certified |-> i.certs, mode |-> i.mode, secret |-> i.secret, flow |-> i.flow]

\* What the client is told: _stream_params, _security_params and vless_link.
Link(i) ==
    [network |-> i.network, security |-> i.security,
     service |-> IF i.service # Nothing THEN i.service ELSE i.tag,
     path |-> i.path, host |-> i.header,
     sni |-> i.sni, public |-> i.public,
     id |-> CHOOSE x \in IdsOf(i) : TRUE, verify |-> i.verify,
     mode |-> i.mode, shared |-> i.shared, flow |-> i.flow /\ VisionRuns(i)]

\* What a client and a core check of each other.
Opens(l, s) ==
    /\ l.network = s.network /\ l.security = s.security
    /\ l.network = "grpc" => l.service = s.service
    /\ l.network = "xhttp" => l.path = s.path /\ s.host \in {Nothing, l.host}
    /\ l.security = "reality" =>
           /\ l.sni \in s.names /\ l.public = s.private /\ l.id \in s.ids
           /\ l.verify # 0 => l.verify = s.seed
    /\ l.mode = s.mode /\ l.shared = s.secret /\ l.flow = s.flow

-----------------------------------------------------------------------------

StepTo(i) == steps < MaxSteps /\ steps' = steps + 1 /\ inb' = i
Plain == UNCHANGED <<pairs, halves>>
Made == pairs < MaxKeys /\ pairs' = pairs + 1

\* set_field: the fields a button offers, none looks at the other.
SetSni(h) == Plain /\ StepTo([inb EXCEPT !.sni = h])
SetHeader(h) == Plain /\ StepTo([inb EXCEPT !.header = h])
SetPath == Plain /\ StepTo([inb EXCEPT !.path = "typed"])
SetService == Plain /\ StepTo([inb EXCEPT !.service = "typed"])
SetShortId == Plain /\ StepTo([inb EXCEPT !.shortIds = {2}])
SetCerts == Plain /\ StepTo([inb EXCEPT !.certs = TRUE])

\* A variation: any flow may be typed.
FlowAnywhere(on) == Plain /\ StepTo([inb EXCEPT !.flow = on])
SetFlow(on) == Plain /\ (on => VisionRuns(inb)) /\ StepTo([inb EXCEPT !.flow = on])
TypeHalf(v) ==
    /\ inb.security = "reality" /\ halves' = TRUE /\ UNCHANGED pairs
    /\ \/ StepTo([inb EXCEPT !.seed = v, !.verify = IF v = 0 THEN 0 ELSE @])
       \/ StepTo([inb EXCEPT !.verify = v])

\* set_reality_keys, set_mldsa65, and set_pair with what the core answers: a
\* kind of authentication with a long key or a short one.
SetKeys == Made /\ inb.security = "reality" /\ UNCHANGED halves
           /\ StepTo([inb EXCEPT !.private = pairs + 1, !.public = pairs + 1])
SetSignature == Made /\ inb.security = "reality" /\ UNCHANGED halves
                /\ StepTo([inb EXCEPT !.seed = pairs + 1, !.verify = pairs + 1])
SetPair(m, isLong) ==
    /\ Made /\ UNCHANGED halves
    /\ StepTo([inb EXCEPT !.mode = m, !.secret = pairs + 1, !.shared = pairs + 1,
                          !.long = isLong, !.auth = IF isLong THEN "mlkem768" ELSE "x25519"])

\* switch_security; a pair of signatures is fetched by SetSignature.
Switch(s, mldsa) ==
    /\ Plain /\ inb.security \in {"reality", "tls"}
    /\ IF s = "tls" THEN inb.certs ELSE inb.private # 0
    /\ StepTo([inb EXCEPT !.security = s, !.seed = IF mldsa /\ s # "tls" THEN @ ELSE 0,
                          !.verify = IF mldsa /\ s # "tls" THEN @ ELSE 0])

\* auth_kind: what is stored is the kind as it shows, not as it was set.
AuthKind(i) == IF i.auth # Nothing THEN i.auth ELSE IF i.long THEN "mlkem768" ELSE "x25519"

\* A variation: the state file leaves out the public half of the keys.
HalfRead(i) == [i EXCEPT !.auth = AuthKind(i), !.public = 0]
\* to_dict and from_dict.
ReadAgain(i) == [i EXCEPT !.auth = AuthKind(i)]
Restart == Plain /\ StepTo(ReadAgain(inb))

WireNext ==
    \/ \E h \in Hosts : SetSni(h) \/ SetHeader(h)
    \/ SetPath \/ SetService \/ SetShortId \/ SetCerts
    \/ \E on \in BOOLEAN : SetFlow(on)
    \/ \E v \in {0, Half} : TypeHalf(v)
    \/ SetKeys \/ SetSignature
    \/ \E m \in {"native", "xorpub"}, l \in BOOLEAN : SetPair(m, l)
    \/ \E s \in {"reality", "tls"}, k \in BOOLEAN : Switch(s, k)
    \/ Restart

\* The link of a client opens the inbound it is the link of, whatever was
\* changed, switched, fetched and read again since the inbound was made, where
\* no half of a signature was typed (xray.py:575 stream, :940 _stream_params,
\* :954 _security_params, :987 vless_link).
LinkOpensInbound == ~halves => Opens(Link(inb), Server(inb))
===============================================================================
