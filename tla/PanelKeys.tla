------------------------------ MODULE PanelKeys ------------------------------
(***************************************************************************)
(* The encryption of one inbound: its security, the keys that belong to it *)
(* and the target it borrows its certificate from.  Keys come from the     *)
(* core on the server and are stored when they arrive; what the owner      *)
(* types is stored at once, also while the panel waits for keys.           *)
(***************************************************************************)
EXTENDS Naturals

CONSTANTS
    Targets,  \* what a scan may find, see Target
    MaxDraws, \* bound of the model: keys drawn
    MaxEdits  \* bound of the model: buttons pressed and values typed

Groups == {"x25519mlkem768", "p256mlkem768"}
NoGroup == ""
\* What probe tells of a target: tls 1.3, what reality needs beside it, the
\* hybrid groups it negotiates and whether its chain holds a signature.
Target == [tls13 : BOOLEAN, rest : BOOLEAN, groups : SUBSET Groups, chain : BOOLEAN]

\* SECURITY_KINDS: what a button may ask for.
Kinds ==
    {k \in [tls : BOOLEAN, mldsa : BOOLEAN, group : Groups \cup {NoGroup}] :
        k.mldsa => ~k.tls /\ k.group # "p256mlkem768"}

KeyConstants == Targets \subseteq Target /\ MaxDraws \in Nat /\ MaxEdits \in Nat

VARIABLES
    security, group,  \* of the inbound; group is pq_mode
    seed, verify,     \* the halves of its ml-dsa-65 pair, None or Typed
    reality,          \* its reality key pair
    cipher,           \* the pair of the vless encryption
    certFile, keyFile,\* are the two paths of a certificate set?
    target,           \* whose name it borrows: a target of a scan or Unknown
    result,           \* the target of the scan the owner looks at
    chosen,           \* the kind a switch waits for keys for
    waits,            \* which keys the panel waits for
    sure,             \* history: target was chosen for the kind there is
    minted, edits

keyVars == <<security, group, seed, verify, reality, cipher, certFile, keyFile, target,
             result, chosen, waits, sure, minted, edits>>
certVars == <<certFile, keyFile>>
pair == <<seed, verify>>

None == 0
Typed == MaxDraws + 1
Unknown == [tls13 |-> FALSE, rest |-> FALSE, groups |-> {}, chain |-> FALSE]
Plain == [tls |-> FALSE, mldsa |-> FALSE, group |-> NoGroup]

KeyTypeOK ==
    /\ security \in {"none", "reality", "tls"} /\ group \in Groups \cup {NoGroup}
    /\ seed \in 0 .. Typed /\ verify \in 0 .. Typed
    /\ reality \in 0 .. MaxDraws /\ cipher \in 0 .. MaxDraws
    /\ certFile \in BOOLEAN /\ keyFile \in BOOLEAN
    /\ target \in Targets \cup {Unknown} /\ result \in Targets \cup {Unknown}
    /\ chosen \in Kinds /\ waits \in {"none", "x25519", "vlessenc", "mldsa", "switch"}
    /\ sure \in BOOLEAN /\ minted \in 0 .. MaxDraws /\ edits \in Nat

\* new_inbound: reality starts with a pair of its own and the default target.
KeyInit ==
    /\ security \in {"none", "reality", "tls"} /\ group = NoGroup
    /\ seed = None /\ verify = None
    /\ reality = IF security = "reality" THEN 1 ELSE None
    /\ cipher = 2 /\ minted = 2
    /\ certFile = FALSE /\ keyFile = FALSE /\ target = Unknown /\ result = Unknown
    /\ chosen = Plain /\ waits = "none" /\ sure = FALSE /\ edits = 0

\* security_kind.
Kind == [tls |-> security = "tls",
         mldsa |-> security = "reality" /\ seed # None /\ verify # None,
         group |-> group]

\* security_fit.
Fits(t, k) ==
    /\ t.tls13 /\ (k.group # NoGroup => k.group \in t.groups)
    /\ ~k.tls => t.rest
    /\ k.mldsa => t.chain

Edit == edits < MaxEdits /\ edits' = edits + 1
Free == waits = "none" /\ Edit
Mint == minted < MaxDraws /\ minted' = minted + 1

\* run_scan replaces the results; the owner looks at one of them.
Scan(t) ==
    /\ Free /\ result' = t
    /\ UNCHANGED <<security, group, pair, reality, cipher, certVars, target, chosen, waits,
                   sure, minted>>

\* regen_keys: the keys of the core where there is one, else of the bot.
Regen ==
    /\ Free /\ security = "reality" /\ waits' = "x25519"
    /\ UNCHANGED <<security, group, pair, reality, cipher, certVars, target, result, chosen,
                   sure, minted>>
Regenerated ==
    /\ waits = "x25519" /\ waits' = "none" /\ Mint /\ reality' = minted + 1
    /\ UNCHANGED <<security, group, pair, cipher, certVars, target, result, chosen, sure, edits>>

\* encryption_action; a combination the core does not offer changes nothing.
Encrypt ==
    /\ Free /\ security \in {"reality", "tls"} /\ waits' = "vlessenc"
    /\ UNCHANGED <<security, group, pair, reality, cipher, certVars, target, result, chosen,
                   sure, minted>>
Encrypted ==
    /\ waits = "vlessenc" /\ waits' = "none"
    /\ \/ Mint /\ cipher' = minted + 1
       \/ UNCHANGED <<minted, cipher>>
    /\ UNCHANGED <<security, group, pair, reality, certVars, target, result, chosen, sure, edits>>

\* mldsa_action "gen" and "clear".
Sign ==
    /\ Free /\ security = "reality" /\ waits' = "mldsa"
    /\ UNCHANGED <<security, group, pair, reality, cipher, certVars, target, result, chosen,
                   sure, minted>>
Store == seed' = minted + 1 /\ verify' = minted + 1
Signed ==
    /\ waits = "mldsa" /\ waits' = "none"
    /\ \/ Mint /\ Store /\ sure' = FALSE
       \/ UNCHANGED <<pair, sure, minted>>
    /\ UNCHANGED <<security, group, reality, cipher, certVars, target, result, chosen, edits>>
Unsign ==
    /\ Free /\ security = "reality" /\ seed' = None /\ verify' = None
    /\ UNCHANGED <<security, group, reality, cipher, certVars, target, result, chosen, waits,
                   sure, minted>>

\* use_target: the target is taken where it fits the kind there is.
Use ==
    /\ Free /\ security \in {"reality", "tls"} /\ result # Unknown /\ Fits(result, Kind)
    /\ target' = result /\ sure' = TRUE
    /\ UNCHANGED <<security, group, pair, reality, cipher, certVars, result, chosen, waits, minted>>

\* A variation: the pair of the kind before stays.
KeepPair(k) == UNCHANGED pair
DropPair(k) == IF k.mldsa THEN UNCHANGED pair ELSE seed' = None /\ verify' = None

\* switch_and_use: the security is switched, then a missing pair is fetched.
Switch(k) ==
    /\ Free /\ security \in {"reality", "tls"} /\ result # Unknown /\ Fits(result, k)
    /\ IF k.tls THEN certFile /\ keyFile ELSE reality # None
    /\ security' = (IF k.tls THEN "tls" ELSE "reality") /\ group' = k.group
    /\ DropPair(k)
    /\ IF k.mldsa /\ (seed = None \/ verify = None)
       THEN waits' = "switch" /\ chosen' = k /\ sure' = FALSE /\ UNCHANGED target
       ELSE target' = result /\ sure' = TRUE /\ UNCHANGED <<waits, chosen>>
    /\ UNCHANGED <<reality, cipher, certVars, result, minted>>
Switched ==
    /\ waits = "switch" /\ waits' = "none" /\ chosen' = Plain
    /\ \/ Mint /\ Store /\ target' = result /\ sure' = TRUE
       \/ UNCHANGED <<pair, target, sure, minted>>
    /\ UNCHANGED <<security, group, reality, cipher, certVars, result, edits>>

\* xr_sni and xr_dest, xr_cert_file and xr_key_file, the two halves of a pair.
TypeTarget ==
    /\ Edit /\ target' = Unknown /\ sure' = FALSE
    /\ UNCHANGED <<security, group, pair, reality, cipher, certVars, result, chosen, waits, minted>>
TypeCert(c, f) ==
    /\ Edit /\ certFile' = (certFile \/ c) /\ keyFile' = (keyFile \/ f)
    /\ UNCHANGED <<security, group, pair, reality, cipher, target, result, chosen, waits, sure, minted>>
TypeSeed(s) ==
    /\ Edit /\ security = "reality" /\ seed' = s
    /\ verify' = IF s = None THEN None ELSE verify
    /\ sure' = (sure /\ s = None)
    /\ UNCHANGED <<security, group, reality, cipher, certVars, target, result, chosen, waits, minted>>
TypeVerify(v) ==
    /\ Edit /\ security = "reality" /\ verify' = v /\ sure' = FALSE
    /\ UNCHANGED <<security, group, seed, reality, cipher, certVars, target, result, chosen,
                   waits, minted>>

KeyNext ==
    \/ \E t \in Targets : Scan(t)
    \/ Regen \/ Regenerated \/ Encrypt \/ Encrypted \/ Sign \/ Signed \/ Unsign
    \/ Use \/ Switched \/ TypeTarget
    \/ \E k \in Kinds : Switch(k)
    \/ \E c, f \in BOOLEAN : c # f /\ TypeCert(c, f)
    \/ \E h \in {None, Typed} : TypeSeed(h) \/ TypeVerify(h)

\* The target an inbound borrows from fits the kind it has, where the bot chose
\* it for that kind (scan.py:862 security_fit; panel.py:957 use_target, :993
\* switch_and_use).
TargetFits == sure => Fits(target, Kind)

\* Both halves of a signature come from one answer of the core unless the owner
\* has typed one, and no inbound of tls carries any, whatever order the switch,
\* the answers and the typed halves come in (xray.py:1322 set_mldsa65, :1333
\* switch_security).
SignatureIsWhole ==
    /\ seed \notin {None, Typed} /\ verify \notin {None, Typed} => seed = verify
    /\ security = "tls" => seed = None /\ verify = None

\* What an inbound is left with after any switches, typed values and answers fits
\* together: its two halves of a signature, and its target with its encryption.
KeysFit == SignatureIsWhole /\ TargetFits
=============================================================================
