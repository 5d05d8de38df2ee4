-------------------------- MODULE DeploymentProofs --------------------------
(***************************************************************************)
(* Proofs about Deployment, for every set of commits, releases, scripts    *)
(* and threads, whatever the terms of the caches: the update never leaves  *)
(* or starts a tree it did not compile, the wizard is right about what it  *)
(* did, the bootstrap configures who named himself, and news, reinstalls   *)
(* and scripts are what the screens say.                                   *)
(*                                                                         *)
(* Each part has an inductive invariant of its own: UpdateInv, BootInv,    *)
(* CacheInv, NewsInv, ReinsInv, WizardInv and ReaderInv.                   *)
(***************************************************************************)
EXTENDS Deployment, RecursionLemmas, SequenceTheorems, TLAPS

\* The shape of the state is kept by every step of the update, of the
\* commands it leaves behind and of systemd.
LEMMA TypeCorrect == Spec => []TypeOK
<1> USE UpdaterConstants DEF TypeOK, Steps, Marker, Orphan
<1>1. Init => TypeOK
  <2> SUFFICES ASSUME Init PROVE TypeOK
    OBVIOUS
  <2>1. queued \in BOOLEAN /\ alone \in BOOLEAN
    BY Zenon DEF Init
  <2>2. head \in Commits /\ deps \in Reqs
    BY DEF Init
  <2>3. QED
    BY <2>1, <2>2 DEF Init
<1>2. TypeOK /\ [Next]_vars => TypeOK'
  <2> SUFFICES ASSUME TypeOK, [Next]_vars PROVE TypeOK'
    OBVIOUS
  <2> USE DEF Go, Answer, repo, rest, job, ResetDone, ResetBroken
  <2>1. CASE Begin
    BY <2>1 DEF Begin, Before
  <2>2. CASE Fetch
    BY <2>2 DEF Fetch
  <2>3. CASE Reset
    BY <2>3 DEF Reset
  <2>4. CASE Compile
    BY <2>4 DEF Compile
  <2>5. CASE Diff
    BY <2>5 DEF Diff
  <2>6. CASE Pip
    BY <2>6 DEF Pip
  <2>7. CASE Rollback
    BY <2>7 DEF Rollback, RollbackTo
  <2>8. CASE WriteMarker
    BY <2>8 DEF WriteMarker
  <2>9. CASE AskRestart
    <3>1. queued' \in BOOLEAN
      BY <2>9, Zenon DEF AskRestart
    <3>2. QED
      BY <2>9, <3>1 DEF AskRestart
  <2>10. CASE Cancel
    <3>1. Left \subseteq [cmd : {"reset", "pip"}, to : Commits]
      BY DEF Left
    <3>2. QED
      BY <2>10, <3>1 DEF Cancel
  <2>11. ASSUME NEW o \in orphans, OrphanEnds(o) PROVE TypeOK'
    <3>1. o.to \in Commits /\ NeedsOf[o.to] \in Reqs
      OBVIOUS
    <3>2. head' \in Commits /\ tree' \in Commits \cup {Mixed} /\ deps' \in Reqs \cup {Mixed}
      BY <2>11, <3>1 DEF OrphanEnds
    <3>3. alone' \in BOOLEAN /\ orphans' \subseteq orphans
      BY <2>11 DEF OrphanEnds
    <3>4. UNCHANGED <<rest, pc, from, target, reply>>
      BY <2>11 DEF OrphanEnds
    <3>5. QED
      BY <3>2, <3>3, <3>4
  <2>12. CASE StartBot
    <3>1. tree' \in Commits \cup {Mixed} /\ deps' \in Reqs \cup {Mixed} /\ head' \in Commits
      BY <2>12 DEF StartBot, HalfDone
    <3>2. QED
      BY <2>12, <3>1 DEF StartBot, HalfDone
  <2>13. CASE Verify
    BY <2>13 DEF Verify
  <2>14. CASE UNCHANGED vars
    BY <2>14 DEF vars
  <2>15. QED
    BY <2>1, <2>2, <2>3, <2>4, <2>5, <2>6, <2>7, <2>8, <2>9, <2>10, <2>11, <2>12,
       <2>13, <2>14 DEF Next
<1>3. QED
  BY <1>1, <1>2, PTL DEF Spec

-----------------------------------------------------------------------------
(* The reset is what everything after it builds on: no other reset may be  *)
(* in progress from then on, so the checkout stays at the target, and past *)
(* the compile step that target is sound.                                  *)

UpdateInv ==
  /\ pc \in {"compile", "diff", "pip", "rollback", "mark", "restart"} =>
       IndexFree /\ head = target /\ tree = target
  /\ pc \in {"diff", "pip", "mark", "restart"} => target \notin Broken
  /\ alone /\ pc = "fetch" => head = from
  /\ PendingHasCompiled

\* What a step of the update relies on holds, whatever earlier updates left
\* behind.
LEMMA UpdateInvHolds == Spec => []UpdateInv
<1> USE DEF UpdateInv, PendingHasCompiled, IndexFree, Marker, Orphan
<1>1. Init => UpdateInv
  BY DEF Init
<1>2. TypeOK /\ UpdateInv /\ [Next]_vars => UpdateInv'
  <2> SUFFICES ASSUME TypeOK, UpdateInv, [Next]_vars PROVE UpdateInv'
    OBVIOUS
  <2> USE UpdaterConstants DEF Go, Answer, repo, rest, job, ResetDone, ResetBroken
  <2> marker \in [state : {"none", "pending", "healthy", "unhealthy"}, to : Commits]
    BY DEF TypeOK
  <2>1. CASE Begin
    BY <2>1 DEF Begin, Before
  <2>2. CASE Fetch
    BY <2>2 DEF Fetch
  <2>3. CASE Reset
    BY <2>3 DEF Reset
  <2>4. CASE Compile
    BY <2>4 DEF Compile, Compiles
  <2>5. CASE Diff
    BY <2>5 DEF Diff
  <2>6. CASE Pip
    BY <2>6 DEF Pip
  <2>7. CASE Rollback
    BY <2>7 DEF Rollback
  <2>8. CASE WriteMarker
    BY <2>8 DEF WriteMarker
  <2>9. CASE AskRestart
    BY <2>9 DEF AskRestart
  <2>10. CASE Cancel
    BY <2>10 DEF Cancel
  <2>11. ASSUME NEW o \in orphans, OrphanEnds(o) PROVE UpdateInv'
    BY <2>11 DEF OrphanEnds
  <2>12. CASE StartBot
    BY <2>12 DEF StartBot
  <2>13. CASE Verify
    BY <2>13 DEF Verify
  <2>14. CASE UNCHANGED vars
    BY <2>14 DEF vars
  <2>15. QED
    BY <2>1, <2>2, <2>3, <2>4, <2>5, <2>6, <2>7, <2>8, <2>9, <2>10, <2>11, <2>12,
       <2>13, <2>14 DEF Next
<1>3. QED
  BY <1>1, <1>2, TypeCorrect, PTL DEF Spec

\* No marker is pending for a commit that was not compiled.
THEOREM PendingWasCompiled == Spec => []PendingHasCompiled
BY UpdateInvHolds, PTL DEF UpdateInv

\* The bot asks for a restart only of a checkout that is at its target and
\* has compiled.
THEOREM RestartIsChecked == Spec => RestartOnlyCompiled
<1>1. UpdateInv /\ [Next]_vars =>
        [~queued /\ queued' => head = target /\ tree = target /\ target \notin Broken]_vars
  <2> SUFFICES ASSUME UpdateInv, Next, ~queued, queued'
               PROVE pc = "restart"
    BY DEF UpdateInv
  <2>1. QED
    BY Zenon DEF Next, Begin, Fetch, Reset, Compile, Diff, Pip, Rollback, WriteMarker,
       AskRestart, Cancel, OrphanEnds, StartBot, Verify, Go, Answer, rest
<1>2. QED
  BY <1>1, UpdateInvHolds, PTL DEF Spec, RestartOnlyCompiled

\* An update that ends without success or error leaves HEAD as it found it.
THEOREM FailureStays == Spec => FailureDoesNotMove
<1>1. UpdateInv /\ [Next]_vars =>
        [alone /\ reply = "none" /\ reply' \in {"failed", "current", "rolled_back"}
           => head' = from]_vars
  <2> SUFFICES ASSUME UpdateInv, Next, alone, reply = "none",
                      reply' \in {"failed", "current", "rolled_back"}
               PROVE head' = from
    BY DEF vars
  <2> USE DEF Go, Answer
  <2>1. CASE Fetch
    BY <2>1 DEF Fetch, UpdateInv, repo
  <2>2. CASE Rollback
    BY <2>2 DEF Rollback, ResetDone, RollbackTo
  <2>3. ~(Fetch \/ Rollback) => FALSE
    BY DEF Next, Begin, Reset, Compile, Diff, Pip, WriteMarker,
       AskRestart, Cancel, OrphanEnds, StartBot, Verify
  <2>4. QED
    BY <2>1, <2>2, <2>3
<1>2. QED
  BY <1>1, UpdateInvHolds, PTL DEF Spec, FailureDoesNotMove

\* The three together: what an update may never do.
THEOREM UpdatesAreSafe == Spec => UpdateIsSafe
BY RestartIsChecked, FailureStays, PendingWasCompiled, PTL DEF UpdateIsSafe
-----------------------------------------------------------------------------
(* The whole of Deployment: each part takes its own steps, or none.         *)

\* What the update takes is a step of Updater, and every other step leaves
\* the update alone.
LEMMA UpdaterPart == Deploy => Spec
<1>1. DeployInit => Init
  BY DEF DeployInit
<1>2. [DeployNext]_deployVars => [Next]_vars
  BY DEF DeployNext, deployVars
<1>3. QED
  BY <1>1, <1>2, PTL DEF Deploy, Spec

\* An update, as a part of everything that brings the bot to a host.
THEOREM DeployedSafely == Deploy => UpdateIsSafe
BY UpdaterPart, UpdatesAreSafe

-----------------------------------------------------------------------------
(* The bootstrap.  Its steps come in one order only, so what a run has      *)
(* behind it is known from where it is: past the push the tree is whole,    *)
(* past the dependencies the environment is, and only the check of the id   *)
(* leads to the last script.  This holds for the run that goes on, over     *)
(* whatever earlier runs left.                                              *)

BootOrder ==
  /\ boot.step \in {"deps", "confirm", "finalize"} => payload = "new"
  /\ boot.step \in {"confirm", "finalize"} => venv = "new"
  /\ boot.step = "finalize" => Wizard!Verified(boot.who, boot.want)

BootInv == Wizard!BootTypeOK /\ BootOrder

LEMMA BootHolds == Deploy => []BootInv
<1>1. DeployInit => BootInv
  <2> SUFFICES ASSUME DeployInit PROVE BootInv
    OBVIOUS
  <2>1. Wizard!BootTypeOK
    <3>1. Wizard!BootInit
      BY DEF DeployInit
    <3>2. 0 \in 0..MaxRuns
      BY DeploymentConstants DEF Wizard!BootstrapConstants
    <3>3. QED
      BY <3>1, <3>2 DEF Wizard!BootInit, Wizard!BootTypeOK, Wizard!NoBoot, Wizard!Ids,
         Wizard!Trees
  <2>2. BootOrder
    BY DEF DeployInit, Wizard!BootInit, Wizard!NoBoot, BootOrder
  <2>3. QED
    BY <2>1, <2>2 DEF BootInv
<1>2. BootInv /\ [DeployNext]_deployVars => BootInv'
  <2> SUFFICES ASSUME BootInv, [DeployNext]_deployVars PROVE BootInv'
    OBVIOUS
  <2> USE DEF BootInv, BootOrder, Wizard!BootTypeOK, Wizard!Ids, Wizard!Trees,
              Wizard!BootAt, Wizard!BootTo
  <2>1. CASE Wizard!Plan
    BY <2>1, DeploymentConstants DEF Wizard!Plan, Wizard!BootstrapConstants
  <2>2. CASE Wizard!Push
    BY <2>2 DEF Wizard!Push, Wizard!OnFailure
  <2>3. CASE Wizard!Deps
    BY <2>3 DEF Wizard!Deps
  <2>4. CASE Wizard!AdminComes
    BY <2>4 DEF Wizard!AdminComes
  <2>5. CASE Wizard!Verify
    BY <2>5 DEF Wizard!Verify
  <2>6. CASE Wizard!Finalize
    BY <2>6 DEF Wizard!Finalize
  <2>7. CASE UNCHANGED bootVars
    BY <2>7 DEF bootVars
  <2>8. QED
    BY <2>1, <2>2, <2>3, <2>4, <2>5, <2>6, <2>7 DEF DeployNext, deployVars, bootVars,
       Wizard!BootNext
<1>3. QED
  BY <1>1, <1>2, PTL DEF Deploy

\* A run of the bootstrap configures the one who named himself, and starts a
\* whole tree in a whole environment, over whatever earlier runs left.
THEOREM BootsAreSound == Deploy => BootIsSound
<1>1. BootInv /\ [DeployNext]_deployVars =>
        [admin' # admin => /\ admin' = boot.who /\ admin' > 0
                           /\ (boot.want > 0 => admin' = boot.want)]_bootVars
  <2> SUFFICES ASSUME BootInv, DeployNext, admin' # admin
               PROVE admin' = boot.who /\ admin' > 0 /\ (boot.want > 0 => admin' = boot.want)
    BY DEF deployVars, bootVars
  <2>1. Wizard!Finalize
    BY DEF DeployNext, bootVars, Wizard!BootNext, Wizard!Plan, Wizard!Push, Wizard!Deps,
       Wizard!AdminComes, Wizard!Verify
  <2>2. QED
    BY <2>1 DEF Wizard!Finalize, Wizard!BootAt, BootInv, BootOrder, Wizard!Verified
<1>2. BootInv /\ [DeployNext]_deployVars =>
        [up' # up => payload = "new" /\ venv = "new"]_bootVars
  <2> SUFFICES ASSUME BootInv, DeployNext, up' # up
               PROVE payload = "new" /\ venv = "new"
    BY DEF deployVars, bootVars
  <2>1. Wizard!Finalize
    BY DEF DeployNext, bootVars, Wizard!BootNext, Wizard!Plan, Wizard!Push, Wizard!Deps,
       Wizard!AdminComes, Wizard!Verify
  <2>2. QED
    BY <2>1 DEF Wizard!Finalize, Wizard!BootAt, BootInv, BootOrder
<1>3. QED
  BY <1>1, <1>2, BootHolds, PTL DEF Deploy, BootIsSound, Wizard!BootIsSound,
     Wizard!AdminNamedHimself, Wizard!StartsOnWholeTree, bootVars, Wizard!bootVars
-----------------------------------------------------------------------------
(* The cache of the script.                                                 *)

\* What is written is the new copy, before those of other digests.
LEMMA WrittenFirst ==
  ASSUME copies \in Seq(News!Bodies), NEW new \in News!Bodies
  PROVE  News!Written(new) \in Seq(News!Bodies) /\ News!Written(new)[1] = new
<1>1. News!Without(new) \in Seq(News!Bodies)
  <2>1. CASE \E i \in DOMAIN copies : copies[i] = new
    <3> DEFINE i == CHOOSE i \in DOMAIN copies : copies[i] = new
    <3>1. i \in 1..Len(copies)
      BY <2>1
    <3>2. /\ SubSeq(copies, 1, i - 1) \in Seq(News!Bodies)
          /\ SubSeq(copies, i + 1, Len(copies)) \in Seq(News!Bodies)
      <4> HIDE DEF i
      <4>1. /\ i \in Int /\ i - 1 \in Int /\ i + 1 \in Int /\ Len(copies) \in Int
            /\ \A n \in 1..(i - 1) : copies[n] \in News!Bodies
            /\ \A n \in (i + 1)..Len(copies) : copies[n] \in News!Bodies
        BY <3>1
      <4>2. QED
        BY <4>1, SubSeqProperties
    <3>3. QED
      BY <2>1, <3>2 DEF News!Without
  <2>2. CASE ~ \E i \in DOMAIN copies : copies[i] = new
    BY <2>2 DEF News!Without
  <2>3. QED
    BY <2>1, <2>2
<1>2. ASSUME NEW w \in Seq(News!Bodies)
      PROVE  <<new>> \o w \in Seq(News!Bodies) /\ (<<new>> \o w)[1] = new
  <2>1. <<new>> \in Seq(News!Bodies)
    OBVIOUS
  <2>2. <<new>> \o w \in Seq(News!Bodies)
    BY <2>1
  <2>3. (<<new>> \o w)[1] = new
    OBVIOUS
  <2>4. QED
    BY <2>2, <2>3
<1>3. QED
  <2>1. News!Written(new) = <<new>> \o News!Without(new)
    BY DEF News!Written
  <2>2. QED
    BY <1>1, <1>2, <2>1, Zenon

\* An agent was given what its message listed, if that was the last check.
CacheInv ==
  /\ copies \in Seq(News!Bodies) /\ published \in News!Bodies
  /\ \A f \in fetchers : f.current => News!Pending(f.screen) /\ f.want = f.screen.remote

LEMMA CacheHolds == Deploy => []CacheInv
<1>1. DeployInit => CacheInv
  <2>1. DeployInit => copies = <<>> /\ published \in News!Bodies /\ fetchers = {}
    BY Zenon DEF DeployInit, News!CacheInit
  <2>2. <<>> \in Seq(News!Bodies)
    OBVIOUS
  <2>3. QED
    BY <2>1, <2>2, Zenon DEF CacheInv
<1>2. CacheInv /\ [DeployNext]_deployVars => CacheInv'
  <2> SUFFICES ASSUME CacheInv, [DeployNext]_deployVars PROVE CacheInv'
    OBVIOUS
  <2> USE DEF CacheInv
  <2>1. ASSUME NEW f \in fetchers, News!AgentFetches(f) PROVE CacheInv'
    BY <2>1, WrittenFirst DEF News!AgentFetches
  <2>2. CASE News!EngineFetches
    <3>1. PICK s \in Scripts : copies' = News!Written(s)
      BY <2>2 DEF News!EngineFetches
    <3>2. QED
      BY <2>2, <3>1, WrittenFirst DEF News!EngineFetches, News!Bodies
  <2>3. ASSUME NEW new \in News!Bodies, News!Serves(new) PROVE CacheInv'
    BY <2>3 DEF News!Serves
  <2>4. CASE News!Press
    <3>1. CASE News!Pending(record)
      <4> DEFINE f == [want |-> record.remote, screen |-> shown, current |-> shown = record]
      <4>1. fetchers' = fetchers \cup {f} /\ UNCHANGED <<copies, published>>
        BY <2>4, <3>1 DEF News!Press, News!Wanted
      <4>2. f.current => News!Pending(f.screen) /\ f.want = f.screen.remote
        BY <3>1
      <4> HIDE DEF f
      <4>3. QED
        BY <4>1, <4>2
    <3>2. CASE ~ News!Pending(record)
      BY <2>4, <3>2 DEF News!Press
    <3>3. QED
      BY <3>1, <3>2
  <2>5. CASE UNCHANGED <<copies, published, fetchers>>
    BY <2>5
  <2>6. QED
    BY <2>1, <2>2, <2>3, <2>4, <2>5 DEF DeployNext, deployVars, cacheVars, News!CacheNext,
       News!Check, News!TooSoon, News!ListCopies, News!Probe, News!Merge, News!Draw,
       News!Cancelled
<1>3. QED
  BY <1>1, <1>2, PTL DEF Deploy

\* A press on a message that shows the last check writes the body that this check
\* saw, whatever upstream serves by then, and whoever still waits for it.
THEOREM FetchesAreConfirmed == Deploy => FetchedIsConfirmed
<1>1. CacheInv /\ [DeployNext]_deployVars =>
        [copies' # copies =>
           /\ copies'[1] # Page
           /\ \A f \in fetchers \ fetchers' :
                f.current => News!AsListed(f, copies'[1])]_cacheVars
  <2> SUFFICES ASSUME CacheInv, DeployNext, copies' # copies
               PROVE /\ copies'[1] # Page
                     /\ \A f \in fetchers \ fetchers' :
                          f.current => News!AsListed(f, copies'[1])
    BY DEF deployVars, cacheVars
  <2> USE DeploymentConstants DEF News!CacheConstants, CacheInv
  <2>1. CASE \E f \in fetchers : News!AgentFetches(f)
    <3>1. PICK asked \in fetchers : News!AgentFetches(asked)
      BY <2>1
    <3>2. News!Takes(asked.want) /\ copies' = News!Written(published)
      BY <3>1 DEF News!AgentFetches
    <3>3. copies'[1] = published /\ published \in Scripts
      BY <3>2, WrittenFirst DEF News!Takes
    <3>4. fetchers \ fetchers' \subseteq {asked}
      BY <3>1 DEF News!AgentFetches
    <3>5. asked.want \in {NoDigest, published}
      BY <3>2 DEF News!Takes
    <3>6. QED
      BY <3>3, <3>4, <3>5 DEF News!AsListed
  <2>2. CASE News!EngineFetches
    <3>1. PICK s \in Scripts : copies' = News!Written(s)
      BY <2>2 DEF News!EngineFetches
    <3>2. copies'[1] = s
      BY <3>1, WrittenFirst DEF News!Bodies
    <3>3. QED
      BY <2>2, <3>2 DEF News!EngineFetches
  <2>3. QED
    BY <2>1, <2>2 DEF DeployNext, cacheVars, News!CacheNext, News!Check, News!TooSoon,
       News!ListCopies, News!Probe, News!Merge, News!Draw, News!Press, News!Cancelled, News!Serves
<1>2. QED
  BY <1>1, CacheHolds, PTL DEF Deploy, FetchedIsConfirmed, News!FetchedIsConfirmed, cacheVars,
     News!cacheVars

-----------------------------------------------------------------------------
(* The editor of the wizard, and its keyboard.                              *)

\* The editor says yes only to fields that all pass their check.
THEOREM YesIsForValidFields == Deploy => []Wizard!ConfirmedIsValid
<1>1. DeployInit => Wizard!ConfirmedIsValid
  BY Zenon DEF DeployInit, Wizard!FormsStart, Wizard!ConfirmedIsValid
<1>2. Wizard!ConfirmedIsValid /\ [DeployNext]_deployVars => Wizard!ConfirmedIsValid'
  <2> SUFFICES ASSUME Wizard!ConfirmedIsValid, [DeployNext]_deployVars
               PROVE Wizard!ConfirmedIsValid'
    OBVIOUS
  <2> USE DEF Wizard!ConfirmedIsValid, Wizard!Asking, Wizard!Still, Wizard!Count
  <2>1. CASE Wizard!Confirm
    BY <2>1 DEF Wizard!Confirm, Wizard!Wrong
  <2>2. CASE Wizard!Save
    BY <2>2 DEF Wizard!Save
  <2>3. CASE UNCHANGED fields /\ outcome' \in {outcome, "cancelled"}
    BY <2>3
  <2>4. QED
    BY <2>1, <2>2, <2>3 DEF DeployNext, deployVars, editorVars, Wizard!editorVars,
       Wizard!EditorNext, Wizard!Move, Wizard!Open, Wizard!Type, Wizard!Cancel,
       Wizard!ReaderNext, Wizard!Arrive, Wizard!Read
<1>3. QED
  BY <1>1, <1>2, PTL DEF Deploy
\* The reader has two lemmas to each read: ReadsOneKey says what it makes of
\* the bytes in hand, whatever part of a sequence they are, and BytesOfStep
\* what the bytes of the keys that are left begin with.
Keys == {"up", "up_app", "delete", "enter", "enter_crlf", "letter", "accent", "space", "esc"}
Bytes == {"ESC", "[", "A", "O", "3", "~", "CR", "LF", "q", "LEAD", "TAIL", "SP"}

\* The keys that a terminal sends.
LEMMA KeysAreSent ==
  /\ Keys = DOMAIN Wizard!Sent
  /\ \A k \in Keys : Wizard!Sent[k] \in Seq(Bytes)
<1>1. Keys = DOMAIN Wizard!Sent
  BY DEF Keys, Wizard!Sent
<1>2. ASSUME NEW k \in Keys PROVE Wizard!Sent[k] \in Seq(Bytes)
  <2>1. CASE k = "up"
    BY <2>1 DEF Bytes, Wizard!Sent
  <2>2. CASE k = "up_app"
    BY <2>2 DEF Bytes, Wizard!Sent
  <2>3. CASE k = "delete"
    BY <2>3 DEF Bytes, Wizard!Sent
  <2>4. CASE k = "enter"
    BY <2>4 DEF Bytes, Wizard!Sent
  <2>5. CASE k = "enter_crlf"
    BY <2>5 DEF Bytes, Wizard!Sent
  <2>6. CASE k = "letter"
    BY <2>6 DEF Bytes, Wizard!Sent
  <2>7. CASE k = "accent"
    BY <2>7 DEF Bytes, Wizard!Sent
  <2>8. CASE k = "space"
    BY <2>8 DEF Bytes, Wizard!Sent
  <2>9. CASE k = "esc"
    BY <2>9 DEF Bytes, Wizard!Sent
  <2>10. QED
    BY <2>1, <2>2, <2>3, <2>4, <2>5, <2>6, <2>7, <2>8, <2>9 DEF Keys
<1>3. QED
  BY <1>1, <1>2

\* The bytes of the last keys of a stream.
LEMMA BytesOfStep ==
  ASSUME NEW s \in Seq(Keys)
  PROVE  LET last == Wizard!BytesOf(s)
         IN  /\ last \in [0..Len(s) -> Seq(Bytes)]
             /\ last[0] = <<>>
             /\ \A n \in 1..Len(s) :
                  last[n] = Wizard!Sent[s[Len(s) - n + 1]] \o last[n - 1]
<1> DEFINE N == Len(s)
           S == Seq(Bytes)
           Preceded(n, b) == Wizard!Sent[s[N - n + 1]] \o b
           none == <<>>
           step == [n \in 1..N |-> [b \in S |-> Preceded(n, b)]]
           Body(f) == [n \in 0..N |-> IF n = 0 THEN <<>> ELSE Preceded(n, f[n - 1])]
<1>1. N \in Nat /\ \A n \in 1..N : s[N - n + 1] \in Keys
  OBVIOUS
<1>2. \A n \in 1..N, b \in S : Preceded(n, b) \in S
  <2> SUFFICES ASSUME NEW n \in 1..N, NEW b \in S PROVE Preceded(n, b) \in S
    OBVIOUS
  <2>1. Wizard!Sent[s[N - n + 1]] \in Seq(Bytes)
    BY <1>1, KeysAreSent
  <2>2. QED
    BY <2>1
<1>3. <<>> \in S
  OBVIOUS
<1>4. Wizard!BytesOf(s) = CHOOSE g : g = Body(g)
  BY DEF Wizard!BytesOf
<1> HIDE DEF N, S, Preceded
<1>5. step \in [1..N -> [S -> S]]
  BY <1>2
<1>6. \A n \in 1..N, b \in S : step[n][b] = Preceded(n, b)
  OBVIOUS
<1>7. PICK f \in [0..N -> S] :
        f[0] = <<>> /\ \A n \in 1..N : f[n] = step[n][f[n - 1]]
  <2>1. N \in Nat /\ none \in S
    BY <1>1, <1>3
  <2> HIDE DEF step, none
  <2>2. \E f \in [0..N -> S] : Recurs(f, N, none, step)
    BY <1>5, <2>1, RecursionExists
  <2>3. QED
    BY <2>2 DEF none, Recurs
<1> HIDE DEF step
<1>8. f = Body(f)
  <2>1. ASSUME NEW n \in 1..N PROVE f[n] = Preceded(n, f[n - 1])
    <3>1. f[n - 1] \in S
      BY <1>1
    <3>2. QED
      BY <1>6, <1>7, <3>1
  <2>2. \A n \in 0..N : f[n] = IF n = 0 THEN <<>> ELSE Preceded(n, f[n - 1])
    BY <1>1, <1>7, <2>1
  <2>3. QED
    BY <2>2
<1> DEFINE last == Wizard!BytesOf(s)
<1>9. last = Body(last)
  BY <1>4, <1>8
<1> HIDE DEF last
<1>10. last[0] = <<>> /\ \A n \in 1..N : last[n] = Preceded(n, last[n - 1])
  BY <1>1, <1>9
<1> DEFINE T == {n \in 0..N : last[n] \in S}
<1>11. 0..N \subseteq T
  <2>1. 0 \in T
    BY <1>1, <1>3, <1>10
  <2>2. ASSUME NEW n \in 1..N, n - 1 \in T PROVE n \in T
    BY <2>2, <1>1, <1>2, <1>10
  <2> HIDE DEF T
  <2>3. QED
    BY <1>1, <2>1, <2>2, UpTo
<1>12. last \in [0..N -> S]
  BY <1>9, <1>11
<1>13. QED
  BY <1>10, <1>12 DEF last, N, S, Preceded

\* The keys are sent by what they are named for.
LEMMA NamesOfKeys ==
  \A k \in Keys : Wizard!Name[k] = CASE k = "up_app" -> "up" [] k = "enter_crlf" -> "enter"
                                     [] OTHER -> k
BY KeysAreSent DEF Wizard!Name

\* No key begins with a line feed.
LEMMA FirstByte ==
  ASSUME NEW k \in Keys
  PROVE  Len(Wizard!Sent[k]) > 0 /\ Wizard!Sent[k][1] # "LF"
<1>1. CASE k = "up"
  BY <1>1 DEF Wizard!Sent
<1>2. CASE k = "up_app"
  BY <1>2 DEF Wizard!Sent
<1>3. CASE k = "delete"
  BY <1>3 DEF Wizard!Sent
<1>4. CASE k = "enter"
  BY <1>4 DEF Wizard!Sent
<1>5. CASE k = "enter_crlf"
  BY <1>5 DEF Wizard!Sent
<1>6. CASE k = "letter"
  BY <1>6 DEF Wizard!Sent
<1>7. CASE k = "accent"
  BY <1>7 DEF Wizard!Sent
<1>8. CASE k = "space"
  BY <1>8 DEF Wizard!Sent
<1>9. CASE k = "esc"
  BY <1>9 DEF Wizard!Sent
<1>10. QED
  BY <1>1, <1>2, <1>3, <1>4, <1>5, <1>6, <1>7, <1>8, <1>9 DEF Keys

\* A sequence ends with the first byte that is no parameter, and waits for it.
LEMMA CsiEnds ==
  ASSUME NEW b \in Seq(Bytes), NEW i \in 3..Len(b), b[i] \in {"A", "~"},
         \A j \in 3..i - 1 : b[j] = "3"
  PROVE  Wizard!Csi(b) = [key |-> Wizard!Final(b[i]), used |-> i]
<1> DEFINE ends == {j \in 3..Len(b) : b[j] # "3"}
           least == CHOOSE j \in ends : \A l \in ends : j <= l
<1>1. i \in ends /\ \A l \in ends : i <= l
  <2>1. i \in ends
    OBVIOUS
  <2>2. ASSUME NEW l \in ends PROVE i <= l
    OBVIOUS
  <2>3. QED
    BY <2>1, <2>2
<1>2. ends \subseteq Int
  OBVIOUS
<1> HIDE DEF ends
<1>3. least \in ends /\ \A l \in ends : least <= l
  BY <1>1
<1>4. least = i
  <2> HIDE DEF least
  <2>1. i \in Int /\ least \in Int /\ i <= least /\ least <= i
    BY <1>1, <1>2, <1>3
  <2>2. QED
    BY <2>1
<1>5. ends # {}
  BY <1>1
<1>6. Wizard!Csi(b) = IF ends = {} THEN [key |-> "wait", used |-> 0]
                      ELSE IF b[least] \in {"A", "~", "q", "O", "["}
                           THEN [key |-> Wizard!Final(b[least]), used |-> least]
                           ELSE [key |-> "noop", used |-> least - 1]
  BY DEF Wizard!Csi, ends
<1> HIDE DEF least
<1>7. QED
  BY <1>4, <1>5, <1>6

LEMMA CsiWaits ==
  ASSUME NEW b \in Seq(Bytes), \A j \in 3..Len(b) : b[j] = "3"
  PROVE  Wizard!Csi(b).key = "wait"
<1>1. {j \in 3..Len(b) : b[j] # "3"} = {}
  OBVIOUS
<1>2. QED
  BY <1>1 DEF Wizard!Csi

\* The sequences of the arrow and of the delete key.
LEMMA SequenceRead ==
  ASSUME NEW b \in Seq(Bytes), NEW L \in Nat, L = Len(b), L >= 1,
         b[1] = "ESC", L > 1 => b[2] = "["
  PROVE  /\ L > 2 /\ b[3] = "A" =>
              Wizard!Parsed(b) = [key |-> "up", used |-> 3]
         /\ L > 3 /\ b[3] = "3" /\ b[4] = "~" =>
              Wizard!Parsed(b) = [key |-> "delete", used |-> 4]
         /\ L < 3 \/ (L = 3 /\ b[3] = "3") => Wizard!Parsed(b).key = "wait"
<1>1. Wizard!Parsed(b) = Wizard!Escape(b)
  BY DEF Wizard!Parsed
<1>2. Len(b) = 1 => Wizard!Escape(b).key = "wait"
  BY DEF Wizard!Escape
<1>3. Len(b) > 1 => Wizard!Escape(b) = Wizard!Csi(b)
  BY DEF Wizard!Escape
<1>4. ASSUME Len(b) > 2, b[3] = "A" PROVE Wizard!Csi(b) = [key |-> "up", used |-> 3]
  <2>1. 3 \in 3..Len(b) /\ b[3] \in {"A", "~"} /\ \A j \in 3..3 - 1 : b[j] = "3"
    BY <1>4
  <2>2. Wizard!Csi(b) = [key |-> Wizard!Final(b[3]), used |-> 3]
    BY <2>1, CsiEnds
  <2>3. QED
    BY <1>4, <2>2 DEF Wizard!Final
<1>5. ASSUME Len(b) > 3, b[3] = "3", b[4] = "~"
      PROVE  Wizard!Csi(b) = [key |-> "delete", used |-> 4]
  <2>1. 4 \in 3..Len(b) /\ b[4] \in {"A", "~"} /\ \A j \in 3..4 - 1 : b[j] = "3"
    BY <1>5
  <2>2. Wizard!Csi(b) = [key |-> Wizard!Final(b[4]), used |-> 4]
    BY <2>1, CsiEnds
  <2>3. QED
    BY <1>5, <2>2 DEF Wizard!Final
<1>6. ASSUME Len(b) < 3 \/ (Len(b) = 3 /\ b[3] = "3") PROVE Wizard!Csi(b).key = "wait"
  <2>1. \A j \in 3..Len(b) : b[j] = "3"
    BY <1>6
  <2>2. QED
    BY <2>1, CsiWaits
<1>7. QED
  <2>1. CASE L = 1
    BY <1>1, <1>2, <2>1
  <2>2. CASE L > 1
    <3>1. Wizard!Parsed(b) = Wizard!Csi(b)
      BY <1>1, <1>3, <2>2
    <3>2. QED
      BY <1>4, <1>5, <1>6, <3>1
  <2>3. QED
    BY <2>1, <2>2

\* What the reader makes of the bytes in hand is the key they begin with, and
\* it takes all of its bytes and none of the next, when it takes any.
Taken(b, w) == IF Wizard!Parsed(b).key = "wait" /\ w = <<>> THEN Wizard!Silent(b)
               ELSE Wizard!Parsed(b)

\* The bytes that arrived and those that come are a key and what was pressed after it.
Begins(k, b, w, t) ==
  /\ b # <<>> /\ b \o w = Wizard!Sent[k] \o t
  /\ t # <<>> => t[1] # "LF"
  /\ k = "esc" => t = <<>>

LEMMA ReadsOneKey ==
  ASSUME NEW k \in Keys, NEW b \in Seq(Bytes), NEW w \in Seq(Bytes), NEW t \in Seq(Bytes),
         Begins(k, b, w, t), NEW p, p = Taken(b, w), p.key # "wait"
  PROVE  /\ p.key = Wizard!Name[k]
         /\ p.used = Len(Wizard!Sent[k])
         /\ p.used <= Len(b)
<1> USE DEF Taken, Begins
<1> DEFINE s == Wizard!Sent[k]
<1>1. s \in Seq(Bytes)
  BY KeysAreSent
<1>2. Len(b) > 0 /\ Len(b) + Len(w) = Len(s) + Len(t)
  <2>1. Len(b \o w) = Len(b) + Len(w) /\ Len(s \o t) = Len(s) + Len(t)
    BY <1>1
  <2>2. QED
    BY <2>1
<1>3. \A i \in 1..Len(b) : b[i] = IF i <= Len(s) THEN s[i] ELSE t[i - Len(s)]
  <2> SUFFICES ASSUME NEW i \in 1..Len(b)
               PROVE b[i] = IF i <= Len(s) THEN s[i] ELSE t[i - Len(s)]
    OBVIOUS
  <2>1. b[i] = (b \o w)[i]
    OBVIOUS
  <2>2. i \in 1..Len(s) + Len(t)
    BY <1>1, <1>2
  <2>3. (s \o t)[i] = IF i <= Len(s) THEN s[i] ELSE t[i - Len(s)]
    BY <1>1, <2>2
  <2>4. QED
    BY <2>1, <2>3
<1>4. w = <<>> <=> Len(w) = 0
  OBVIOUS
<1>5. t = <<>> <=> Len(t) = 0
  OBVIOUS
<1>6. Len(b) \in Nat /\ Len(w) \in Nat /\ Len(t) \in Nat
  OBVIOUS
<1>7. \A i \in 1..Len(s) : i <= Len(b) => b[i] = s[i]
  BY <1>3, <1>6
<1>8. Len(b) < Len(s) => w # <<>>
  BY <1>2, <1>4, <1>6
<1>9. Len(b) > Len(s) => b[Len(s) + 1] # "LF"
  <2> SUFFICES ASSUME Len(b) > Len(s) PROVE b[Len(s) + 1] # "LF"
    OBVIOUS
  <2>1. Len(s) \in Nat
    BY <1>1
  <2>2. t # <<>>
    BY <1>2, <1>6, <2>1
  <2>3. b[Len(s) + 1] = t[1]
    <3>1. Len(s) + 1 \in 1..Len(b) /\ ~ (Len(s) + 1 <= Len(s)) /\ Len(s) + 1 - Len(s) = 1
      BY <1>6, <2>1
    <3>2. QED
      BY <1>3, <3>1
  <2>4. QED
    BY <2>2, <2>3
<1>10. PICK L \in Nat : L = Len(b) /\ L >= 1
  BY <1>2, <1>6
<1> DEFINE q == Wizard!Parsed(b)
<1>11. CASE k = "up"
  <2>0. Wizard!Name[k] = "up"
    BY <1>11, NamesOfKeys DEF Keys
  <2>1. s = <<"ESC", "[", "A">>
    BY <1>11 DEF Wizard!Sent
  <2>2. Len(s) = 3 /\ b[1] = "ESC" /\ (L > 1 => b[2] = "[") /\ (L > 2 => b[3] = "A")
    BY <1>7, <1>10, <2>1
  <2>4. /\ L > 2 /\ b[3] = "A" => q = [key |-> "up", used |-> 3]
        /\ L > 3 /\ b[3] = "3" /\ b[4] = "~" => q = [key |-> "delete", used |-> 4]
        /\ L < 3 \/ (L = 3 /\ b[3] = "3") => q.key = "wait"
    BY <1>10, <2>2, SequenceRead
  <2>5. (L < 3 => q.key = "wait") /\ (L >= 3 => q = [key |-> "up", used |-> 3])
    BY <1>10, <2>2, <2>4
  <2>6. QED
    BY <1>8, <1>10, <2>0, <2>2, <2>5
<1>12. CASE k = "up_app"
  <2>0. Wizard!Name[k] = "up"
    BY <1>12, NamesOfKeys DEF Keys
  <2>1. s = <<"ESC", "O", "A">>
    BY <1>12 DEF Wizard!Sent
  <2>2. Len(s) = 3 /\ b[1] = "ESC" /\ (L > 1 => b[2] = "O") /\ (L > 2 => b[3] = "A")
    BY <1>7, <1>10, <2>1
  <2>3. L < 3 => q.key = "wait"
    <3>1. L = 1 => q.key = "wait"
      BY <1>10, <2>2 DEF Wizard!Parsed, Wizard!Escape
    <3>2. L = 2 => q.key = "wait"
      BY <1>10, <2>2 DEF Wizard!Parsed, Wizard!Escape, Wizard!Ss3
    <3>3. QED
      BY <1>10, <3>1, <3>2
  <2>4. L >= 3 => q = [key |-> "up", used |-> 3]
    BY <1>10, <2>2 DEF Wizard!Parsed, Wizard!Escape, Wizard!Ss3, Wizard!Final
  <2>5. QED
    BY <1>8, <1>10, <2>0, <2>2, <2>3, <2>4
<1>13. CASE k = "delete"
  <2>0. Wizard!Name[k] = "delete"
    BY <1>13, NamesOfKeys DEF Keys
  <2>1. s = <<"ESC", "[", "3", "~">>
    BY <1>13 DEF Wizard!Sent
  <2>2. Len(s) = 4 /\ b[1] = "ESC" /\ (L > 1 => b[2] = "[") /\ (L > 2 => b[3] = "3")
        /\ (L > 3 => b[4] = "~")
    BY <1>7, <1>10, <2>1
  <2>4. /\ L > 2 /\ b[3] = "A" => q = [key |-> "up", used |-> 3]
        /\ L > 3 /\ b[3] = "3" /\ b[4] = "~" => q = [key |-> "delete", used |-> 4]
        /\ L < 3 \/ (L = 3 /\ b[3] = "3") => q.key = "wait"
    BY <1>10, <2>2, SequenceRead
  <2>5. (L < 4 => q.key = "wait") /\ (L >= 4 => q = [key |-> "delete", used |-> 4])
    BY <1>10, <2>2, <2>4
  <2>6. QED
    BY <1>8, <1>10, <2>0, <2>2, <2>5
<1>14. CASE k = "enter"
  <2>0. Wizard!Name[k] = "enter"
    BY <1>14, NamesOfKeys DEF Keys
  <2>1. s = <<"CR">>
    BY <1>14 DEF Wizard!Sent
  <2>2. Len(s) = 1 /\ b[1] = "CR"
    BY <1>7, <1>10, <2>1
  <2>3. L > 1 => b[2] # "LF"
    BY <1>9, <1>10, <2>2
  <2>4. Wizard!Silent(b) = [key |-> "enter", used |-> 1]
    BY <2>2 DEF Wizard!Silent
  <2>5. L > 1 => q = [key |-> "enter", used |-> 1]
    BY <1>10, <2>2, <2>3 DEF Wizard!Parsed, Wizard!Enter
  <2>6. L = 1 => q.key = "wait"
    BY <1>10, <2>2 DEF Wizard!Parsed, Wizard!Enter
  <2>7. QED
    BY <1>10, <2>0, <2>2, <2>4, <2>5, <2>6
<1>15. CASE k = "enter_crlf"
  <2>0. Wizard!Name[k] = "enter"
    BY <1>15, NamesOfKeys DEF Keys
  <2>1. s = <<"CR", "LF">>
    BY <1>15 DEF Wizard!Sent
  <2>2. Len(s) = 2 /\ b[1] = "CR" /\ (L > 1 => b[2] = "LF")
    BY <1>7, <1>10, <2>1
  <2>3. L > 1 => q = [key |-> "enter", used |-> 2]
    BY <1>10, <2>2 DEF Wizard!Parsed, Wizard!Enter
  <2>4. L = 1 => q.key = "wait"
    BY <1>10, <2>2 DEF Wizard!Parsed, Wizard!Enter
  <2>5. QED
    BY <1>8, <1>10, <2>0, <2>2, <2>3, <2>4
<1>16. CASE k = "letter"
  <2>1. s = <<"q">>
    BY <1>16 DEF Wizard!Sent
  <2>2. Len(s) = 1 /\ b[1] = "q"
    BY <1>7, <1>10, <2>1
  <2>3. q = [key |-> "letter", used |-> 1]
    BY <2>2 DEF Wizard!Parsed
  <2>4. QED
    BY <1>10, <1>16, <2>2, <2>3, NamesOfKeys DEF Keys
<1>17. CASE k = "accent"
  <2>0. Wizard!Name[k] = "accent"
    BY <1>17, NamesOfKeys DEF Keys
  <2>1. s = <<"LEAD", "TAIL">>
    BY <1>17 DEF Wizard!Sent
  <2>2. Len(s) = 2 /\ b[1] = "LEAD"
    BY <1>7, <1>10, <2>1
  <2>3. L > 1 => q = [key |-> "accent", used |-> 2]
    BY <1>10, <2>2 DEF Wizard!Parsed
  <2>4. L = 1 => q.key = "wait"
    BY <1>10, <2>2 DEF Wizard!Parsed
  <2>5. QED
    BY <1>8, <1>10, <2>0, <2>2, <2>3, <2>4
<1>18. CASE k = "space"
  <2>1. s = <<"SP">>
    BY <1>18 DEF Wizard!Sent
  <2>2. Len(s) = 1 /\ b[1] = "SP"
    BY <1>7, <1>10, <2>1
  <2>3. q = [key |-> "space", used |-> 1]
    BY <2>2 DEF Wizard!Parsed
  <2>4. QED
    BY <1>10, <1>18, <2>2, <2>3, NamesOfKeys DEF Keys
<1>19. CASE k = "esc"
  <2>1. s = <<"ESC">>
    BY <1>19 DEF Wizard!Sent
  <2>2. Len(s) = 1 /\ b[1] = "ESC" /\ L = 1 /\ Len(w) = 0
    <3>1. Len(s) = 1 /\ Len(t) = 0
      BY <1>5, <1>19, <2>1
    <3>2. b[1] = "ESC"
      BY <1>7, <1>10, <2>1, <3>1
    <3>3. QED
      BY <1>2, <1>6, <1>10, <3>1, <3>2
  <2>3. b = <<"ESC">> /\ w = <<>>
    <3>1. w = <<>>
      BY <1>4, <2>2
    <3>2. <<"ESC">> \in Seq(Bytes) /\ Len(<<"ESC">>) = 1 /\ <<"ESC">>[1] = "ESC"
      BY DEF Bytes
    <3>3. Len(b) = Len(<<"ESC">>) /\ \A i \in 1..Len(b) : b[i] = <<"ESC">>[i]
      BY <1>10, <2>2, <3>2
    <3>4. b = <<"ESC">>
      BY <3>2, <3>3, SeqEqual
    <3>5. QED
      BY <3>1, <3>4
  <2>4. q.key = "wait"
    BY <1>10, <2>2 DEF Wizard!Parsed, Wizard!Escape
  <2>5. Wizard!Silent(b) = [key |-> "esc", used |-> 1]
    BY <2>3 DEF Wizard!Silent
  <2>6. QED
    BY <1>19, <2>2, <2>3, <2>4, <2>5, NamesOfKeys DEF Keys
<1>20. QED
  BY <1>11, <1>12, <1>13, <1>14, <1>15, <1>16, <1>17, <1>18, <1>19 DEF Keys

-----------------------------------------------------------------------------
\* What has arrived and what has not are the bytes of the keys that were
\* pressed and not yet read, and what was read are the keys before them.
ReaderInv ==
  /\ pressed \in Seq(Keys)
  /\ \A i \in 1..Len(pressed) : pressed[i] = "esc" => i = Len(pressed)
  /\ wire \in Seq(Bytes) /\ buf \in Seq(Bytes)
  /\ read \in Seq(Keys) /\ Len(read) <= Len(pressed)
  /\ \A i \in 1..Len(read) : read[i] = Wizard!Name[pressed[i]]
  /\ buf \o wire = Wizard!BytesOf(pressed)[Len(pressed) - Len(read)]

LEMMA ReaderStarts == DeployInit => ReaderInv
<1> SUFFICES ASSUME DeployInit PROVE ReaderInv
  OBVIOUS
<1>1. /\ pressed \in Wizard!Streams \cup {<<"letter">>}
      /\ wire = Wizard!BytesOf(pressed)[Len(pressed)] /\ buf = <<>> /\ read = <<>>
  <2>1. \E streams \in {Wizard!Streams, {<<"letter">>}} :
          \E blanks : Wizard!FormsStart(streams, blanks)
    BY Zenon DEF DeployInit
  <2>2. QED
    BY <2>1 DEF Wizard!FormsStart
<1>2. /\ pressed \in Seq(Keys)
      /\ \A i \in 1..Len(pressed) : pressed[i] = "esc" => i = Len(pressed)
  <2>1. CASE pressed \in Wizard!Streams
    <3>1. PICK n \in 1..MaxKeys : pressed \in [1..n -> Keys]
      BY <2>1, KeysAreSent DEF Wizard!Streams
    <3>2. QED
      BY <2>1, <3>1 DEF Wizard!Streams
  <2>2. CASE pressed = <<"letter">>
    BY <2>2 DEF Keys
  <2>3. QED
    BY <1>1, <2>1, <2>2
<1>3. Len(pressed) \in Nat /\ Wizard!BytesOf(pressed)[Len(pressed)] \in Seq(Bytes)
  <2>1. Len(pressed) \in Nat /\ Len(pressed) \in 0..Len(pressed)
    BY <1>2
  <2>2. Wizard!BytesOf(pressed) \in [0..Len(pressed) -> Seq(Bytes)]
    BY <1>2, BytesOfStep
  <2>3. QED
    BY <2>1, <2>2
<1>4. wire \in Seq(Bytes) /\ buf \o wire = wire /\ Len(read) = 0 /\ read \in Seq(Keys)
  BY <1>1, <1>3
<1>5. Len(pressed) - Len(read) = Len(pressed)
  BY <1>3, <1>4
<1>6. buf \o wire = Wizard!BytesOf(pressed)[Len(pressed) - Len(read)]
  BY <1>1, <1>4, <1>5
<1>7. Len(read) <= Len(pressed) /\ buf \in Seq(Bytes) /\ \A i \in 1..Len(read) : FALSE
  BY <1>1, <1>3, <1>4
<1>8. QED
  BY <1>2, <1>4, <1>6, <1>7 DEF ReaderInv

\* The order of the bytes is that in which they were sent.
LEMMA ArriveKeeps == ReaderInv /\ Wizard!Arrive => ReaderInv'
<1> SUFFICES ASSUME ReaderInv, Wizard!Arrive PROVE ReaderInv'
  OBVIOUS
<1>1. PICK n \in 1..Len(wire) : /\ buf' = buf \o SubSeq(wire, 1, n)
                                /\ wire' = SubSeq(wire, n + 1, Len(wire))
  BY DEF Wizard!Arrive
<1>2. pressed' = pressed /\ read' = read
  BY DEF Wizard!Arrive
<1>3. wire' \in Seq(Bytes) /\ buf' \in Seq(Bytes)
  BY <1>1 DEF ReaderInv
<1>4. buf' \o wire' = buf \o wire
  <2>1. buf \in Seq(Bytes) /\ wire \in Seq(Bytes)
    BY DEF ReaderInv
  <2>2. SubSeq(wire, 1, n) \o SubSeq(wire, n + 1, Len(wire)) = wire
    BY <2>1
  <2> DEFINE a == SubSeq(wire, 1, n)
             c == SubSeq(wire, n + 1, Len(wire))
  <2>3. a \in Seq(Bytes) /\ c \in Seq(Bytes)
    BY <2>1
  <2>4. buf' = buf \o a /\ wire' = c /\ a \o c = wire
    BY <1>1, <2>2
  <2> HIDE DEF a, c
  <2>5. (buf \o a) \o c = buf \o (a \o c)
    BY <2>1, <2>3, ConcatAssociative
  <2>6. QED
    BY <2>4, <2>5
<1>5. QED
  BY <1>2, <1>3, <1>4 DEF ReaderInv

\* What is left of two sequences when their common front is taken away.
SameBytes(b, w, s, t) == b \o w = s \o t

LEMMA RestOfConcat ==
  ASSUME NEW S, NEW b \in Seq(S), NEW w \in Seq(S), NEW s \in Seq(S), NEW t \in Seq(S),
         NEW l \in Nat, l = Len(s), l <= Len(b), SameBytes(b, w, s, t)
  PROVE  SameBytes(SubSeq(b, l + 1, Len(b)), w, <<>>, t)
<1> USE DEF SameBytes
<1> DEFINE a == SubSeq(b, l + 1, Len(b))
           B == Len(b)
           W == Len(w)
           T == Len(t)
<1>1. B \in Nat /\ W \in Nat /\ T \in Nat
  OBVIOUS
<1>2. a \in Seq(S) /\ Len(a) = B - l /\ \A i \in 1..B - l : a[i] = b[l + i]
  <2>1. a \in Seq(S)
    OBVIOUS
  <2>2. Len(a) = B - l
    OBVIOUS
  <2>3. \A i \in 1..B - l : a[i] = b[l + i]
    OBVIOUS
  <2>4. QED
    BY <2>1, <2>2, <2>3
<1>3. B + W = l + T
  <2>1. Len(b \o w) = B + W /\ Len(s \o t) = l + T
    OBVIOUS
  <2>2. QED
    BY <2>1
<1> HIDE DEF a
<1>4. a \o w \in Seq(S) /\ Len(a \o w) = T
  <2>1. Len(a \o w) = Len(a) + W
    BY <1>2, ConcatProperties
  <2>2. QED
    BY <1>1, <1>2, <1>3, <2>1
<1>5. ASSUME NEW i \in 1..T PROVE (a \o w)[i] = t[i]
  <2>1. t[i] = (s \o t)[l + i]
    BY <1>1
  <2>2. CASE i <= B - l
    <3>1. (a \o w)[i] = b[l + i]
      BY <1>1, <1>2, <2>2
    <3>2. (b \o w)[l + i] = b[l + i]
      BY <1>1, <2>2
    <3>3. QED
      BY <2>1, <3>1, <3>2
  <2>3. CASE i > B - l
    <3>1. (a \o w)[i] = w[i - (B - l)]
      BY <1>1, <1>2, <1>3, <2>3
    <3>2. (b \o w)[l + i] = w[l + i - B]
      BY <1>1, <1>3, <2>3
    <3>3. l + i - B = i - (B - l)
      BY <1>1
    <3>4. QED
      BY <2>1, <3>1, <3>2, <3>3
  <2>4. i <= B - l \/ i > B - l
    <3> HIDE DEF B, T
    <3>1. QED
      BY <1>1
  <2>5. QED
    BY <2>2, <2>3, <2>4
<1>6. Len(a \o w) = Len(t) /\ \A i \in 1..Len(a \o w) : (a \o w)[i] = t[i]
  BY <1>4, <1>5
<1>7. a \o w = t
  BY <1>4, <1>6, SeqEqual
<1>8. QED
  BY <1>7, ConcatEmptySeq DEF a

LEMMA ReadTakesKey == ReaderInv /\ Wizard!Read => ReaderInv'
<1> SUFFICES ASSUME ReaderInv, Wizard!Read PROVE ReaderInv'
  OBVIOUS
<1> DEFINE p == IF Wizard!Parsed(buf).key = "wait" /\ wire = <<>> THEN Wizard!Silent(buf)
                ELSE Wizard!Parsed(buf)
           last == Wizard!BytesOf(pressed)
           N == Len(pressed)
           R == Len(read)
           k == pressed[R + 1]
           t == last[N - R - 1]
<1>1. /\ buf # <<>> /\ p.key # "wait"
      /\ read' = Append(read, p.key)
      /\ buf' = SubSeq(buf, p.used + 1, Len(buf))
      /\ pressed' = pressed /\ wire' = wire
  BY DEF Wizard!Read
<1> HIDE DEF p
<1>2. /\ last \in [0..N -> Seq(Bytes)] /\ last[0] = <<>>
      /\ \A n \in 1..N : last[n] = Wizard!Sent[pressed[N - n + 1]] \o last[n - 1]
  BY BytesOfStep DEF ReaderInv
<1> HIDE DEF last
<1>3. N \in Nat /\ R \in 0..N /\ buf \o wire = last[N - R]
  BY DEF ReaderInv, last
<1>4. R < N
  <2>1. SUFFICES ASSUME R = N PROVE FALSE
    BY <1>3
  <2>2. buf \o wire = <<>>
    BY <1>2, <1>3, <2>1
  <2>3. QED
    BY <1>1, <2>2 DEF ReaderInv
<1>5. k \in Keys /\ t \in Seq(Bytes) /\ buf \o wire = Wizard!Sent[k] \o t
  <2>1. N - R \in 1..N /\ N - (N - R) + 1 = R + 1 /\ R + 1 \in 1..N /\ N - R - 1 \in 0..N
    BY <1>3, <1>4
  <2>2. last[N - R] = Wizard!Sent[pressed[N - (N - R) + 1]] \o last[N - R - 1]
    BY <1>2, <2>1
  <2>3. k \in Keys
    BY <2>1 DEF ReaderInv
  <2>4. t \in Seq(Bytes)
    BY <1>2, <2>1
  <2>5. QED
    BY <1>3, <2>1, <2>2, <2>3, <2>4
<1>6. t # <<>> => t[1] # "LF"
  <2> SUFFICES ASSUME t # <<>> PROVE t[1] # "LF"
    OBVIOUS
  <2>1. N - R - 1 # 0
    BY <1>2
  <2>2. N - R - 1 \in 1..N /\ R + 2 \in 1..N /\ N - (N - R - 1) + 1 = R + 2
        /\ N - R - 1 - 1 \in 0..N
    BY <1>3, <1>4, <2>1
  <2> DEFINE next == pressed[R + 2]
             u == last[N - R - 1 - 1]
  <2>3. next \in Keys /\ t = Wizard!Sent[next] \o u /\ u \in Seq(Bytes)
    <3>1. next \in Keys
      BY <2>2 DEF ReaderInv
    <3>2. last[N - R - 1] = Wizard!Sent[pressed[N - (N - R - 1) + 1]] \o last[N - R - 1 - 1]
      BY <1>2, <2>2
    <3>3. u \in Seq(Bytes)
      BY <1>2, <2>2
    <3>4. QED
      BY <2>2, <3>1, <3>2, <3>3
  <2>4. Len(Wizard!Sent[next]) > 0 /\ Wizard!Sent[next][1] # "LF"
        /\ Wizard!Sent[next] \in Seq(Bytes)
    BY <2>3, FirstByte, KeysAreSent
  <2> HIDE DEF next, u
  <2>5. QED
    BY <2>3, <2>4
<1>7. k = "esc" => t = <<>>
  <2> SUFFICES ASSUME k = "esc" PROVE t = <<>>
    OBVIOUS
  <2>1. R + 1 = N
    BY <1>3, <1>4 DEF ReaderInv
  <2>2. N - R - 1 = 0
    BY <1>3, <2>1
  <2>3. QED
    BY <1>2, <2>2
<1>8. buf \in Seq(Bytes) /\ wire \in Seq(Bytes)
  BY DEF ReaderInv
<1> HIDE DEF k, t
<1>9. p.key = Wizard!Name[k] /\ p.used = Len(Wizard!Sent[k]) /\ p.used <= Len(buf)
  <2>1. p = Taken(buf, wire)
    BY DEF p, Taken
  <2>2. QED
    <3>1. Begins(k, buf, wire, t)
      BY <1>1, <1>5, <1>6, <1>7 DEF Begins
    <3>2. QED
      BY <1>1, <1>5, <1>8, <2>1, <3>1, ReadsOneKey
<1>10. buf' \in Seq(Bytes) /\ buf' \o wire = t
  <2> DEFINE s == Wizard!Sent[k]
             l == Len(s)
  <2>1. s \in Seq(Bytes) /\ l \in Nat
    BY <1>5, KeysAreSent
  <2> HIDE DEF s
  <2>2. buf' = SubSeq(buf, l + 1, Len(buf)) /\ l <= Len(buf) /\ buf \o wire = s \o t
    BY <1>1, <1>5, <1>9 DEF s
  <2>3. buf' \in Seq(Bytes)
    BY <1>8, <2>1, <2>2
  <2>4. buf' \o wire = t
    <3>1. SameBytes(buf, wire, s, t)
      BY <2>2 DEF SameBytes
    <3>2. SameBytes(SubSeq(buf, l + 1, Len(buf)), wire, <<>>, t)
      BY <1>5, <1>8, <2>1, <2>2, <3>1, RestOfConcat
    <3>3. QED
      BY <1>5, <2>2, <3>2, ConcatEmptySeq DEF SameBytes
  <2>5. QED
    BY <2>3, <2>4
<1>11. read' \in Seq(Keys) /\ Len(read') = R + 1
  <2>1. Wizard!Name[k] \in Keys
    BY <1>5, NamesOfKeys DEF Keys
  <2>2. QED
    BY <1>1, <1>9, <2>1 DEF ReaderInv
<1>12. \A i \in 1..Len(read') : read'[i] = Wizard!Name[pressed[i]]
  BY <1>1, <1>9, <1>11 DEF ReaderInv, k
<1>13. N - Len(read') = N - R - 1
  BY <1>3, <1>11
<1>14. QED
  <2>1. buf' \o wire' = Wizard!BytesOf(pressed')[Len(pressed') - Len(read')]
    BY <1>1, <1>10, <1>13 DEF t, last
  <2>2. Len(read') <= Len(pressed')
    BY <1>1, <1>3, <1>4, <1>11
  <2>3. wire' \in Seq(Bytes)
    BY <1>1, <1>8
  <2>4. pressed' \in Seq(Keys)
        /\ \A i \in 1..Len(pressed') : pressed'[i] = "esc" => i = Len(pressed')
    BY <1>1 DEF ReaderInv
  <2>5. \A i \in 1..Len(read') : read'[i] = Wizard!Name[pressed'[i]]
    BY <1>1, <1>12
  <2>6. QED
    BY <1>10, <1>11, <2>1, <2>2, <2>3, <2>4, <2>5 DEF ReaderInv

LEMMA ReaderHolds == Deploy => []ReaderInv
<1>1. ReaderInv /\ [DeployNext]_deployVars => ReaderInv'
  <2> SUFFICES ASSUME ReaderInv, [DeployNext]_deployVars PROVE ReaderInv'
    OBVIOUS
  <2>1. CASE Wizard!ReaderNext
    BY <2>1, ArriveKeeps, ReadTakesKey DEF Wizard!ReaderNext
  <2>2. CASE UNCHANGED readerVars
    BY <2>2 DEF readerVars, ReaderInv
  <2>3. QED
    BY <2>1, <2>2 DEF DeployNext, deployVars
<1>2. QED
  BY <1>1, ReaderStarts, PTL DEF Deploy

LEMMA WholeKeys == ReaderInv => Wizard!KeysAreWhole
<1> SUFFICES ASSUME ReaderInv PROVE Wizard!KeysAreWhole
  OBVIOUS
<1> DEFINE N == Len(pressed)
           R == Len(read)
           names == [i \in 1..N |-> Wizard!Name[pressed[i]]]
           last == Wizard!BytesOf(pressed)
<1>1. pressed \in Seq(Keys) /\ read \in Seq(Keys) /\ N \in Nat /\ R \in Nat /\ R <= N
  BY DEF ReaderInv
<1>2. names \in Seq(Keys) /\ Len(names) = N
  <2>1. \A i \in 1..N : Wizard!Name[pressed[i]] \in Keys
    <3> SUFFICES ASSUME NEW i \in 1..N PROVE Wizard!Name[pressed[i]] \in Keys
      OBVIOUS
    <3>1. pressed[i] \in Keys
      BY <1>1
    <3>2. QED
      BY <3>1, NamesOfKeys DEF Keys
  <2>2. QED
    BY <1>1, <2>1
<1>3. \A i \in 1..R : read[i] = names[i]
  BY <1>1 DEF ReaderInv
<1> HIDE DEF names
<1>4. Wizard!IsPrefix(read, names)
  <2> DEFINE front == SubSeq(read, 1, R)
             back == SubSeq(names, 1, R)
  <2>1. front \in Seq(Keys) /\ Len(front) = R /\ \A i \in 1..R : front[i] = read[i]
    BY <1>1
  <2>2. back \in Seq(Keys) /\ Len(back) = R /\ \A i \in 1..R : back[i] = names[i]
    BY <1>1, <1>2
  <2> HIDE DEF front, back
  <2>3. Len(front) = Len(back) /\ \A i \in 1..Len(front) : front[i] = back[i]
    BY <1>3, <2>1, <2>2
  <2>4. front = back
    BY <2>1, <2>2, <2>3, SeqEqual
  <2>5. QED
    BY <1>1, <1>2, <2>4 DEF Wizard!IsPrefix, front, back
<1>5. ASSUME wire = <<>>, buf = <<>> PROVE read = names
  <2>1. last[N - R] = <<>>
    BY <1>5 DEF ReaderInv
  <2>2. R = N
    <3> SUFFICES ASSUME R < N PROVE FALSE
      BY <1>1
    <3> DEFINE k == pressed[R + 1]
               t == last[N - R - 1]
    <3>1. last \in [0..N -> Seq(Bytes)]
          /\ \A n \in 1..N : last[n] = Wizard!Sent[pressed[N - n + 1]] \o last[n - 1]
      BY <1>1, BytesOfStep
    <3> HIDE DEF last
    <3>2. N - R \in 1..N /\ N - (N - R) + 1 = R + 1 /\ R + 1 \in 1..N /\ N - R - 1 \in 0..N
      BY <1>1
    <3>3. last[N - R] = Wizard!Sent[pressed[N - (N - R) + 1]] \o last[N - R - 1]
      BY <3>1, <3>2
    <3>4. k \in Keys /\ t \in Seq(Bytes)
      BY <1>1, <3>1, <3>2
    <3>5. last[N - R] = Wizard!Sent[k] \o t
      BY <3>2, <3>3
    <3> HIDE DEF k, t
    <3>6. Len(Wizard!Sent[k]) > 0 /\ Wizard!Sent[k] \in Seq(Bytes)
      BY <3>4, FirstByte, KeysAreSent
    <3>7. Wizard!Sent[k] \o t # <<>>
      BY <3>4, <3>6, ConcatProperties
    <3>8. QED
      BY <2>1, <3>5, <3>7
  <2>3. Len(read) = Len(names) /\ \A i \in 1..Len(read) : read[i] = names[i]
    BY <1>2, <1>3, <2>2
  <2>4. QED
    BY <1>1, <1>2, <2>3, SeqEqual
<1>6. QED
  BY <1>4, <1>5 DEF Wizard!KeysAreWhole, names

\* Whatever pieces the bytes arrive in, the reader gives back the keys that
\* were pressed, and the editor says yes to valid fields only.
THEOREM FormsAlwaysTrue == Deploy => []FormsAreTrue
<1>1. ReaderInv => Wizard!KeysAreWhole
  BY WholeKeys
<1>2. QED
  BY <1>1, ReaderHolds, YesIsForValidFields, PTL DEF FormsAreTrue, Wizard!FormsAreTrue

-----------------------------------------------------------------------------
(* The lookups.  What an answer may be late by is shared out: a request     *)
(* that was answered has used up a part of Slow, an entry a part of OkTtl,  *)
(* and both count down while the tag they hold grows old.                   *)

Entries(empty) == [tag : Tags \cup {empty}, left : Nat]

LookerStates ==
  {News!Idle}
  \cup [at : {"asking"}, kind : News!Kinds, prior : Tags \cup {News!NoBody},
        shows : Tags \cup {News!NoTag}, left : Nat]
  \cup [at : {"answered"}, kind : News!Kinds, got : Tags \cup {News!NoBody},
        names : Tags \cup {News!NoTag}, left : Nat]

NewsTyped ==
  /\ latest \in Tags /\ age \in [Tags -> Nat]
  /\ cached \in [News!Kinds -> Entries(News!NoTag)] /\ body \in Entries(News!NoBody)
  /\ looker \in [Lookers -> LookerStates]
  /\ told \in Tags \cup {News!NoTag} /\ etag \in Tags \cup {News!NoTag} /\ misled \in BOOLEAN

\* An entry that lives was made within its term of an answer that was not
\* older than a request.
Lives(e) == e.left > 0 /\ e.tag \in Tags
Timely(e, ages) == Lives(e) => e.left <= OkTtl /\ ages[e.tag] + e.left <= OkTtl + Slow

TimelyAnswer(r, ages) ==
  r.at = "answered" /\ r.got \in Tags => ages[r.got] + r.left <= Slow

\* ... as long as no 304 brought back another body than its ETag names.
Caches ==
  /\ \A k \in News!Kinds : Timely(cached[k], age)
  /\ Timely(body, age)
  /\ \A l \in Lookers : TimelyAnswer(looker[l], age)
  /\ told # News!NoTag => age[told] < News!Old

NewsOrder ==
  /\ age[latest] = 0
  /\ \A l \in Lookers : looker[l] # News!Idle => looker[l].left <= Slow
  /\ ~ misled => Caches

NewsInv == NewsTyped /\ NewsOrder

LEMMA NewsConstants ==
  /\ OkTtl \in Nat /\ FailTtl \in Nat /\ Slow \in Nat /\ FetchTtl \in Nat
  /\ FetchSlow \in Nat
  /\ News!NoTag \notin Tags /\ News!NoBody \notin Tags
  /\ News!Old = OkTtl + Slow /\ OkTtl > 0 /\ News!Past = FetchSlow + FetchTtl + 1
BY DeploymentConstants DEF News!LookupConstants, News!NoTag, News!NoBody, News!Old, News!Past

\* A parsed tag is a tag of GitHub, and the one that was parsed.
LEMMA ParsedTag ==
  ASSUME NEW kind, NEW tag
  PROVE  /\ News!Parsed(kind, tag) \in Tags \cup {News!NoTag}
         /\ News!Parsed(kind, tag) \in Tags => News!Parsed(kind, tag) = tag
BY NewsConstants DEF News!Parsed

LEMMA NewsStart == DeployInit => NewsInv
<1> SUFFICES ASSUME DeployInit PROVE NewsInv
  OBVIOUS
<1>1. News!LookInit
  BY Zenon DEF DeployInit
<1>2. NewsTyped
  <2>1. age \in [Tags -> Nat] /\ latest \in Tags
    BY <1>1, NewsConstants DEF News!LookInit
  <2>2. looker \in [Lookers -> LookerStates]
    BY <1>1 DEF News!LookInit, LookerStates
  <2>3. cached \in [News!Kinds -> Entries(News!NoTag)] /\ body \in Entries(News!NoBody)
    BY <1>1 DEF News!LookInit, News!Entry, Entries
  <2>4. QED
    BY <1>1, <2>1, <2>2, <2>3 DEF News!LookInit, NewsTyped
<1>3. NewsOrder
  <2>1. age[latest] = 0
    BY <1>1 DEF News!LookInit
  <2>2. Timely(body, age) /\ \A k \in News!Kinds : Timely(cached[k], age)
    BY <1>1 DEF News!LookInit, News!Entry, Timely, Lives
  <2>3. \A l \in Lookers : looker[l] = News!Idle /\ TimelyAnswer(looker[l], age)
    BY <1>1 DEF News!LookInit, TimelyAnswer, News!Idle
  <2>4. told = News!NoTag
    BY <1>1 DEF News!LookInit
  <2>5. QED
    BY <2>1, <2>2, <2>3, <2>4 DEF NewsOrder, Caches
<1>4. QED
  BY <1>2, <1>3 DEF NewsInv

LEMMA LookKeeps ==
  ASSUME NewsInv, NEW l \in Lookers, NEW k \in News!Kinds, News!Look(l, k)
  PROVE  NewsInv'
<1> USE NewsConstants DEF NewsInv, NewsTyped, NewsOrder, Caches
<1>0. UNCHANGED <<latest, age, body, etag, misled>>
  BY DEF News!Look, News!hub
<1>1. CASE cached[k].left > 0
  <2>1. told' = cached[k].tag /\ UNCHANGED <<cached, looker>>
    BY <1>1 DEF News!Look
  <2>2. cached[k] \in Entries(News!NoTag) /\ (~ misled => Timely(cached[k], age))
    OBVIOUS
  <2>3. told' \in Tags \cup {News!NoTag}
    BY <2>1, <2>2 DEF Entries
  <2>4. ~ misled => (told # News!NoTag => age[told] < News!Old)'
    BY <1>0, <1>1, <2>1, <2>2 DEF Entries, Timely, Lives
  <2>5. QED
    BY <1>0, <2>1, <2>3, <2>4, Zenon DEF Timely, Lives, TimelyAnswer
<1>2. CASE ~ (cached[k].left > 0) /\ body.left > 0
  <2>1. /\ told' = News!Parsed(k, body.tag) /\ UNCHANGED looker
        /\ cached' = [cached EXCEPT ![k] = News!Entry(told', body.left)]
    BY <1>2 DEF News!Look, News!BodyLeft
  <2>2. told' \in Tags \cup {News!NoTag} /\ (told' \in Tags => told' = body.tag)
    BY <2>1, ParsedTag
  <2>3. body \in Entries(News!NoBody) /\ (~ misled => Timely(body, age))
    OBVIOUS
  <2>4. News!Entry(told', body.left) \in Entries(News!NoTag)
    BY <2>2, <2>3 DEF News!Entry, Entries
  <2>5. ~ misled => Timely(News!Entry(told', body.left), age')
    BY <1>0, <2>2, <2>3 DEF News!Entry, Timely, Lives
  <2>6. ~ misled => \A j \in News!Kinds : Timely(cached'[j], age')
    <3> SUFFICES ASSUME ~ misled, NEW j \in News!Kinds PROVE Timely(cached'[j], age')
      OBVIOUS
    <3>1. CASE j = k
      BY <2>1, <2>5, <3>1 DEF Timely, Lives
    <3>2. CASE j # k
      BY <1>0, <2>1, <3>2 DEF Timely, Lives
    <3>3. QED
      BY <3>1, <3>2
  <2>7. ~ misled => (told # News!NoTag => age[told] < News!Old)'
    BY <1>0, <1>2, <2>2, <2>3 DEF Entries, Timely, Lives
  <2>8. cached' \in [News!Kinds -> Entries(News!NoTag)]
    BY <2>1, <2>4
  <2>9. QED
    BY <1>0, <2>1, <2>2, <2>6, <2>7, <2>8, Zenon DEF Timely, Lives, TimelyAnswer
<1>3. CASE ~ (cached[k].left > 0) /\ ~ (body.left > 0)
  <2> DEFINE asks == [at |-> "asking", kind |-> k, prior |-> body.tag, shows |-> etag,
                     left |-> Slow]
  <2>1. looker' = [looker EXCEPT ![l] = asks] /\ told' = News!NoTag /\ UNCHANGED cached
    BY <1>3 DEF News!Look
  <2>2. asks \in LookerStates /\ asks.left = Slow /\ asks.at = "asking"
    <3>1. body.tag \in Tags \cup {News!NoBody}
      BY DEF Entries
    <3>2. QED
      BY <3>1 DEF LookerStates
  <2> HIDE DEF asks
  <2>3. looker' \in [Lookers -> LookerStates]
    BY <2>1, <2>2
  <2>4. \A m \in Lookers : looker'[m] = IF m = l THEN asks ELSE looker[m]
    BY <2>1
  <2>5. \A m \in Lookers : looker'[m] # News!Idle => looker'[m].left <= Slow
    BY <2>2, <2>4
  <2>6. ~ misled => \A m \in Lookers : TimelyAnswer(looker'[m], age')
    BY <1>0, <2>2, <2>4 DEF TimelyAnswer
  <2>7. QED
    BY <1>0, <2>1, <2>3, <2>5, <2>6, Zenon DEF Timely, Lives
<1>4. QED
  BY <1>1, <1>2, <1>3

LEMMA AnswersKeeps ==
  ASSUME NewsInv, NEW l \in Lookers, News!Answers(l)
  PROVE  NewsInv'
<1> USE NewsConstants DEF NewsInv, NewsTyped, NewsOrder, Caches
<1>0. UNCHANGED <<latest, age, cached, body, told, etag>>
  BY DEF News!Answers, News!hub, News!caches
<1>1. PICK got \in {latest, looker[l].prior, News!NoBody}, names \in {latest, looker[l].shows} :
        /\ looker' = [looker EXCEPT ![l] = [at |-> "answered", kind |-> looker[l].kind, got |-> got,
                                            names |-> names, left |-> looker[l].left]]
        /\ misled' = (misled \/ got \notin {latest, News!NoBody})
  BY DEF News!Answers
<1> DEFINE r == [at |-> "answered", kind |-> looker[l].kind, got |-> got, names |-> names,
                 left |-> looker[l].left]
<1>2. looker[l] \in LookerStates /\ looker[l].at = "asking"
  BY DEF News!Answers
<1>3. /\ looker[l] # News!Idle /\ looker[l].kind \in News!Kinds /\ looker[l].left \in Nat
      /\ looker[l].prior \in Tags \cup {News!NoBody}
      /\ looker[l].shows \in Tags \cup {News!NoTag}
  BY <1>2 DEF LookerStates, News!Idle
<1>4. looker[l].left <= Slow
  BY <1>3
<1>5. r \in LookerStates /\ r.left <= Slow /\ r.got = got /\ r.left = looker[l].left
  BY <1>3, <1>4 DEF LookerStates
<1>6. ~ misled' => ~ misled /\ TimelyAnswer(r, age')
  <2> HIDE DEF r
  <2>1. ~ misled' => ~ misled /\ got \in {latest, News!NoBody}
    BY <1>1
  <2>2. got = latest => age'[got] = 0
    BY <1>0
  <2>3. QED
    BY <1>3, <1>4, <1>5, <2>1, <2>2 DEF TimelyAnswer
<1> HIDE DEF r
<1>7. looker' \in [Lookers -> LookerStates]
  BY <1>1, <1>5 DEF r
<1>8. \A m \in Lookers : looker'[m] = IF m = l THEN r ELSE looker[m]
  BY <1>1 DEF r
<1>9. \A m \in Lookers : looker'[m] # News!Idle => looker'[m].left <= Slow
  BY <1>5, <1>8
<1>10. ~ misled' => \A m \in Lookers : TimelyAnswer(looker'[m], age')
  BY <1>0, <1>6, <1>8 DEF TimelyAnswer
<1>11. misled' \in BOOLEAN
  BY <1>1
<1>12. QED
  BY <1>0, <1>6, <1>7, <1>9, <1>10, <1>11, Zenon DEF Timely, Lives

LEMMA StoreKeeps ==
  ASSUME NewsInv, NEW l \in Lookers, News!Store(l)
  PROVE  NewsInv'
<1> USE NewsConstants DEF NewsInv, NewsTyped, NewsOrder, Caches
<1> DEFINE kind == looker[l].kind
           tag == News!Parsed(kind, looker[l].got)
           left == IF tag # News!NoTag THEN OkTtl ELSE FailTtl
<1>0. UNCHANGED <<latest, age, misled>>
  BY DEF News!Store, News!hub
<1>1. /\ told' = tag
      /\ cached' = [cached EXCEPT ![kind] = News!Entry(tag, left)]
      /\ body' = IF tag # News!NoTag THEN News!Entry(tag, left) ELSE body
      /\ etag' = IF tag # News!NoTag THEN looker[l].names ELSE etag
      /\ looker' = [looker EXCEPT ![l] = News!Idle]
  BY DEF News!Store
<1>2. looker[l] \in LookerStates /\ looker[l].at = "answered"
  BY DEF News!Store
<1>3. kind \in News!Kinds /\ looker[l].left \in Nat
      /\ looker[l].names \in Tags \cup {News!NoTag}
  BY <1>2 DEF LookerStates, News!Idle
<1>4. tag \in Tags \cup {News!NoTag} /\ (tag \in Tags => tag = looker[l].got)
  BY ParsedTag
<1>5. ~ misled /\ tag \in Tags => age[tag] <= Slow /\ age[tag] \in Nat
  BY <1>2, <1>3, <1>4 DEF TimelyAnswer
<1>6. left \in Nat /\ (tag \in Tags => left = OkTtl)
  OBVIOUS
<1> DEFINE e == News!Entry(tag, left)
<1> HIDE DEF kind, tag, left
<1>7. /\ e \in Entries(News!NoTag) /\ (tag # News!NoTag => e \in Entries(News!NoBody))
      /\ e.tag = tag /\ e.left = left
  BY <1>4, <1>6 DEF News!Entry, Entries
<1>8. ~ misled => Timely(e, age')
  BY <1>0, <1>4, <1>5, <1>6, <1>7 DEF Timely, Lives
<1> HIDE DEF e
<1>9. cached' \in [News!Kinds -> Entries(News!NoTag)] /\ body' \in Entries(News!NoBody)
  BY <1>1, <1>3, <1>7 DEF e
<1>10. \A j \in News!Kinds : cached'[j] = IF j = kind THEN e ELSE cached[j]
  BY <1>1, <1>3 DEF e
<1>11. ~ misled => \A j \in News!Kinds : Timely(cached'[j], age')
  BY <1>0, <1>8, <1>10 DEF Timely, Lives
<1>12. ~ misled => Timely(body', age')
  BY <1>0, <1>1, <1>8 DEF Timely, Lives, e
<1>13. looker' \in [Lookers -> LookerStates]
  BY <1>1 DEF LookerStates
<1>14. \A m \in Lookers : looker'[m] = IF m = l THEN News!Idle ELSE looker[m]
  BY <1>1
<1>15. \A m \in Lookers : looker'[m] # News!Idle => looker'[m].left <= Slow
  BY <1>14
<1>16. ~ misled => \A m \in Lookers : TimelyAnswer(looker'[m], age')
  BY <1>0, <1>14 DEF TimelyAnswer, News!Idle
<1>17. ~ misled => (told # News!NoTag => age[told] < News!Old)'
  BY <1>0, <1>1, <1>4, <1>5
<1>18. told' \in Tags \cup {News!NoTag} /\ etag' \in Tags \cup {News!NoTag}
  BY <1>1, <1>3, <1>4
<1>19. QED
  BY <1>0, <1>9, <1>11, <1>12, <1>13, <1>15, <1>16, <1>17, <1>18, Zenon

\* A tick ages what is out of date by one and takes one off every term.
LEMMA TickKeeps ==
  ASSUME NewsInv, News!LookTick
  PROVE  NewsInv'
<1> USE NewsConstants DEF NewsInv, NewsTyped, NewsOrder, Caches
<1>0. UNCHANGED <<latest, etag, misled>>
  BY DEF News!LookTick, News!hub
<1>1. /\ age' \in [Tags -> Nat]
      /\ \A t \in Tags : age'[t] \in Nat /\ age'[t] <= age[t] + 1
      /\ age'[latest] = 0
  <2>1. age' = [t \in Tags |-> IF t = latest THEN 0 ELSE News!Upto(age[t], News!Old)]
    BY DEF News!LookTick
  <2>2. \A t \in Tags : News!Upto(age[t], News!Old) \in Nat
                        /\ News!Upto(age[t], News!Old) <= age[t] + 1
    BY DEF News!Upto
  <2> DEFINE Aged(t) == News!Upto(age[t], News!Old)
  <2>3. \A t \in Tags : Aged(t) \in Nat /\ Aged(t) <= age[t] + 1
    BY <2>2
  <2>4. age' = [t \in Tags |-> IF t = latest THEN 0 ELSE Aged(t)]
    BY <2>1
  <2> HIDE DEF Aged
  <2>5. QED
    BY <2>3, <2>4
<1>2. ASSUME NEW empty, NEW e \in Entries(empty)
      PROVE  /\ News!Less(e) \in Entries(empty)
             /\ Timely(e, age) => Timely(News!Less(e), age')
  <2>1. e = [tag |-> e.tag, left |-> e.left] /\ e.left \in Nat /\ e.tag \in Tags \cup {empty}
    BY <1>2 DEF Entries
  <2>2. News!Less(e) = [tag |-> e.tag, left |-> IF e.left > 0 THEN e.left - 1 ELSE 0]
    BY <2>1 DEF News!Less
  <2>3. News!Less(e) \in Entries(empty)
    BY <2>1, <2>2 DEF Entries
  <2>4. Timely(e, age) => Timely(News!Less(e), age')
    <3> SUFFICES ASSUME Timely(e, age), Lives(News!Less(e))
                 PROVE  /\ News!Less(e).left <= OkTtl
                        /\ age'[e.tag] + News!Less(e).left <= OkTtl + Slow
      BY <2>2 DEF Timely
    <3>1. e.left > 0 /\ e.tag \in Tags /\ News!Less(e).left = e.left - 1
      BY <2>1, <2>2 DEF Lives
    <3>2. e.left <= OkTtl /\ age[e.tag] + e.left <= OkTtl + Slow
      BY <3>1 DEF Timely, Lives
    <3>3. age'[e.tag] <= age[e.tag] + 1 /\ age'[e.tag] \in Nat /\ age[e.tag] \in Nat
      BY <1>1, <3>1
    <3>4. QED
      BY <2>1, <3>1, <3>2, <3>3
  <2>5. QED
    BY <2>3, <2>4
<1>3. body' \in Entries(News!NoBody) /\ (~ misled => Timely(body', age'))
  BY <1>2 DEF News!LookTick
<1>4. /\ cached' \in [News!Kinds -> Entries(News!NoTag)]
      /\ ~ misled => \A k \in News!Kinds : Timely(cached'[k], age')
  <2>1. cached' = [k \in News!Kinds |-> News!Less(cached[k])]
    BY DEF News!LookTick
  <2>2. \A k \in News!Kinds : News!Less(cached[k]) \in Entries(News!NoTag)
                              /\ (~ misled => Timely(News!Less(cached[k]), age'))
    BY <1>2
  <2>3. QED
    BY <2>1, <2>2
<1>5. ASSUME NEW l \in Lookers, looker[l] # News!Idle
      PROVE  /\ News!Less(looker[l]) \in LookerStates /\ News!Less(looker[l]).left <= Slow
             /\ ~ misled => TimelyAnswer(News!Less(looker[l]), age')
  <2> DEFINE r == looker[l]
  <2>1. r.left > 0 /\ r.left <= Slow /\ r \in LookerStates /\ r # News!Idle
        /\ (~ misled => TimelyAnswer(r, age))
    BY <1>5 DEF News!LookTick
  <2> HIDE DEF r
  <2>2. CASE r \in [at : {"asking"}, kind : News!Kinds, prior : Tags \cup {News!NoBody},
                     shows : Tags \cup {News!NoTag}, left : Nat]
    <3>1. /\ r = [at |-> "asking", kind |-> r.kind, prior |-> r.prior, shows |-> r.shows,
                  left |-> r.left]
          /\ r.kind \in News!Kinds /\ r.left \in Nat
          /\ r.prior \in Tags \cup {News!NoBody} /\ r.shows \in Tags \cup {News!NoTag}
      BY <2>2
    <3>2. News!Less(r) = [at |-> "asking", kind |-> r.kind, prior |-> r.prior,
                          shows |-> r.shows, left |-> r.left - 1]
      BY <2>1, <3>1 DEF News!Less
    <3>3. News!Less(r) \in LookerStates
      BY <2>1, <3>1, <3>2 DEF LookerStates
    <3>4. QED
      BY <2>1, <3>1, <3>2, <3>3 DEF TimelyAnswer, r
  <2>3. CASE r \in [at : {"answered"}, kind : News!Kinds, got : Tags \cup {News!NoBody},
                     names : Tags \cup {News!NoTag}, left : Nat]
    <3>1. /\ r = [at |-> "answered", kind |-> r.kind, got |-> r.got, names |-> r.names,
                  left |-> r.left]
          /\ r.names \in Tags \cup {News!NoTag}
          /\ r.kind \in News!Kinds /\ r.left \in Nat /\ r.got \in Tags \cup {News!NoBody}
          /\ r.at = "answered"
      BY <2>3
    <3>2. News!Less(r) = [at |-> "answered", kind |-> r.kind, got |-> r.got,
                          names |-> r.names, left |-> r.left - 1]
      BY <2>1, <3>1 DEF News!Less
    <3>3. News!Less(r) \in LookerStates
      BY <2>1, <3>1, <3>2 DEF LookerStates
    <3>4. ~ misled /\ r.got \in Tags => age'[r.got] + (r.left - 1) <= Slow
      BY <1>1, <2>1, <3>1 DEF TimelyAnswer
    <3>5. QED
      BY <2>1, <3>1, <3>2, <3>3, <3>4 DEF TimelyAnswer, r
  <2>4. QED
    BY <2>1, <2>2, <2>3 DEF LookerStates
<1>6. looker' = [l \in Lookers |-> IF looker[l] = News!Idle THEN News!Idle
                                   ELSE News!Less(looker[l])]
  BY DEF News!LookTick
<1>7. /\ looker' \in [Lookers -> LookerStates]
      /\ \A l \in Lookers : looker'[l] # News!Idle => looker'[l].left <= Slow
      /\ ~ misled => \A l \in Lookers : TimelyAnswer(looker'[l], age')
  <2>1. News!Idle \in LookerStates /\ TimelyAnswer(News!Idle, age')
    BY DEF LookerStates, TimelyAnswer, News!Idle
  <2>2. QED
    BY <1>5, <1>6, <2>1
<1>8. told' = News!NoTag
  BY DEF News!LookTick
<1>9. QED
  BY <1>0, <1>1, <1>3, <1>4, <1>7, <1>8

\* A release that comes out, or comes back, is new.
LEMMA PublishKeeps ==
  ASSUME NewsInv, NEW t \in Tags, News!Publish(t)
  PROVE  NewsInv'
<1> USE NewsConstants DEF NewsInv, NewsTyped, NewsOrder, Caches
<1>0. UNCHANGED <<cached, body, etag, misled, looker, told>> /\ latest' = t
      /\ age' = [age EXCEPT ![t] = 0]
  BY DEF News!Publish, News!caches
<1>1. age' \in [Tags -> Nat] /\ age'[latest'] = 0 /\ \A u \in Tags : age'[u] <= age[u]
  BY <1>0
<1>2. ASSUME NEW empty, NEW e \in Entries(empty), Timely(e, age) PROVE Timely(e, age')
  BY <1>1, <1>2 DEF Timely, Lives, Entries
<1>3. ASSUME ~ misled, NEW l \in Lookers PROVE TimelyAnswer(looker[l], age')
  <2>1. looker[l] \in LookerStates /\ TimelyAnswer(looker[l], age)
    BY <1>3
  <2>2. looker[l].at = "answered" => looker[l].left \in Nat
    BY <2>1 DEF LookerStates, News!Idle
  <2>3. QED
    BY <1>1, <2>1, <2>2 DEF TimelyAnswer
<1>4. ~ misled => (told # News!NoTag => age[told] < News!Old)'
  BY <1>0, <1>1
<1>5. ~ misled => Timely(body, age') /\ \A k \in News!Kinds : Timely(cached[k], age')
  BY <1>2
<1>6. QED
  BY <1>0, <1>1, <1>3, <1>4, <1>5, Zenon

LEMMA RestartKeeps ==
  ASSUME NewsInv, News!Restarted
  PROVE  NewsInv'
<1> USE NewsConstants DEF NewsInv, NewsTyped, NewsOrder, Caches
<1>0. /\ UNCHANGED <<latest, age>> /\ told' = News!NoTag /\ etag' = News!NoTag /\ misled' = FALSE
      /\ cached' = [k \in News!Kinds |-> News!Entry(News!NoTag, 0)]
      /\ body' = News!Entry(News!NoBody, 0) /\ looker' = [l \in Lookers |-> News!Idle]
  BY DEF News!Restarted, News!hub
<1>1. cached' \in [News!Kinds -> Entries(News!NoTag)] /\ body' \in Entries(News!NoBody)
      /\ looker' \in [Lookers -> LookerStates]
  BY <1>0 DEF News!Entry, Entries, LookerStates
<1>2. Timely(body', age') /\ \A k \in News!Kinds : Timely(cached'[k], age')
  BY <1>0 DEF News!Entry, Timely, Lives
<1>3. \A l \in Lookers : looker'[l] = News!Idle /\ TimelyAnswer(looker'[l], age')
  BY <1>0 DEF TimelyAnswer, News!Idle
<1>4. QED
  BY <1>0, <1>1, <1>2, <1>3

LEMMA NewsHolds == Deploy => []NewsInv
<1>1. NewsInv /\ [DeployNext]_deployVars => NewsInv'
  <2> SUFFICES ASSUME NewsInv, [DeployNext]_deployVars PROVE NewsInv'
    OBVIOUS
  <2>1. CASE UNCHANGED <<latest, age, cached, body, etag, misled, looker, told>>
    BY <2>1, Zenon DEF NewsInv, NewsTyped, NewsOrder, Caches
  <2>2. QED
    BY <2>1, LookKeeps, AnswersKeeps, StoreKeeps, TickKeeps, PublishKeeps, RestartKeeps
       DEF DeployNext, deployVars, newsVars, News!ReleaseNext, News!CommitNext, News!Push,
       News!FetchStart, News!FetchReads, News!FetchEnd, News!FetchGivenUp, News!hub, News!caches
<1>2. QED
  BY <1>1, NewsStart, PTL DEF Deploy

-----------------------------------------------------------------------------
(* The fetch.  A head that was read grows old no faster than the ref it is  *)
(* to replace, and while the fetch is waited for, no older than the time it *)
(* has used up.                                                             *)

Fetches ==
  {News!Idle} \cup [at : {"asking", "read"}, awaited : BOOLEAN, saw : Nat, since : Nat, left : Nat]

FetchTyped ==
  /\ refs \in Nat /\ pushed \in Nat /\ refs <= pushed
  /\ refsLeft \in Nat /\ refsAge \in Nat /\ refsAge <= News!Past
  /\ fetch \in Fetches

FetchInv ==
  /\ FetchTyped
  /\ fetch.at = "asking" => fetch.since = 0
  /\ fetch.at = "read" => refs <= fetch.saw /\ fetch.saw <= pushed /\ fetch.since <= refsAge
  /\ News!Awaited => fetch.since + fetch.left <= FetchSlow
  /\ News!FreshRefs

LEMMA FetchTicks ==
  ASSUME FetchInv, News!LookTick
  PROVE  FetchInv'
<1> USE NewsConstants DEF FetchInv, FetchTyped
<1>1. /\ UNCHANGED <<refs, pushed>>
      /\ fetch' = IF fetch = News!Idle THEN News!Idle ELSE News!Later(fetch)
      /\ refsLeft' = IF refsLeft > 0 THEN refsLeft - 1 ELSE 0
      /\ refsAge' = IF refs = pushed THEN 0 ELSE News!Upto(refsAge, News!Past)
      /\ News!Awaited => fetch.left > 0
  BY DEF News!LookTick, News!hub
<1>2. refsLeft' \in Nat /\ refsAge' \in Nat /\ refsAge' <= News!Past /\ refsAge' <= refsAge + 1
  BY <1>1 DEF News!Upto
<1>3. News!FreshRefs'
  BY <1>1, <1>2 DEF News!FreshRefs
<1>4. CASE fetch = News!Idle
  <2>1. fetch' = News!Idle /\ ~ News!Awaited'
    BY <1>1, <1>4 DEF News!Awaited
  <2>2. QED
    BY <1>1, <1>2, <1>3, <2>1 DEF Fetches, News!Idle
<1>5. CASE fetch # News!Idle
  <2> DEFINE left == IF fetch.left > 0 THEN fetch.left - 1 ELSE 0
             since == IF fetch.at = "asking" \/ fetch.saw = pushed THEN 0
                      ELSE News!Upto(fetch.since, News!Past)
  <2>1. /\ fetch = [at |-> fetch.at, awaited |-> fetch.awaited, saw |-> fetch.saw,
                    since |-> fetch.since, left |-> fetch.left]
        /\ fetch.at \in {"asking", "read"} /\ fetch.awaited \in BOOLEAN /\ fetch.saw \in Nat
        /\ fetch.since \in Nat /\ fetch.left \in Nat
    BY <1>5 DEF Fetches
  <2>2. fetch' = [at |-> fetch.at, awaited |-> fetch.awaited, saw |-> fetch.saw,
                  since |-> since, left |-> left]
    <3>1. fetch' = News!Later(fetch)
      BY <1>1, <1>5
    <3>2. News!Later(fetch) = [fetch EXCEPT !.left = left, !.since = since]
      BY <2>1 DEF News!Later
    <3>3. QED
      BY <2>1, <3>1, <3>2
  <2>3. since \in Nat /\ since <= fetch.since + 1 /\ left \in Nat
    BY <2>1 DEF News!Upto
  <2>4. fetch.at = "asking" => since = 0
    OBVIOUS
  <2>5. fetch.at = "read" => since <= refsAge'
    BY <1>1, <2>1 DEF News!Upto
  <2>6. News!Awaited => since + left <= FetchSlow
    BY <1>1, <2>1, <2>3
  <2>7. fetch' \in Fetches /\ fetch' # News!Idle
    <3>1. fetch' \in [at : {"asking", "read"}, awaited : BOOLEAN, saw : Nat, since : Nat, left : Nat]
      BY <2>1, <2>2, <2>3
    <3>2. fetch'.at # "idle"
      BY <2>1, <2>2
    <3>3. QED
      BY <3>1, <3>2 DEF Fetches, News!Idle
  <2>8. News!Awaited' = News!Awaited
    BY <1>5, <2>2, <2>7 DEF News!Awaited
  <2>9. fetch'.at = fetch.at /\ fetch'.saw = fetch.saw /\ fetch'.since = since /\ fetch'.left = left
    BY <2>2
  <2> HIDE DEF since, left
  <2>10. QED
    BY <1>1, <1>2, <1>3, <2>4, <2>5, <2>6, <2>7, <2>8, <2>9
<1>6. QED
  BY <1>4, <1>5

LEMMA FetchHolds == Deploy => []FetchInv
<1>1. DeployInit => FetchInv
  <2>1. DeployInit => /\ refs = 0 /\ pushed = 0 /\ refsLeft = 0 /\ refsAge = 0
                      /\ fetch = News!Idle
    BY Zenon DEF DeployInit, News!LookInit
  <2>2. QED
    BY <2>1, NewsConstants DEF FetchInv, FetchTyped, Fetches, News!Idle, News!Awaited,
       News!FreshRefs
<1>2. FetchInv /\ [DeployNext]_deployVars => FetchInv'
  <2> SUFFICES ASSUME FetchInv, [DeployNext]_deployVars PROVE FetchInv'
    OBVIOUS
  <2> USE NewsConstants DEF FetchInv, FetchTyped
  <2>1. CASE News!FetchStart
    <3>1. /\ fetch' = [at |-> "asking", awaited |-> TRUE, saw |-> 0, since |-> 0, left |-> FetchSlow]
          /\ UNCHANGED <<refs, pushed, refsLeft, refsAge>>
      BY <2>1 DEF News!FetchStart, News!hub
    <3>2. QED
      BY <3>1 DEF Fetches, News!Awaited, News!FreshRefs
  <2>2. CASE News!FetchReads
    <3>1. /\ fetch' = [fetch EXCEPT !.at = "read", !.saw = pushed]
          /\ UNCHANGED <<refs, pushed, refsLeft, refsAge>> /\ fetch.at = "asking"
      BY <2>2 DEF News!FetchReads, News!hub
    <3>2. /\ fetch = [at |-> fetch.at, awaited |-> fetch.awaited, saw |-> fetch.saw,
                      since |-> 0, left |-> fetch.left]
          /\ fetch.awaited \in BOOLEAN /\ fetch.left \in Nat /\ fetch # News!Idle
      BY <3>1 DEF Fetches, News!Idle
    <3>3. fetch' = [at |-> "read", awaited |-> fetch.awaited, saw |-> pushed, since |-> 0,
                    left |-> fetch.left]
      BY <3>1, <3>2
    <3>4. fetch' \in Fetches
      BY <3>2, <3>3 DEF Fetches
    <3>5. News!Awaited' => News!Awaited
      BY <3>2, <3>3 DEF News!Awaited
    <3>6. QED
      BY <3>1, <3>2, <3>3, <3>4, <3>5 DEF News!FreshRefs
  <2>3. CASE News!FetchEnd
    <3>1. /\ fetch # News!Idle /\ fetch' = News!Idle /\ UNCHANGED pushed
          /\ \E ok, moved \in BOOLEAN :
               /\ (ok => moved) /\ (moved => fetch.at = "read")
               /\ refs' = IF moved THEN fetch.saw ELSE refs
               /\ refsAge' = IF moved THEN fetch.since ELSE refsAge
               /\ refsLeft' = IF ok /\ fetch.awaited THEN FetchTtl ELSE refsLeft
      BY <2>3 DEF News!FetchEnd, News!hub, News!FetchedOnlyIf
    <3>2. /\ fetch.saw \in Nat /\ fetch.since \in Nat /\ fetch.left \in Nat
      BY <3>1 DEF Fetches
    <3>3. fetch' \in Fetches /\ fetch'.at = "idle" /\ ~ News!Awaited'
      BY <3>1 DEF Fetches, News!Idle, News!Awaited
    <3>4. /\ refs' \in Nat /\ refs' <= pushed' /\ refsLeft' \in Nat /\ refsAge' \in Nat
          /\ refsAge' <= News!Past
      BY <3>1, <3>2
    <3>5. News!FreshRefs'
      BY <3>1, <3>2 DEF News!FreshRefs, News!Awaited
    <3>6. QED
      BY <3>1, <3>3, <3>4, <3>5
  <2>4. CASE News!FetchGivenUp
    <3>1. /\ fetch' = [fetch EXCEPT !.awaited = FALSE] /\ fetch # News!Idle
          /\ UNCHANGED <<refs, pushed, refsLeft, refsAge>>
      BY <2>4 DEF News!FetchGivenUp, News!hub
    <3>2. /\ fetch = [at |-> fetch.at, awaited |-> fetch.awaited, saw |-> fetch.saw,
                      since |-> fetch.since, left |-> fetch.left]
          /\ fetch.at \in {"asking", "read"} /\ fetch.saw \in Nat
          /\ fetch.since \in Nat /\ fetch.left \in Nat
      BY <3>1 DEF Fetches
    <3>3. fetch' = [at |-> fetch.at, awaited |-> FALSE, saw |-> fetch.saw,
                    since |-> fetch.since, left |-> fetch.left]
      BY <3>1, <3>2
    <3>4. fetch' \in Fetches /\ ~ News!Awaited'
      BY <3>2, <3>3 DEF Fetches, News!Awaited
    <3>5. QED
      BY <3>1, <3>2, <3>3, <3>4 DEF News!FreshRefs
  <2>5. CASE News!Push
    <3>1. pushed' = pushed + 1 /\ UNCHANGED <<refs, refsLeft, refsAge, fetch>>
      BY <2>5 DEF News!Push, News!branch
    <3>2. fetch.at = "read" => fetch.saw \in Nat
      BY DEF Fetches, News!Idle
    <3>3. QED
      BY <3>1, <3>2 DEF News!FreshRefs, News!Awaited
  <2>6. CASE News!Restarted
    <3>1. /\ refsLeft' = 0 /\ fetch' = News!Idle /\ UNCHANGED <<refs, refsAge, pushed>>
      BY <2>6 DEF News!Restarted, News!hub
    <3>2. QED
      BY <3>1 DEF News!FreshRefs, News!Awaited, Fetches, News!Idle
  <2>7. CASE UNCHANGED <<refs, pushed, refsLeft, refsAge, fetch>>
    BY <2>7 DEF News!FreshRefs, News!Awaited
  <2>8. QED
    BY <2>1, <2>2, <2>3, <2>4, <2>5, <2>6, <2>7, FetchTicks
       DEF DeployNext, deployVars, newsVars, News!ReleaseNext, News!CommitNext, News!Look,
       News!Answers, News!Store, News!Publish, News!hub, News!branch
<1>3. QED
  BY <1>1, <1>2, PTL DEF Deploy

\* Every answer of a lookup is younger than a term and a request, unless a 304
\* brought back a body that its ETag does not name; and no head of a branch is
\* shown unasked that is older than the term and the fetch before it.
THEOREM NewsStaysFresh == Deploy => []NewsIsFresh
<1>1. NewsInv /\ FetchInv => NewsIsFresh
  BY DEF NewsInv, NewsOrder, Caches, FetchInv, NewsIsFresh, News!NewsIsFresh, News!FreshTag
<1>2. QED
  BY <1>1, NewsHolds, FetchHolds, PTL

-----------------------------------------------------------------------------
(* The reinstall.  A child that began while no script given up before was   *)
(* at work is the only one that gets past its first step: what it has done  *)
(* stays done, until it is given up itself.  The transient unit has no      *)
(* credentials and dies there.                                              *)

ScriptSteps == Ended \cup {"terminal", "fetch", "sync", "env", "environment", "stop",
                                  "payload", "runtime"}
Synced == {"env", "environment", "stop", "payload", "runtime", "done"}
Installs == {"runtime", "done"}

ScriptsTyped ==
  sh \in [Where -> ScriptSteps] /\ sh["unit"] \in {"none", "terminal", "dead"}

ChildIsTrue ==
  /\ sh["orphan"] \in Ended
  /\ sh["child"] \in Synced => source = "new"
  /\ sh["child"] \in Installs => placed = "new"
  /\ sh["child"] \in {"terminal", "fetch", "sync"} => lines = {}
  /\ "copied" \in lines => source = "new"

ReinsInv == ScriptsTyped /\ (sole /\ sh["child"] # "none" => ChildIsTrue)

\* A step of a script.  The orphan takes none beside a child that is alone.
LEMMA ScriptKeeps ==
  ASSUME ReinsInv, NEW w \in Where,
         \/ Terminal(w) \/ FetchSource(w) \/ SyncSource(w)
         \/ WriteEnv(w) \/ CheckEnvironment(w) \/ StopBefore(w)
         \/ PlaceTree(w) \/ FinishInstall(w)
  PROVE  ReinsInv'
<1> USE DEF ReinsInv, ScriptsTyped, ScriptSteps, Where, Ended, Here,
            Then, Dead, ChildIsTrue, Synced, Installs
<1>1. CASE Terminal(w)
  BY <1>1 DEF bot, Terminal, Credentialed, files
<1>2. CASE FetchSource(w)
  BY <1>2 DEF bot, FetchSource, files
<1>3. CASE SyncSource(w)
  <2>1. PICK s \in {"dead", "env"} :
          /\ sh' = [sh EXCEPT ![w] = s] /\ (s = "env" => source' = "new")
          /\ w # "child" => UNCHANGED lines
          /\ "copied" \in lines' => "copied" \in lines \/ source' = "new"
    <3>1. CASE w = "child"
      BY <1>3, <3>1 DEF SyncSource, AfterPart, Says
    <3>2. CASE w # "child"
      BY <1>3, <3>2 DEF SyncSource, AfterPart, Says
    <3>3. QED
      BY <3>1, <3>2
  <2>2. sh[w] = "sync" /\ UNCHANGED <<placed, sole>>
    BY <1>3 DEF SyncSource, bot
  <2>3. CASE w = "child"
    BY <2>1, <2>2, <2>3
  <2>4. CASE w = "orphan"
    BY <2>1, <2>2, <2>4
  <2>5. QED
    BY <2>2, <2>3, <2>4
<1>4. CASE WriteEnv(w)
  BY <1>4 DEF WriteEnv, bot
<1>5. CASE CheckEnvironment(w)
  BY <1>5 DEF bot, CheckEnvironment, files
<1>6. CASE StopBefore(w)
  BY <1>6 DEF StopBefore, files
<1>7. CASE PlaceTree(w)
  <2>1. PICK s \in {"dead", "runtime"} :
          /\ sh' = [sh EXCEPT ![w] = s] /\ (s = "runtime" => placed' = source)
          /\ w # "child" => UNCHANGED lines
          /\ "copied" \in lines' => "copied" \in lines
    BY <1>7 DEF PlaceTree, Says
  <2>2. sh[w] = "payload" /\ UNCHANGED <<source, sole>>
    BY <1>7 DEF PlaceTree, bot
  <2>3. CASE w = "child"
    BY <2>1, <2>2, <2>3
  <2>4. CASE w = "orphan"
    BY <2>1, <2>2, <2>4
  <2>5. QED
    BY <2>2, <2>3, <2>4
<1>8. CASE FinishInstall(w)
  BY <1>8 DEF bot, FinishInstall, files
<1>9. QED
  BY <1>1, <1>2, <1>3, <1>4, <1>5, <1>6, <1>7, <1>8

LEMMA ReinsHolds == Deploy => []ReinsInv
<1>1. DeployInit => ReinsInv
  <2>1. DeployInit => sh = [w \in Where |-> "none"] /\ lines = {}
    BY Zenon DEF DeployInit, ReinstallInit
  <2>2. QED
    BY <2>1 DEF ReinsInv, ScriptsTyped, ChildIsTrue, ScriptSteps, Where, Ended,
       Synced, Installs
<1>2. ReinsInv /\ [DeployNext]_deployVars => ReinsInv'
  <2> SUFFICES ASSUME ReinsInv, [DeployNext]_deployVars PROVE ReinsInv'
    OBVIOUS
  <2> USE DEF ReinsInv, ScriptsTyped, ScriptSteps, Where, Ended, ChildIsTrue,
              Synced, Installs
  <2>0. ASSUME BeginChild PROVE ReinsInv'
    <3>1. sh' = [sh EXCEPT !["child"] = "terminal"] /\ lines' = {}
      BY <2>0 DEF BeginChild
    <3>2. sole' => sh["orphan"] \in Ended
      BY <2>0, Zenon DEF BeginChild
    <3>3. QED
      BY <3>1, <3>2
  <2>1. CASE Prepare
    BY <2>0, <2>1 DEF Prepare, files, child
  <2>2. CASE RequestUnit
    BY <2>0, <2>2 DEF RequestUnit, files, child
  <2>3. CASE ChildEnds
    BY <2>3 DEF ChildEnds, files
  <2>4. CASE GiveUp
    BY <2>4 DEF GiveUp, files
  <2>5. CASE RestartUnit
    BY <2>5 DEF RestartUnit, files
  <2>6. CASE UNCHANGED <<source, placed, sh, lines, sole>>
    BY <2>6
  <2>7. QED
    BY <2>1, <2>2, <2>3, <2>4, <2>5, <2>6, ScriptKeeps DEF DeployNext, deployVars, buttonVars,
       ReinstallNext, Confirmed, ProbeReinstall, QueueRestart,
       StartedByHand, files, child
<1>3. QED
  BY <1>1, <1>2, PTL DEF Deploy

\* A reinstall that answers with a script that ended well has put a whole tree in
\* place, and one that calls its copy whole has a whole copy unless its script
\* told of paths that could not be copied; both as long as no script given up
\* before was at work when this one began.
THEOREM DoneWasInstalled == Deploy => DoneIsInstalled
<1> DEFINE Installed == answer.word # "done" /\ answer'.word = "done" /\ sole
                          => source = "new" /\ placed = "new"
           Copied == ~ answer.copy_ok /\ answer'.copy_ok /\ sole
                       => source = "new" \/ "could not be copied" \in lines
<1>1. ReinsInv /\ [DeployNext]_deployVars => [Installed /\ Copied]_buttonVars
  <2> SUFFICES ASSUME ReinsInv, DeployNext PROVE Installed /\ Copied
    BY DEF deployVars, buttonVars
  <2> USE DEF Reply, Word
  <2>1. CASE ChildEnds
    <3>1. /\ sh["child"] \in {"done", "dead"}
          /\ answer' = IF sh["child"] = "done" THEN Word("done")
                       ELSE [word |-> "installer", copy_ok |-> CopyOk]
      BY <2>1 DEF ChildEnds
    <3>2. sole => ChildIsTrue
      BY <3>1 DEF ReinsInv
    <3>3. Installed
      BY <3>1, <3>2 DEF ChildIsTrue, Synced, Installs
    <3>4. Copied
      BY <3>1, <3>2 DEF ChildIsTrue, CopyOk
    <3>5. QED
      BY <3>3, <3>4
  <2>2. CASE UNCHANGED answer
    BY <2>2
  <2>3. CASE answer' \in {Word("blocked"), Word("readonly"), Word("error"),
                          Word("background"), NoAnswer}
    <3>1. answer'.word # "done" /\ answer'.copy_ok = FALSE
      BY <2>3 DEF NoAnswer
    <3>2. QED
      BY <3>1, Zenon
  <2> HIDE DEF Installed, Copied
  <2>4. CASE Prepare \/ RequestUnit
    <3>1. BeginChild => UNCHANGED answer
      BY DEF BeginChild, ToStep
    <3>2. Prepare => \/ UNCHANGED answer
                            \/ answer' \in {Word("readonly"), Word("error")}
      BY <3>1 DEF Prepare, ToStep
    <3>3. RequestUnit =>
            \/ UNCHANGED answer
            \/ answer' \in {Word("background"), Word("error")}
      BY <3>1 DEF RequestUnit
    <3>4. QED
      BY <2>2, <2>3, <2>4, <3>2, <3>3
  <2>5. CASE ProbeReinstall \/ QueueRestart \/ Confirmed
    BY <2>2, <2>3, <2>5 DEF ProbeReinstall, QueueRestart, Confirmed,
       ToStep
  <2>6. QED
    BY <2>1, <2>2, <2>4, <2>5 DEF DeployNext, buttonVars, ReinstallNext,
       GiveUp, RestartUnit, StartedByHand, Terminal,
       FetchSource, SyncSource, WriteEnv, CheckEnvironment,
       StopBefore, PlaceTree, FinishInstall, bot
<1>2. QED
  BY <1>1, ReinsHolds, PTL DEF Deploy, DoneIsInstalled, DoneIsInstalled, buttonVars,
     reinsVars

-----------------------------------------------------------------------------
(* The wizard.  It asks before it acts: until the configuration is written  *)
(* the disk is what it was, and what is written and run from then on is     *)
(* what the last answers said.  The script takes its steps in one order,    *)
(* so its step tells what it has put in place.                              *)

Builds == {"install", "update", "reinstall"}
Actions == Builds \cup {"status", "stop_unit", "start_unit", "uninstall", "nuke"}
Creds == Wizard!Good \cup {"none", "bad"}
Envs == [creds : Creds, extra : BOOLEAN]

DiskTyped ==
  /\ disk = [bot |-> disk.bot, env |-> disk.env, state |-> disk.state,
             unit |-> disk.unit, up |-> disk.up, cores |-> disk.cores]
  /\ disk.bot \in [Wizard!Places -> {"none", "old", "new"}]
  /\ disk.env \in [Wizard!Places -> Envs]
  /\ disk.state \in [Wizard!Places -> {"none", "good", "corrupt"}]

PlanTyped ==
  /\ plan = [action |-> plan.action, quick |-> plan.quick, dry |-> plan.dry, dev |-> plan.dev,
             keep |-> plan.keep, purge |-> plan.purge, creds |-> plan.creds, at |-> plan.at]
  /\ plan.action \in Actions /\ plan.creds \in Creds
  /\ plan.at \in [Wizard!Paths -> Wizard!Places]

\* What the conversation has settled, by where it is.
Settled ==
  /\ screen # "end" => said = ""
  /\ screen \notin {"run", "end"} => disk = was /\ script = Wizard!NoJob
  /\ screen \in {"menu", "mode", "config", "run"} => ~ plan.dry
  /\ screen = "mode" => plan.action = "uninstall"
  /\ screen = "paths" => plan.action \in {"install", "reinstall"}
  /\ screen \in {"credentials", "review", "config"} => plan.action \in Builds
  /\ screen \in {"review", "config"} /\ plan.action # "update" => plan.creds \in Wizard!Good
  /\ screen \in {"checks", "run"} /\ plan.action = "nuke" => plan.purge

\* The command is the one of the plan, and a command that builds takes other
\* steps than one that does not.
Building == {"purge", "environment", "credentials", "stop", "payload", "runtime", "config",
             "service"}

JobTyped ==
  /\ script = [cmd |-> script.cmd, step |-> script.step, at |-> script.at, dev |-> script.dev,
               purge |-> script.purge, tty |-> script.tty, from |-> script.from,
               creds |-> script.creds]
  /\ script.cmd = plan.action /\ script.at = plan.at /\ script.creds \in Creds
  /\ script.purge => plan.purge
  /\ IF script.cmd \in Builds THEN script.step \in Building \cup {"done", "dead"}
     ELSE script.step \in {script.cmd, "done", "dead"}

\* What the script has behind it, by its step.
JobDone ==
  /\ script.step \in {"credentials", "stop", "config"} => script.cmd # "update"
  /\ script.cmd \in {"install", "reinstall"}
       /\ script.step \in {"stop", "payload", "runtime", "config"} => script.creds \in Wizard!Good
  /\ script.step \in {"runtime", "config", "service"} \/ (script.cmd \in Builds /\ script.step = "done")
       => disk.bot[Wizard!Here("prefix")] = "new"
  /\ script.cmd \in {"install", "reinstall"} /\ script.step \in {"service", "done"}
       => disk.env[Wizard!Here("env")].creds \in Wizard!Good

JobInv == script # Wizard!NoJob => JobTyped /\ JobDone

WizardInv == DiskTyped /\ PlanTyped /\ Settled /\ JobInv /\ WizardIsTrue

\* A place in the conversation that leaves disk and script alone.
LEMMA TalkKeeps ==
  ASSUME WizardInv, UNCHANGED <<disk, was, script>>, script = Wizard!NoJob, disk = was,
         said' # "ready", PlanTyped', Settled'
  PROVE  WizardInv'
<1>1. DiskTyped' /\ JobInv'
  BY DEF WizardInv, DiskTyped, JobInv
<1>2. WizardIsTrue'
  BY DEF WizardIsTrue, Wizard!WizardIsTrue, Wizard!WordsAreTrue, Wizard!ReadyIsReady,
     Wizard!NothingLostUnasked
<1>3. QED
  BY <1>1, <1>2 DEF WizardInv

LEMMA AskActionKeeps == WizardInv /\ Wizard!AskAction => WizardInv'
<1> SUFFICES ASSUME WizardInv, Wizard!AskAction PROVE WizardInv'
  OBVIOUS
<1>0. /\ screen = "menu" /\ said = "" /\ disk = was /\ script = Wizard!NoJob /\ ~ plan.dry
      /\ UNCHANGED <<disk, was, script>> /\ PlanTyped
  BY DEF WizardInv, Settled, Wizard!AskAction, Wizard!On, Wizard!Idle, Wizard!Talk
<1> USE DEF PlanTyped, Settled, Wizard!End, Wizard!Then, Actions, Builds
<1>1. CASE Wizard!End("cancelled") /\ UNCHANGED plan
  BY <1>0, <1>1, TalkKeeps
<1>2. ASSUME NEW a \in Actions \ {"reinstall"}, plan' = [plan EXCEPT !.action = a],
             Wizard!Then(CASE a \in {"install", "update"} -> "checks"
                           [] a = "uninstall" -> "mode"
                           [] a = "nuke" -> "confirm"
                           [] OTHER -> "run")
      PROVE  WizardInv'
  <2>1. PlanTyped' /\ plan'.action = a /\ plan'.dry = plan.dry
    BY <1>0, <1>2
  <2>2. Settled'
    BY <1>0, <1>2, <2>1
  <2>3. QED
    BY <1>0, <1>2, <2>1, <2>2, TalkKeeps
<1>3. CASE /\ plan' = [plan EXCEPT !.action = "install", !.quick = FALSE]
           /\ Wizard!Then("options")
  <2>1. PlanTyped'
    BY <1>0, <1>3
  <2>2. Settled'
    BY <1>0, <1>3, <2>1
  <2>3. QED
    BY <1>0, <1>3, <2>1, <2>2, TalkKeeps
<1>4. QED
  BY <1>1, <1>2, <1>3 DEF Wizard!AskAction

LEMMA ModeKeeps == WizardInv /\ Wizard!AskUninstallMode => WizardInv'
<1> SUFFICES ASSUME WizardInv, Wizard!AskUninstallMode PROVE WizardInv'
  OBVIOUS
<1>0. /\ screen = "mode" /\ said = "" /\ disk = was /\ script = Wizard!NoJob /\ ~ plan.dry
      /\ plan.action = "uninstall" /\ UNCHANGED <<disk, was, script>> /\ PlanTyped
  BY DEF WizardInv, Settled, Wizard!AskUninstallMode, Wizard!On, Wizard!Idle, Wizard!Talk
<1> USE DEF PlanTyped, Settled, Wizard!End, Wizard!Then, Actions, Builds
<1>1. CASE Wizard!End("cancelled") /\ UNCHANGED plan
  BY <1>0, <1>1, TalkKeeps
<1>2. ASSUME NEW b \in BOOLEAN, plan' = [plan EXCEPT !.purge = b], Wizard!Then("checks")
      PROVE  WizardInv'
  <2>1. PlanTyped' /\ plan'.action = "uninstall"
    BY <1>0, <1>2
  <2>2. Settled'
    BY <1>0, <1>2, <2>1
  <2>3. QED
    BY <1>0, <1>2, <2>1, <2>2, TalkKeeps
<1>3. QED
  BY <1>1, <1>2 DEF Wizard!AskUninstallMode

LEMMA ConfirmNukeKeeps == WizardInv /\ Wizard!ConfirmNuke => WizardInv'
<1> SUFFICES ASSUME WizardInv, Wizard!ConfirmNuke PROVE WizardInv'
  OBVIOUS
<1>0. /\ screen = "confirm" /\ said = "" /\ disk = was /\ script = Wizard!NoJob
      /\ UNCHANGED <<disk, was, script>> /\ PlanTyped
  BY DEF WizardInv, Settled, Wizard!ConfirmNuke, Wizard!On, Wizard!Idle, Wizard!Talk
<1> USE DEF PlanTyped, Settled, Wizard!End, Wizard!Then, Actions, Builds
<1>1. CASE Wizard!End("cancelled") /\ UNCHANGED plan
  BY <1>0, <1>1, TalkKeeps
<1>2. ASSUME NEW b \in BOOLEAN, plan' = [plan EXCEPT !.purge = TRUE, !.dry = @ \/ b],
             Wizard!Then("checks")
      PROVE  WizardInv'
  <2>1. PlanTyped' /\ plan'.purge = TRUE
    BY <1>0, <1>2
  <2>2. Settled'
    BY <1>0, <1>2, <2>1
  <2>3. QED
    BY <1>0, <1>2, <2>1, <2>2, TalkKeeps
<1>3. QED
  BY <1>1, <1>2 DEF Wizard!ConfirmNuke

LEMMA MovedPaths ==
  ASSUME NEW at \in [Wizard!Paths -> Wizard!Places], NEW dev
  PROVE  Wizard!Moved(at, dev) \in [Wizard!Paths -> Wizard!Places]
<1>1. ASSUME NEW d \in Wizard!Paths
      PROVE  (CASE dev /\ at[d] = "system" -> "home"
                [] ~ dev /\ at[d] = "home" -> "system"
                [] OTHER -> at[d]) \in Wizard!Places
  BY DEF Wizard!Places
<1>2. QED
  BY <1>1 DEF Wizard!Moved

LEMMA OptionsKeeps == WizardInv /\ Wizard!AskOptions => WizardInv'
<1> SUFFICES ASSUME WizardInv, Wizard!AskOptions PROVE WizardInv'
  OBVIOUS
<1>0. /\ screen = "options" /\ said = "" /\ disk = was /\ script = Wizard!NoJob
      /\ UNCHANGED <<disk, was, script>> /\ PlanTyped
  BY DEF WizardInv, Settled, Wizard!AskOptions, Wizard!On, Wizard!Idle, Wizard!Talk
<1> USE DEF Wizard!End, Wizard!Then
<1>1. CASE Wizard!End("cancelled") /\ UNCHANGED plan
  BY <1>0, <1>1, TalkKeeps DEF Settled, PlanTyped
<1>2. CASE ~ (Wizard!End("cancelled") /\ UNCHANGED plan)
  <2>1. PICK dry, dev, keep, purge, anew \in BOOLEAN :
          /\ plan' = [plan EXCEPT
                        !.dry = dry, !.dev = dev, !.purge = purge, !.keep = keep /\ ~ purge,
                        !.at = IF dev = plan.dev THEN plan.at ELSE Wizard!Moved(plan.at, dev),
                        !.action = IF anew \/ purge THEN "reinstall" ELSE "install"]
          /\ Wizard!Then("paths")
    BY <1>2 DEF Wizard!AskOptions
  <2> DEFINE at == IF dev = plan.dev THEN plan.at ELSE Wizard!Moved(plan.at, dev)
             action == IF anew \/ purge THEN "reinstall" ELSE "install"
  <2>2. at \in [Wizard!Paths -> Wizard!Places] /\ action \in {"install", "reinstall"}
    BY <1>0, MovedPaths DEF PlanTyped
  <2> HIDE DEF at, action
  <2>3. plan' = [action |-> action, quick |-> plan.quick, dry |-> dry, dev |-> dev,
                 keep |-> keep /\ ~ purge, purge |-> purge, creds |-> plan.creds, at |-> at]
    BY <1>0, <2>1 DEF PlanTyped, at, action
  <2>4. PlanTyped' /\ plan'.action \in {"install", "reinstall"}
    BY <1>0, <2>2, <2>3 DEF PlanTyped, Actions, Builds
  <2>5. Settled'
    BY <1>0, <2>1, <2>4 DEF Settled, Builds
  <2>6. QED
    BY <1>0, <2>1, <2>4, <2>5, TalkKeeps
<1>3. QED
  BY <1>1, <1>2

LEMMA PathsKeeps == WizardInv /\ Wizard!AskPaths => WizardInv'
<1> SUFFICES ASSUME WizardInv, Wizard!AskPaths PROVE WizardInv'
  OBVIOUS
<1>0. /\ screen = "paths" /\ said = "" /\ disk = was /\ script = Wizard!NoJob
      /\ plan.action \in {"install", "reinstall"}
      /\ UNCHANGED <<disk, was, script>> /\ PlanTyped
  BY DEF WizardInv, Settled, Wizard!AskPaths, Wizard!On, Wizard!Idle, Wizard!Talk
<1> USE DEF PlanTyped, Settled, Wizard!End, Wizard!Then, Actions, Builds
<1>1. CASE (Wizard!End("cancelled") \/ Wizard!Then("checks")) /\ UNCHANGED plan
  BY <1>0, <1>1, TalkKeeps
<1>2. ASSUME NEW d \in Wizard!Paths, plan' = [plan EXCEPT !.at[d] = "custom"],
             Wizard!Then("checks")
      PROVE  WizardInv'
  <2>1. [plan.at EXCEPT ![d] = "custom"] \in [Wizard!Paths -> Wizard!Places]
    BY <1>0 DEF Wizard!Places
  <2>2. PlanTyped' /\ plan'.action = plan.action
    BY <1>0, <1>2, <2>1
  <2>3. Settled'
    BY <1>0, <1>2, <2>2
  <2>4. QED
    BY <1>0, <1>2, <2>2, <2>3, TalkKeeps
<1>3. QED
  BY <1>1, <1>2 DEF Wizard!AskPaths

LEMMA ChecksKeeps == WizardInv /\ Wizard!RunChecks => WizardInv'
<1> SUFFICES ASSUME WizardInv, Wizard!RunChecks PROVE WizardInv'
  OBVIOUS
<1>0. /\ screen = "checks" /\ said = "" /\ disk = was /\ script = Wizard!NoJob
      /\ (plan.action = "nuke" => plan.purge)
      /\ UNCHANGED <<disk, was, script, plan>> /\ PlanTyped
  BY DEF WizardInv, Settled, Wizard!RunChecks, Wizard!On, Wizard!Idle, Wizard!Talk
<1>1. \/ Wizard!End("stopped") \/ Wizard!End("preview")
      \/ Wizard!Then("credentials") /\ plan.action \in Builds
      \/ Wizard!Then("run") /\ ~ plan.dry
  BY DEF Wizard!RunChecks, Wizard!Real, Builds
<1>2. PlanTyped'
  BY <1>0 DEF PlanTyped
<1>3. Settled' /\ said' # "ready"
  BY <1>0, <1>1 DEF Settled, Wizard!End, Wizard!Then
<1>4. QED
  BY <1>0, <1>2, <1>3, TalkKeeps

LEMMA ReadKeeps == WizardInv /\ Wizard!ReadCredentials => WizardInv'
<1> SUFFICES ASSUME WizardInv, Wizard!ReadCredentials PROVE WizardInv'
  OBVIOUS
<1>0. /\ screen = "credentials" /\ said = "" /\ disk = was /\ script = Wizard!NoJob
      /\ plan.action \in Builds /\ UNCHANGED <<disk, was, script>> /\ PlanTyped
  BY DEF WizardInv, Settled, Wizard!ReadCredentials, Wizard!On, Wizard!Idle, Wizard!Talk
<1>1. Wizard!Known \in Creds
  <2>1. disk.env \in [Wizard!Places -> Envs] /\ plan.at["env"] \in Wizard!Places
        /\ plan.creds \in Creds
    BY DEF WizardInv, DiskTyped, PlanTyped, Wizard!Paths
  <2>2. Wizard!OnFile \in Creds
    BY <2>1 DEF Wizard!OnFile, Envs
  <2>3. QED
    BY <2>1, <2>2 DEF Wizard!Known, Creds, Wizard!Good
<1> USE DEF Wizard!End, Wizard!Then
<1>2. CASE UNCHANGED plan /\ (Wizard!End("cancelled") \/ (plan.action = "update" /\ Wizard!Then("review")))
  BY <1>0, <1>2, TalkKeeps DEF Settled, PlanTyped
<1>3. ASSUME NEW c \in Creds, plan' = [plan EXCEPT !.creds = c],
             Wizard!End("stopped") \/ (c \in Wizard!Good /\ Wizard!Then("review"))
      PROVE  WizardInv'
  <2>1. PlanTyped' /\ plan'.action = plan.action /\ plan'.creds = c
    BY <1>0, <1>3 DEF PlanTyped
  <2>2. Settled' /\ said' # "ready"
    BY <1>0, <1>3, <2>1 DEF Settled
  <2>3. QED
    BY <1>0, <2>1, <2>2, TalkKeeps
<1>4. QED
  <2>1. CASE plan.action = "update"
    BY <1>2, <2>1 DEF Wizard!ReadCredentials
  <2>2. CASE plan.action # "update"
    <3>1. \/ UNCHANGED plan /\ Wizard!End("cancelled")
          \/ \E c \in Creds : /\ plan' = [plan EXCEPT !.creds = c]
                              /\ Wizard!End("stopped") \/ (c \in Wizard!Good /\ Wizard!Then("review"))
      BY <1>1, <2>2 DEF Wizard!ReadCredentials, Creds
    <3>2. QED
      BY <1>2, <1>3, <3>1
  <2>3. QED
    BY <2>1, <2>2

LEMMA ReviewKeeps == WizardInv /\ Wizard!Review => WizardInv'
<1> SUFFICES ASSUME WizardInv, Wizard!Review PROVE WizardInv'
  OBVIOUS
<1>0. /\ screen = "review" /\ said = "" /\ disk = was /\ script = Wizard!NoJob
      /\ plan.action \in Builds /\ (plan.action # "update" => plan.creds \in Wizard!Good)
      /\ UNCHANGED <<disk, was, script>> /\ PlanTyped
  BY DEF WizardInv, Settled, Wizard!Review, Wizard!On, Wizard!Idle
<1> USE DEF PlanTyped, Settled, Wizard!End, Wizard!Then
<1>1. CASE plan' = [plan EXCEPT !.quick = FALSE] /\ Wizard!Then("options")
  <2>1. PlanTyped'
    BY <1>0, <1>1
  <2>2. Settled'
    BY <1>0, <1>1
  <2>3. QED
    BY <1>0, <1>1, <2>1, <2>2, TalkKeeps
<1>2. CASE UNCHANGED plan /\ (Wizard!End("cancelled") \/ Wizard!End("preview")
                              \/ (Wizard!Then("config") /\ ~ plan.dry))
  <2>1. PlanTyped'
    BY <1>0, <1>2
  <2>2. Settled' /\ said' # "ready"
    BY <1>0, <1>2
  <2>3. QED
    BY <1>0, <2>1, <2>2, TalkKeeps
<1>3. QED
  BY <1>1, <1>2 DEF Wizard!Review, Wizard!Real

\* What is not purged is kept.
Keeps(d) ==
  ~ plan.purge =>
    \A p \in Wizard!Places : /\ was.env[p].creds \in Wizard!Good => d.env[p].creds \in Wizard!Good
                             /\ was.state[p] = "good" => d.state[p] = "good"

LEMMA KeepsIsNothingLost == Keeps(disk) <=> Wizard!NothingLostUnasked
BY DEF Keeps, Wizard!NothingLostUnasked, Wizard!Places, Wizard!Good

LEMMA WriteKeeps == WizardInv /\ Wizard!WriteEnvFile => WizardInv'
<1> SUFFICES ASSUME WizardInv, Wizard!WriteEnvFile PROVE WizardInv'
  OBVIOUS
<1>0. /\ screen = "config" /\ said = "" /\ disk = was /\ script = Wizard!NoJob /\ ~ plan.dry
      /\ plan.action \in Builds /\ (plan.action # "update" => plan.creds \in Wizard!Good)
      /\ UNCHANGED <<plan, was, script>> /\ PlanTyped /\ DiskTyped
  BY DEF WizardInv, Settled, Wizard!WriteEnvFile, Wizard!On, Wizard!Talk
<1>1. PlanTyped' /\ JobInv' /\ Keeps(disk)
  BY <1>0 DEF PlanTyped, JobInv, Keeps
<1>2. \/ disk' = Wizard!Written(disk) /\ Wizard!Then("run")
      \/ UNCHANGED disk /\ Wizard!End("stopped")
  BY DEF Wizard!WriteEnvFile
<1>3. Settled' /\ said' \in {"", "stopped"}
  BY <1>0, <1>2 DEF Settled, Wizard!Then, Wizard!End, Builds
<1>4. DiskTyped' /\ Keeps(disk)'
  <2>1. CASE UNCHANGED disk
    BY <1>0, <1>1, <2>1 DEF DiskTyped, Keeps
  <2>2. CASE disk' = Wizard!Written(disk) /\ plan.action \notin {"install", "reinstall"}
    BY <1>0, <1>1, <2>2 DEF DiskTyped, Keeps, Wizard!Written
  <2>3. CASE disk' = Wizard!Written(disk) /\ plan.action \in {"install", "reinstall"}
    <3> DEFINE e == plan.at["env"]
               r == [creds |-> plan.creds, extra |-> Wizard!Kept]
               n == [disk.env EXCEPT ![e] = r]
    <3>1. e \in Wizard!Places /\ plan.creds \in Wizard!Good
      BY <1>0, <2>3 DEF PlanTyped, Wizard!Paths
    <3>2. Wizard!Kept \in BOOLEAN
      BY Zenon DEF Wizard!Kept
    <3>3. r \in Envs /\ r.creds = plan.creds
      BY <3>1, <3>2 DEF Envs, Creds
    <3>4. disk' = [disk EXCEPT !.env = n]
      BY <1>0, <2>3 DEF Wizard!Written, DiskTyped
    <3> HIDE DEF r, e
    <3>5. /\ n \in [Wizard!Places -> Envs] /\ n[e] = r
          /\ \A p \in Wizard!Places : p # e => n[p] = disk.env[p]
      BY <1>0, <3>1, <3>3 DEF DiskTyped
    <3> HIDE DEF n
    <3>6. DiskTyped' /\ disk'.env = n /\ disk'.state = disk.state
      BY <1>0, <3>4, <3>5 DEF DiskTyped
    <3>7. QED
      BY <1>0, <1>1, <3>1, <3>3, <3>5, <3>6 DEF Keeps
  <2>4. QED
    BY <1>2, <2>1, <2>2, <2>3
<1>5. WizardIsTrue'
  <2>1. Wizard!NothingLostUnasked'
    BY <1>4, KeepsIsNothingLost, PTL
  <2>2. QED
    BY <1>3, <2>1 DEF WizardIsTrue, Wizard!WizardIsTrue, Wizard!WordsAreTrue,
       Wizard!ReadyIsReady
<1>6. QED
  BY <1>1, <1>3, <1>4, <1>5 DEF WizardInv

\* While the script runs, what it has done and what it has kept is all there
\* is to say.
LEMMA RunKeeps ==
  ASSUME WizardInv, screen = "run", UNCHANGED <<screen, plan, was, said>>,
         DiskTyped', script # Wizard!NoJob => JobTyped' /\ JobDone', script # Wizard!NoJob,
         Keeps(disk)'
  PROVE  WizardInv'
<1>1. said = "" /\ said' = ""
  BY DEF WizardInv, Settled
<1>2. PlanTyped' /\ Settled' /\ JobInv'
  BY DEF WizardInv, Settled, PlanTyped, JobInv
<1>3. Wizard!NothingLostUnasked'
  BY KeepsIsNothingLost, PTL
<1>4. WizardIsTrue'
  BY <1>1, <1>3 DEF WizardIsTrue, Wizard!WizardIsTrue, Wizard!WordsAreTrue, Wizard!ReadyIsReady
<1>5. QED
  BY <1>2, <1>4 DEF WizardInv

LEMMA StartKeeps == WizardInv /\ Wizard!Start => WizardInv'
<1> SUFFICES ASSUME WizardInv, Wizard!Start PROVE WizardInv'
  OBVIOUS
<1>0. /\ screen = "run" /\ said = "" /\ PlanTyped /\ (plan.action = "nuke" => plan.purge)
      /\ UNCHANGED <<was, plan, screen, said, disk>>
      /\ script' = Wizard!Command(plan.action, plan.at, plan.dev,
                                  plan.purge /\ plan.action = "reinstall", host.tty, host.from)
  BY DEF WizardInv, Settled, Wizard!Start, Wizard!On, Wizard!Talk
<1>1. JobTyped'
  BY <1>0 DEF JobTyped, Wizard!Command, Wizard!First, PlanTyped, Builds, Actions, Building, Creds
<1>2. JobDone'
  BY <1>0 DEF JobDone, Wizard!Command, Wizard!First, PlanTyped, Builds, Actions
<1>3. PlanTyped' /\ DiskTyped' /\ Settled' /\ WizardIsTrue'
  BY <1>0 DEF PlanTyped, DiskTyped, WizardInv, Settled, WizardIsTrue, Wizard!WizardIsTrue,
     Wizard!WordsAreTrue, Wizard!ReadyIsReady, Wizard!NothingLostUnasked
<1>4. QED
  BY <1>1, <1>2, <1>3 DEF WizardInv, JobInv

LEMMA FinishKeeps == WizardInv /\ Wizard!Finish => WizardInv'
<1> SUFFICES ASSUME WizardInv, Wizard!Finish PROVE WizardInv'
  OBVIOUS
<1>0. /\ screen = "run" /\ PlanTyped /\ DiskTyped /\ ~ plan.dry /\ Keeps(disk)
      /\ UNCHANGED <<was, plan, script>> /\ script # Wizard!NoJob /\ JobTyped /\ JobDone
  BY KeepsIsNothingLost DEF WizardInv, Settled, JobInv, Wizard!Finish, Wizard!On, Wizard!Talk,
     WizardIsTrue, Wizard!WizardIsTrue
<1>1. \/ script.step = "dead" /\ UNCHANGED disk /\ Wizard!End("stopped")
      \/ /\ script.step = "done" /\ disk' = Wizard!Purged(disk)
         /\ \/ plan.action \in Builds /\ Wizard!End("ready")
            \/ plan.action \notin Builds /\ (Wizard!End("removed") \/ Wizard!End("finished"))
  <2>1. script.step \in {"done", "dead"}
    BY <1>0 DEF Wizard!Finish, Wizard!Running
  <2>2. CASE script.step = "dead"
    BY <2>2 DEF Wizard!Finish
  <2>3. CASE script.step = "done" /\ plan.action \in Builds
    BY <1>0, <2>3 DEF Wizard!Finish, Wizard!Real, Builds
  <2>4. CASE script.step = "done" /\ plan.action \in {"nuke", "uninstall"}
    BY <1>0, <2>4 DEF Wizard!Finish, Wizard!Real, Builds
  <2>5. CASE script.step = "done" /\ plan.action \notin Builds \cup {"nuke", "uninstall"}
    BY <1>0, <2>5 DEF Wizard!Finish, Wizard!Real, Builds
  <2>6. QED
    BY <2>1, <2>2, <2>3, <2>4, <2>5
<1>2. PlanTyped' /\ Settled'
  BY <1>0, <1>1 DEF PlanTyped, Settled, Wizard!End
<1>3. plan.action \in Builds => UNCHANGED disk
  BY <1>1 DEF Wizard!Purged, Builds
<1>4. DiskTyped' /\ Keeps(disk)' /\ disk'.bot = disk.bot
  <2>1. CASE UNCHANGED disk
    BY <1>0, <2>1 DEF DiskTyped, Keeps
  <2>2. CASE plan.action = "uninstall" /\ plan.purge /\ disk' = Wizard!Purged(disk)
    <3>1. plan.at["state"] \in Wizard!Places /\ plan.at["env"] \in Wizard!Places
      BY <1>0 DEF PlanTyped, Wizard!Paths
    <3>2. Wizard!NoEnv \in Envs
      BY DEF Wizard!NoEnv, Envs, Creds
    <3>3. QED
      BY <1>0, <2>2, <3>1, <3>2 DEF DiskTyped, Keeps, Wizard!Purged
  <2>3. QED
    BY <1>1, <2>1, <2>2 DEF Wizard!Purged
<1>5. JobInv'
  <2>1. plan.action \in Builds => JobTyped' /\ JobDone'
    BY <1>0, <1>3 DEF JobTyped, JobDone, Wizard!Here, Wizard!Place
  <2>2. plan.action \notin Builds => JobTyped' /\ JobDone'
    BY <1>0, <1>4 DEF JobTyped, JobDone, Wizard!Here, Wizard!Place, Builds
  <2>3. QED
    BY <2>1, <2>2 DEF JobInv
<1>6. WizardIsTrue'
  <2>1. Wizard!NothingLostUnasked'
    BY <1>4, KeepsIsNothingLost, PTL
  <2>2. said' \notin {"cancelled", "preview"}
    BY <1>1 DEF Wizard!End
  <2>3. Wizard!ReadyIsReady'
    <3> SUFFICES ASSUME said' = "ready"
                 PROVE  /\ disk.bot[Wizard!Here("prefix")] = "new"
                        /\ plan.action # "update" =>
                             disk.env[Wizard!Here("env")].creds \in Wizard!Good
      BY <1>0, <1>1, <1>3 DEF Wizard!ReadyIsReady, Wizard!Here, Wizard!Place, Wizard!End
    <3>1. plan.action \in Builds /\ script.step = "done" /\ script.cmd = plan.action
      BY <1>0, <1>1 DEF Wizard!End, JobTyped
    <3>2. QED
      BY <1>0, <3>1 DEF JobDone, Builds
  <2>4. QED
    BY <2>1, <2>2, <2>3 DEF WizardIsTrue, Wizard!WizardIsTrue, Wizard!WordsAreTrue
<1>7. QED
  BY <1>2, <1>4, <1>5, <1>6 DEF WizardInv

LEMMA InterruptKeeps == WizardInv /\ Wizard!Interrupt => WizardInv'
<1> SUFFICES ASSUME WizardInv, Wizard!Interrupt PROVE WizardInv'
  OBVIOUS
<1>1. UNCHANGED <<was, plan, disk, script>> /\ screen' = "end" /\ said' = "interrupted"
  BY DEF Wizard!Interrupt, Wizard!End, Wizard!Talk
<1>2. DiskTyped' /\ PlanTyped' /\ Settled' /\ JobInv'
  BY <1>1 DEF WizardInv, DiskTyped, PlanTyped, Settled, JobInv, JobTyped, JobDone, Wizard!Here,
     Wizard!Place
<1>3. WizardIsTrue'
  BY <1>1 DEF WizardInv, WizardIsTrue, Wizard!WizardIsTrue, Wizard!WordsAreTrue,
     Wizard!ReadyIsReady, Wizard!NothingLostUnasked
<1>4. QED
  BY <1>2, <1>3 DEF WizardInv

\* Where the script looks is one of the places, and its steps do not move it.
LEMMA HereIsAPlace ==
  ASSUME PlanTyped, JobTyped, NEW d \in Wizard!Paths
  PROVE  Wizard!Here(d) \in Wizard!Places
BY DEF PlanTyped, JobTyped, Wizard!Here, Wizard!Place, Wizard!Places

\* A step of the script to another one of the same command.
LEMMA StepTo ==
  ASSUME JobTyped, UNCHANGED plan, NEW s, Wizard!To(s),
         IF script.cmd \in Builds THEN s \in Building \cup {"done", "dead"}
         ELSE s \in {"done", "dead"}
  PROVE  /\ JobTyped' /\ script'.step = s /\ script'.cmd = script.cmd
         /\ script'.creds = script.creds
         /\ \A d \in Wizard!Paths : Wizard!Here(d)' = Wizard!Here(d)
<1>1. script' = [script EXCEPT !.step = s]
  BY DEF Wizard!To
<1>2. script' = [cmd |-> script.cmd, step |-> s, at |-> script.at, dev |-> script.dev,
                 purge |-> script.purge, tty |-> script.tty, from |-> script.from,
                 creds |-> script.creds]
  BY <1>1 DEF JobTyped
<1>3. QED
  BY <1>2 DEF JobTyped, Wizard!Here, Wizard!Place

\* What a state file becomes when it is healed.
LEMMA HealedKeeps ==
  ASSUME DiskTyped, Keeps(disk), NEW t \in Wizard!Places
  PROVE  LET d == [disk EXCEPT !.state[t] = "good"]
         IN  /\ Keeps(d) /\ d.bot = disk.bot /\ d.env = disk.env
             /\ d = [bot |-> disk.bot, env |-> disk.env, state |-> [disk.state EXCEPT ![t] = "good"],
                     unit |-> disk.unit, up |-> disk.up, cores |-> disk.cores]
             /\ d.state \in [Wizard!Places -> {"none", "good", "corrupt"}]
BY DEF DiskTyped, Keeps

LEMMA InstallerKeeps == WizardInv /\ Wizard!InstallerStep => WizardInv'
<1> SUFFICES ASSUME WizardInv, Wizard!InstallerStep PROVE WizardInv'
  OBVIOUS
<1>0. /\ screen = "run" /\ PlanTyped /\ DiskTyped /\ Keeps(disk)
      /\ UNCHANGED <<screen, was, plan, said>> /\ Wizard!InstallerNext
      /\ (plan.action = "nuke" => plan.purge)
  BY KeepsIsNothingLost DEF WizardInv, Settled, Wizard!InstallerStep, Wizard!On,
     WizardIsTrue, Wizard!WizardIsTrue
<1>1. script # Wizard!NoJob /\ JobTyped /\ JobDone
  BY <1>0 DEF WizardInv, JobInv, Wizard!InstallerNext, Wizard!At, Wizard!Purge,
     Wizard!Environment, Wizard!Credentials, Wizard!Stop, Wizard!Payload, Wizard!Runtime,
     Wizard!Config, Wizard!Service, Wizard!Uninstall, Wizard!Nuke, Wizard!Control
<1> DEFINE p == Wizard!Here("prefix")
           e == Wizard!Here("env")
           t == Wizard!Here("state")
<1>2. p \in Wizard!Places /\ e \in Wizard!Places /\ t \in Wizard!Places
  BY <1>0, <1>1, HereIsAPlace DEF Wizard!Paths
<1>3. Wizard!NoEnv \in Envs
  BY DEF Wizard!NoEnv, Envs, Creds
<1>4. /\ script.step \in Building => script.cmd \in Builds
      /\ script.step \notin Building \cup {"done", "dead"} => script.cmd = script.step
      /\ script.cmd \in Actions /\ script.cmd = plan.action
  BY <1>0, <1>1 DEF JobTyped, PlanTyped, Actions, Builds, Building
<1>5. SUFFICES DiskTyped' /\ JobTyped' /\ JobDone' /\ Keeps(disk)'
  BY <1>0, <1>1, RunKeeps
<1> USE DEF Wizard!At
<1>6. CASE UNCHANGED disk /\ Wizard!To("dead")
  <2>1. JobTyped' /\ script'.step = "dead"
    BY <1>0, <1>1, <1>6, StepTo
  <2>2. QED
    BY <1>0, <1>6, <2>1 DEF DiskTyped, Keeps, JobDone
<1>7. CASE Wizard!Purge
  <2>1. Wizard!To("environment") /\ script.cmd \in Builds
    BY <1>4, <1>7 DEF Wizard!Purge, Building
  <2>2. JobTyped' /\ script'.step = "environment"
    BY <1>0, <1>1, <2>1, StepTo DEF Building
  <2>3. /\ disk'.bot = [disk.bot EXCEPT ![p] = "none"]
        /\ disk'.env = [disk.env EXCEPT ![e] = IF script.purge THEN Wizard!NoEnv ELSE disk.env[e]]
        /\ disk'.state = [disk.state EXCEPT ![t] = IF script.purge THEN "none" ELSE disk.state[t]]
        /\ disk' = [bot |-> disk'.bot, env |-> disk'.env, state |-> disk'.state,
                    unit |-> disk'.unit, up |-> disk'.up, cores |-> disk'.cores]
    BY <1>0, <1>7 DEF Wizard!Purge, Wizard!Wiped, DiskTyped
  <2>4. DiskTyped'
    BY <1>0, <1>2, <1>3, <2>3 DEF DiskTyped
  <2>5. Keeps(disk)'
    BY <1>0, <1>1, <1>2, <2>3 DEF Keeps, DiskTyped, JobTyped
  <2>6. QED
    BY <2>2, <2>4, <2>5 DEF JobDone
<1>8. CASE Wizard!Environment
  <2>1. script.cmd \in Builds
    BY <1>4, <1>8 DEF Wizard!Environment, Building
  <2>2. CASE script.cmd = "update" /\ disk' = Wizard!Healed(disk) /\ Wizard!To("payload")
    <3>1. JobTyped' /\ script'.step = "payload" /\ script'.cmd = "update"
      BY <1>0, <1>1, <2>1, <2>2, StepTo DEF Building
    <3>2. DiskTyped' /\ Keeps(disk)'
      BY <1>0, <1>2, <2>2 DEF Wizard!Healed, DiskTyped, Keeps
    <3>3. QED
      BY <3>1, <3>2 DEF JobDone
  <2>3. CASE /\ script.cmd # "update" /\ Wizard!To("credentials")
             /\ disk' = [disk EXCEPT !.state[t] = IF disk.state[t] = "none" THEN "good"
                                                  ELSE disk.state[t]]
    <3>1. JobTyped' /\ script'.step = "credentials" /\ script'.cmd = script.cmd
      BY <1>0, <1>1, <2>1, <2>3, StepTo DEF Building
    <3>2. DiskTyped' /\ Keeps(disk)'
      BY <1>0, <1>2, <2>3 DEF DiskTyped, Keeps
    <3>3. QED
      BY <2>3, <3>1, <3>2 DEF JobDone
  <2>4. QED
    BY <1>6, <1>8, <2>2, <2>3 DEF Wizard!Environment, Wizard!Die
<1>9. CASE Wizard!Credentials
  <2>1. script.cmd \in Builds
    BY <1>4, <1>9 DEF Wizard!Credentials, Building
  <2>2. CASE \E c \in Wizard!Accepted : script' = [script EXCEPT !.step = "stop", !.creds = c]
    <3>1. PICK c \in Wizard!Accepted : script' = [script EXCEPT !.step = "stop", !.creds = c]
      BY <2>2
    <3>2. c \in Wizard!Good /\ c \in Creds
      BY DEF Wizard!Accepted, Creds
    <3>3. JobTyped' /\ script'.step = "stop" /\ script'.creds = c /\ script'.cmd = script.cmd
      BY <1>0, <1>1, <2>1, <3>1, <3>2 DEF JobTyped, Building
    <3>4. UNCHANGED disk
      BY <1>9 DEF Wizard!Credentials
    <3>5. script.cmd # "update"
      BY <1>1, <1>9 DEF JobDone, Wizard!Credentials
    <3>6. QED
      BY <1>0, <3>2, <3>3, <3>4, <3>5 DEF JobDone, DiskTyped, Keeps
  <2>3. QED
    BY <1>6, <1>9, <2>2 DEF Wizard!Credentials, Wizard!Die
<1>10. CASE Wizard!Stop
  <2>1. script.cmd \in Builds /\ script.step = "stop" /\ Wizard!To("payload")
    BY <1>4, <1>10 DEF Wizard!Stop, Building
  <2>2. /\ JobTyped' /\ script'.step = "payload" /\ script'.cmd = script.cmd
        /\ script'.creds = script.creds
    BY <1>0, <1>1, <2>1, StepTo DEF Building
  <2>3. DiskTyped' /\ Keeps(disk)'
    <3>1. disk' = [bot |-> disk.bot, env |-> disk.env, state |-> [disk.state EXCEPT ![t] = "good"],
                   unit |-> disk.unit, up |-> disk'.up, cores |-> disk.cores]
      BY <1>0, <1>10 DEF Wizard!Stop, Wizard!Healed, DiskTyped
    <3>2. QED
      BY <1>0, <1>2, <3>1 DEF DiskTyped, Keeps
  <2>4. QED
    BY <1>1, <2>1, <2>2, <2>3 DEF JobDone
<1>11. CASE Wizard!Payload
  <2>1. script.cmd \in Builds /\ script.step = "payload"
    BY <1>4, <1>11 DEF Wizard!Payload, Building
  <2>2. PICK v \in {"none", "new"} :
          /\ disk' = [disk EXCEPT !.bot[p] = v]
          /\ \/ Wizard!To("dead")
             \/ v = "new" /\ Wizard!To("runtime")
    BY <1>11 DEF Wizard!Payload, Wizard!Die
  <2>3. /\ disk'.bot = [disk.bot EXCEPT ![p] = v] /\ disk'.env = disk.env
        /\ disk'.state = disk.state
        /\ disk' = [bot |-> disk'.bot, env |-> disk'.env, state |-> disk'.state,
                    unit |-> disk'.unit, up |-> disk'.up, cores |-> disk'.cores]
    BY <1>0, <2>2 DEF DiskTyped
  <2>4. DiskTyped' /\ Keeps(disk)'
    BY <1>0, <1>2, <2>3 DEF DiskTyped, Keeps
  <2>5. PICK s \in {"dead", "runtime"} : Wizard!To(s) /\ (s = "runtime" => v = "new")
    BY <2>2
  <2>6. /\ JobTyped' /\ script'.step = s /\ script'.cmd = script.cmd
        /\ script'.creds = script.creds /\ Wizard!Here("prefix")' = p
    BY <1>0, <1>1, <2>1, <2>5, StepTo DEF Building, Wizard!Paths
  <2>7. s = "runtime" => disk'.bot[p] = "new"
    BY <1>0, <1>2, <2>3, <2>5 DEF DiskTyped
  <2>8. JobDone'
    BY <1>1, <2>1, <2>6, <2>7 DEF JobDone
  <2>9. QED
    BY <2>4, <2>6, <2>8
<1>12. CASE Wizard!Runtime
  <2>1. script.cmd \in Builds /\ script.step = "runtime" /\ UNCHANGED disk
    BY <1>4, <1>12 DEF Wizard!Runtime, Building
  <2>2. CASE Wizard!To(IF script.cmd = "update" THEN "service" ELSE "config")
    <3> DEFINE s == IF script.cmd = "update" THEN "service" ELSE "config"
    <3>1. /\ JobTyped' /\ script'.step = s /\ script'.cmd = script.cmd
          /\ script'.creds = script.creds /\ Wizard!Here("prefix")' = p
      BY <1>0, <1>1, <2>1, <2>2, StepTo DEF Building, Wizard!Paths
    <3>2. JobDone'
      BY <1>1, <2>1, <3>1 DEF JobDone
    <3>3. QED
      BY <1>0, <2>1, <3>1, <3>2 DEF DiskTyped, Keeps
  <2>3. QED
    BY <1>6, <1>12, <2>1, <2>2 DEF Wizard!Runtime, Wizard!Die
<1>13. CASE Wizard!Config
  <2>1. script.cmd \in Builds /\ script.step = "config" /\ Wizard!To("service")
    BY <1>4, <1>13 DEF Wizard!Config, Building
  <2>2. script.cmd \in {"install", "reinstall"} /\ script.creds \in Wizard!Good
    BY <1>1, <2>1 DEF JobDone, Builds
  <2>3. /\ JobTyped' /\ script'.step = "service" /\ script'.cmd = script.cmd
        /\ Wizard!Here("prefix")' = p /\ Wizard!Here("env")' = e
    BY <1>0, <1>1, <2>1, StepTo DEF Building, Wizard!Paths
  <2> DEFINE r == [creds |-> script.creds, extra |-> disk.env[e].extra]
  <2>4. disk' = [disk EXCEPT !.env = [disk.env EXCEPT ![e] = r]]
    <3>1. disk.env[e] \in Envs
      BY <1>0, <1>2 DEF DiskTyped
    <3>2. [disk.env[e] EXCEPT !.creds = script.creds] = r
      BY <3>1 DEF Envs
    <3>3. disk' = [disk EXCEPT !.env[e].creds = script.creds]
      BY <1>13 DEF Wizard!Config
    <3> HIDE DEF r, e
    <3>4. QED
      BY <1>0, <1>2, <3>2, <3>3 DEF DiskTyped
  <2>5. r \in Envs /\ r.creds \in Wizard!Good
    BY <1>0, <1>2, <2>2 DEF DiskTyped, Envs, Creds
  <2> HIDE DEF r
  <2>6. /\ disk'.bot = disk.bot /\ disk'.env = [disk.env EXCEPT ![e] = r]
        /\ disk'.state = disk.state
        /\ disk' = [bot |-> disk'.bot, env |-> disk'.env, state |-> disk'.state,
                    unit |-> disk'.unit, up |-> disk'.up, cores |-> disk'.cores]
    BY <1>0, <2>4 DEF DiskTyped
  <2>7. DiskTyped' /\ Keeps(disk)' /\ disk'.env[e] = r
    BY <1>0, <1>2, <2>5, <2>6 DEF DiskTyped, Keeps
  <2>8. JobDone'
    BY <1>1, <2>1, <2>2, <2>3, <2>5, <2>6, <2>7 DEF JobDone
  <2>9. QED
    BY <2>3, <2>7, <2>8
<1>14. CASE Wizard!Service
  <2>1. script.cmd \in Builds /\ script.step = "service"
    BY <1>4, <1>14 DEF Wizard!Service, Building
  <2>2. PICK s \in {"done", "dead"} : Wizard!To(s)
    BY <1>14 DEF Wizard!Service, Wizard!Die
  <2>3. /\ disk'.bot = disk.bot /\ disk'.env = disk.env /\ disk'.state = disk.state
        /\ disk' = [bot |-> disk'.bot, env |-> disk'.env, state |-> disk'.state,
                    unit |-> disk'.unit, up |-> disk'.up, cores |-> disk'.cores]
    <3>1. CASE UNCHANGED disk
      BY <1>0, <3>1 DEF DiskTyped
    <3>2. CASE \E x : disk' = [disk EXCEPT !.unit = TRUE, !.up = x]
      BY <1>0, <3>2 DEF DiskTyped
    <3>3. QED
      BY <1>14, <3>1, <3>2 DEF Wizard!Service
  <2>4. /\ JobTyped' /\ script'.step = s /\ script'.cmd = script.cmd
        /\ Wizard!Here("prefix")' = p /\ Wizard!Here("env")' = e
    BY <1>0, <1>1, <2>1, <2>2, StepTo DEF Wizard!Paths
  <2>5. JobDone'
    BY <1>1, <2>1, <2>3, <2>4 DEF JobDone
  <2>6. DiskTyped' /\ Keeps(disk)'
    BY <1>0, <2>3 DEF DiskTyped, Keeps
  <2>7. QED
    BY <2>4, <2>5, <2>6
<1>15. ASSUME script.cmd \notin Builds, NEW s \in {"done", "dead"}, Wizard!To(s),
              DiskTyped', Keeps(disk)'
       PROVE  DiskTyped' /\ JobTyped' /\ JobDone' /\ Keeps(disk)'
  <2>1. JobTyped' /\ script'.step = s /\ script'.cmd = script.cmd
    BY <1>0, <1>1, <1>15, StepTo
  <2>2. QED
    BY <1>15, <2>1 DEF JobDone, Builds
<1>16. CASE Wizard!Uninstall
  <2>1. script.cmd \notin Builds /\ Wizard!To("done")
    BY <1>4, <1>16 DEF Wizard!Uninstall, Building, Builds
  <2>2. /\ disk'.bot = [disk.bot EXCEPT ![p] = "none"] /\ disk'.env = disk.env
        /\ disk'.state = disk.state
        /\ disk' = [bot |-> disk'.bot, env |-> disk'.env, state |-> disk'.state,
                    unit |-> disk'.unit, up |-> disk'.up, cores |-> disk'.cores]
    BY <1>0, <1>16 DEF Wizard!Uninstall, DiskTyped
  <2>3. DiskTyped' /\ Keeps(disk)'
    BY <1>0, <1>2, <2>2 DEF DiskTyped, Keeps
  <2>4. QED
    BY <1>15, <2>1, <2>3
<1>17. CASE Wizard!Nuke
  <2>1. script.cmd \notin Builds /\ Wizard!To("done") /\ plan.purge
    BY <1>0, <1>4, <1>17 DEF Wizard!Nuke, Building, Builds
  <2>2. /\ disk'.bot = [disk.bot EXCEPT ![p] = "none"]
        /\ disk'.env = [disk.env EXCEPT ![e] = Wizard!NoEnv]
        /\ disk'.state = [disk.state EXCEPT ![t] = "none"]
        /\ disk' = [bot |-> disk'.bot, env |-> disk'.env, state |-> disk'.state,
                    unit |-> disk'.unit, up |-> disk'.up, cores |-> disk'.cores]
    BY <1>0, <1>17 DEF Wizard!Nuke, DiskTyped
  <2>3. DiskTyped' /\ Keeps(disk)'
    BY <1>0, <1>2, <1>3, <2>1, <2>2 DEF DiskTyped, Keeps
  <2>4. QED
    BY <1>15, <2>1, <2>3
<1>18. CASE Wizard!Control
  <2>1. script.cmd \notin Builds
    BY <1>4, <1>18 DEF Wizard!Control, Building, Builds
  <2>2. PICK s \in {"done", "dead"} : Wizard!To(s)
    BY <1>18 DEF Wizard!Control, Wizard!Die
  <2>3. /\ disk'.bot = disk.bot /\ disk'.env = disk.env /\ disk'.state = disk.state
        /\ disk' = [bot |-> disk'.bot, env |-> disk'.env, state |-> disk'.state,
                    unit |-> disk'.unit, up |-> disk'.up, cores |-> disk'.cores]
    <3>1. CASE UNCHANGED disk
      BY <1>0, <3>1 DEF DiskTyped
    <3>2. CASE \E x : disk' = [disk EXCEPT !.up = x]
      BY <1>0, <3>2 DEF DiskTyped
    <3>3. QED
      BY <1>18, <3>1, <3>2 DEF Wizard!Control
  <2>4. DiskTyped' /\ Keeps(disk)'
    BY <1>0, <2>3 DEF DiskTyped, Keeps
  <2>5. QED
    BY <1>15, <2>1, <2>2, <2>4
<1>19. QED
  BY <1>0, <1>7, <1>8, <1>9, <1>10, <1>11, <1>12, <1>13, <1>14, <1>16, <1>17, <1>18
     DEF Wizard!InstallerNext

LEMMA WizardStart == DeployInit => WizardInv
<1> SUFFICES ASSUME DeployInit PROVE WizardInv
  OBVIOUS
<1>1. Wizard!SetupInit
  BY Zenon DEF DeployInit
<1>2. DiskTyped
  <2>1. /\ Wizard!NoEnv \in Envs
        /\ \A c \in {"old", "bad"} : [creds |-> c, extra |-> TRUE] \in Envs
    BY DEF Wizard!NoEnv, Envs, Creds, Wizard!Good
  <2>2. /\ Wizard!Fresh.bot \in [Wizard!Places -> {"none", "old", "new"}]
        /\ Wizard!Fresh.env \in [Wizard!Places -> Envs]
        /\ Wizard!Fresh.state \in [Wizard!Places -> {"none", "good", "corrupt"}]
        /\ Wizard!Fresh = [bot |-> Wizard!Fresh.bot, env |-> Wizard!Fresh.env,
                           state |-> Wizard!Fresh.state, unit |-> Wizard!Fresh.unit,
                           up |-> Wizard!Fresh.up, cores |-> Wizard!Fresh.cores]
    BY <2>1 DEF Wizard!Fresh
  <2>3. CASE disk = Wizard!Fresh
    BY <2>2, <2>3 DEF DiskTyped
  <2>4. ASSUME NEW p \in Wizard!Places, NEW c \in {"old", "bad"}, NEW st \in {"good", "corrupt"},
               disk = Wizard!Installed(p, c, st)
        PROVE  DiskTyped
    <3> DEFINE r == [creds |-> c, extra |-> TRUE]
    <3>1. r \in Envs
      BY <2>1
    <3> HIDE DEF r
    <3>2. /\ disk.bot = [Wizard!Fresh.bot EXCEPT ![p] = "old"]
          /\ disk.env = [Wizard!Fresh.env EXCEPT ![p] = r]
          /\ disk.state = [Wizard!Fresh.state EXCEPT ![p] = st]
          /\ disk = [bot |-> disk.bot, env |-> disk.env, state |-> disk.state,
                     unit |-> disk.unit, up |-> disk.up, cores |-> disk.cores]
      BY <2>4 DEF Wizard!Installed, r
    <3>3. QED
      BY <2>2, <3>1, <3>2 DEF DiskTyped
  <2>5. "system" \in Wizard!Places /\ "home" \in Wizard!Places
    BY DEF Wizard!Places
  <2>6. QED
    BY <1>1, <2>3, <2>4, <2>5 DEF Wizard!SetupInit
<1>3. PlanTyped
  BY <1>1 DEF Wizard!SetupInit, PlanTyped, Actions, Builds, Creds, Wizard!Places
<1>4. Settled /\ JobInv
  BY <1>1 DEF Wizard!SetupInit, Settled, JobInv
<1>5. WizardIsTrue
  BY <1>1 DEF Wizard!SetupInit, WizardIsTrue, Wizard!WizardIsTrue, Wizard!WordsAreTrue,
     Wizard!ReadyIsReady, Wizard!NothingLostUnasked
<1>6. QED
  BY <1>2, <1>3, <1>4, <1>5 DEF WizardInv

LEMMA WizardHolds == Deploy => []WizardInv
<1>1. WizardInv /\ [DeployNext]_deployVars => WizardInv'
  <2> SUFFICES ASSUME WizardInv, [DeployNext]_deployVars PROVE WizardInv'
    OBVIOUS
  <2>1. CASE UNCHANGED wizardVars
    <3>1. UNCHANGED <<screen, plan, was, said, disk, script>>
      BY <2>1 DEF wizardVars
    <3>2. DiskTyped' /\ PlanTyped' /\ Settled'
      BY <3>1 DEF WizardInv, DiskTyped, PlanTyped, Settled
    <3>3. JobInv'
      BY <3>1 DEF WizardInv, JobInv, JobTyped, JobDone, Wizard!Here, Wizard!Place
    <3>4. WizardIsTrue'
      BY <3>1, Zenon DEF WizardInv, WizardIsTrue, Wizard!WizardIsTrue, Wizard!WordsAreTrue,
         Wizard!ReadyIsReady, Wizard!NothingLostUnasked, Wizard!Here, Wizard!Place
    <3>5. QED
      BY <3>2, <3>3, <3>4 DEF WizardInv
  <2>2. QED
    BY <2>1, AskActionKeeps, ModeKeeps, ConfirmNukeKeeps, OptionsKeeps, PathsKeeps, ChecksKeeps,
       ReadKeeps, ReviewKeeps, WriteKeeps, StartKeeps, InstallerKeeps, FinishKeeps,
       InterruptKeeps DEF DeployNext, deployVars, Wizard!SetupNext
<1>2. QED
  BY <1>1, WizardStart, PTL DEF Deploy

\* What the wizard says is so, and it loses nothing it was not asked to take.
THEOREM WizardStaysTrue == Deploy => []WizardIsTrue
<1>1. WizardInv => WizardIsTrue
  BY DEF WizardInv
<1>2. QED
  BY <1>1, WizardHolds, PTL
=============================================================================
