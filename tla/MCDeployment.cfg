CONSTANTS
  c1 = c1
  c2 = c2
  bad = bad
  r1 = r1
  r2 = r2
  Mixed = Mixed
  Down = Down
  MaxOrphans = 2
  Commits <- MCCommits
  Broken <- MCBroken
  Reqs <- MCReqs
  NeedsOf <- MCNeedsOf
  MaxBack = 1
  MaxRuns = 2
  MaxKeys = 3
  v1 = v1
  plain = plain
  t1 = t1
  t2 = t2
  Tags <- MCTags
  Plain <- MCPlain
  Lookers <- MCLookers
  OkTtl = 2
  FailTtl = 1
  Slow = 2
  FetchTtl = 1
  FetchSlow = 2
  MaxNews = 2
  MaxReinstalls = 3
  s1 = s1
  s2 = s2
  Scripts <- MCScripts
  Page = Page
  NoDigest = NoDigest
  NoScreen = NoScreen
  MaxQuirks = 3
SPECIFICATION Deploy
INVARIANTS WizardIsTrue FormsAreTrue NewsIsFresh
PROPERTIES UpdateIsSafe BootIsSound DoneIsInstalled FetchedIsConfirmed
CHECK_DEADLOCK FALSE
