SPECIFICATION PartsSpec
CONSTANTS
  r1=r1 r2=r2 admin=admin author=author other=other t1=t1 t2=t2 u1=u1 u2=u2
  c1=c1 c2=c2 c3=c3 v1=v1 v2=v2 k1=k1 k2=k2 i1=i1 i2=i2 i3=i3
  \* Pagination
  Total=5 PostedAt <- Times Overlap=1 Lateness=4 PageSize=2 BatchSize=2 MaxDeletes=1
  \* FilloutClient
  Callers={c1,c2,c3} SecondTicks=4 ServerLimit=5 Jitter=1 MaxRetries=1 Hints={0} MaxAhead=4
  \* Allowlist
  Requests={r1,r2} Emails={admin,author,other} Static={admin} TablePage <- PageOf
  TTL=2 ErrTTL=1 FetchTimeout=1 MaxTime=4 MaxEdits=1
  \* AuthFlow
  Tabs={t1,t2} Users={u1,u2} PendingTTL=0 SessionTTL=1 MaxLogins=2 MaxGrants=2 MaxClock=1
  \* KeyCache
  Verifiers={v1,v2} Kids={k1,k2} Tokens <- IDTokens Moment=11 Skew=1 MaxRotations=1
  \* Transform
  Questions <- FormQuestions Stray="q3" ValuesOf <- AnswerClasses Subs <- AllSubs
  Picks={"score","email","doing_well","tags","custom_fields","ignore","gone"}
  Quoted="s1" DedupChunk=2
  \* Migrate
  Instances={i1,i2,i3} Migrations=3 MaxDeaths=3
SYMMETRY Alike
INVARIANTS
  PartsTypeOK
  MissedWasLateOrShifted BatchHasNoRepeats
  WindowRespected RetryWaitsOutTheSecond
  CacheIsRecent FetchesAreSpaced
  SessionWasEarned ActsAsShown
  PublishedKeyIsFound
  OnlyUnfitAnswersAreDropped StampsFindTheirRecords
  SchemaIsWhole
CHECK_DEADLOCK FALSE
