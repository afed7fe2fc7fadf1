CONSTANTS
    r1 = r1  r2 = r2
    s1 = s1  s2 = s2  s3 = s3  s4 = s4  i1 = i1  g1 = g1  g2 = g2  e1 = e1  q1 = q1  q2 = q2
    c1 = c1  c2 = c2  b1 = b1  n1 = n1  n2 = n2  w1 = w1
    t1 = t1  t2 = t2  t3 = t3  t4 = t4  vt = vt  k1 = k1  k2 = k2  k3 = k3
    description = description  term1 = term1  term2 = term2  rule = rule  metric = metric
    p1 = p1  p2 = p2  p3 = p3  x1 = x1  ask = ask
    Replicas = {r1, r2}
    Threads <- MCThreads
    NoThread = NoThread
    Tables = {t1, t2, t3, t4, vt}
    Columns = {k1, k2, k3}
    TableOf <- MCTableOf
    Links <- MCLinks
    Deployments <- MCServices
    Stewards = {s1, s2, s3, s4}
    Inferers = {i1}
    Keys = {description, term1, term2, rule, metric}
    NoKey = NoKey
    KindOf <- MCKindOf
    RefsOf <- MCRefsOf
    DepsOf <- MCDepsOf
    Payloads = {p1, p2, p3}
    NoPayload = NoPayload
    NamesOf <- MCNamesOf
    Remit <- MCRemit
    Phrases <- MCPhrases
    Ingesters = {g1, g2, q1, q2}
    Explorers = {e1}
    Snapshots <- MCSnapshots
    Scripts <- MCScripts
    Registrars = {q1, q2}
    VirtualTables <- MCVirtual
    Curators = {c1, c2}
    Questions = {x1}
    NoQuestion = NoQuestion
    Requests = {ask}
    NoRequest = NoRequest
    Corrections <- MCCorrections
    Correctors = {n1, n2}
    Requesters = {w1}
    Mappings <- MCMappings
    NoRef = NoRef
    NewKey <- MCNewKey
    Readers = {b1}
    Asked <- MCAsked
    KeyColumns = {}
    JoinsOn <- MCJoins
    Ordinal <- MCOrdinal
    MaxSeeds = 2
    MaxObjects = 3
    Hops = 1
    TargetColumns = 1
    MaxExamples = 1
SPECIFICATION Spec
CHECK_DEADLOCK FALSE
INVARIANTS
    TypeOK
    DefinitionsStand
    DefinitionsFollowCatalogs
    OneActiveExample
    CandidatesAreEarned
    ContextHangsTogether
    ExpansionIsNearest
    MatchedMeaningIsKept
    PendingTicketsAreInvalidated
PROPERTIES
    AuthorityHolds
