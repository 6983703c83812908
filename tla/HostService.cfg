SPECIFICATION HostSpec
CONSTANTS
  j1 = j1
  j2 = j2
  j3 = j3
  j4 = j4
  r1 = r1
  r2 = r2
  Jobs <- MCJobs
  Roots <- MCRoots
  RootOf <- MCRootOf
  Callers = {c1, c2}
  RequestKeys = {k1}
  Keys = {j1, j2, j3}
  Calls = {c1, c2}
  Texts = {t1, t2}
  Folders = {f1}
  None = None
  Agents = {c1, c2}
  Requests = {direct, hosted}
  HostRequests = {hosted}
  CallIds = {t1, t2}
  MaxFound = 2
  MaxLeases = 1
  Nobody = Nobody
  direct = direct
  hosted = hosted
  Nil = Nil
  c1 = c1
  c2 = c2
  t1 = t1
  t2 = t2
  MaxEvidence = 1
  MaxSubmissions = 2
  MaxRevisions = 2
SYMMETRY Symmetry
INVARIANTS
  OneJobPerKey
  FolderIsOneJobs
  EffectOnce
  TranscriptIsReadable
  TurnKeepsItsReview
  NoTurnAskedTwice
  AnswersAreKept
PROPERTIES
  ChildOfOpenReview
