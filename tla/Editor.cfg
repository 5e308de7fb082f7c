SPECIFICATION EditorSpec
CONSTANTS
  start = start
  review = review
  finish = finish
  spare = spare
  f1 = f1
  f2 = f2
  s1 = s1
  s2 = s2
  t1 = t1
  st1 = st1
  st2 = st2
  a1 = a1
  k1 = k1
  k2 = k2
  None = None
  NodeId = {start, review, finish, spare}
  SignalId = {s1, s2}
  FormId = {f1, f2}
  TopicId = {t1}
  StageId = {st1, st2}
  ActionId = {a1}
  Key = {k1, k2}
  FinishId = finish
  Initial <- StoredReview
  Imports <- Drafts
  Conditions <- SomeConditions
  RequireApplied = TRUE
  HistoryLimit = 2
  AddKinds = {"Wait"}
  Places = {9}
  NodeFields = {"id", "next"}
  HostFields = {"waits"}
  ProcessFields = {"stages"}
  PanelKinds = {"signals"}
  MaxVersion = 2
  Activities <- SomeActivities
  MaxPending = 1
INVARIANTS
  EditorInv
  UndoReachesTheStart
  GraphIsExact
PROPERTIES
  NoEditStrands
  PublishedIsRunnable
CHECK_DEADLOCK FALSE
