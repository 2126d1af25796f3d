SPECIFICATION MCSpec
CHECK_DEADLOCK FALSE
CONSTANTS
  Parts = {"chat"}
  Three = {x1, x2, x3}
  Two = {y1, y2}
  Pair = {z1, z2}
  Scopes = {y1, y2}
  Keys = {k1}
  Workers = {z1, z2}
  Tokens = {x1, x2, x3}
  NoToken = NoToken
  Batch = 2
  MaxFaults = 2
  Configs = {x1, x2, x3}
  NoConfig = NoConfig
  Docs = {d1}
  Uploads = {d1}
  Rebuilds = {y1, y2}
  Kinds = {"all"}
  Executions = {z1, z2}
  NoExecution = NoExecution
  NoDoc = NoDoc
  NoRebuild = NoRebuild
  MaxChanges = 1
  MaxTroubles = 1
  Conversations = {c1}
  NoConversation = NoConversation
  Questions = {x1, x2, x3}
  PageSize = 1
  TaggedDocs = {f1}
  Names = {z1, z2}
  NoName = NoName
  MaxTags = 2
  Edits = {y1, y2}
  Merges = {y1, y2}
  TagLimit = 2
  NoTaggedDoc = NoTaggedDoc
  ChunkSize = 6
  Overlap = 2
  MinChunk = 3
  MaxChunk = 8
  CutWindow = 2
  MarkerLength = 2
  StoreBatch = 2
  Lengths = {1, 5, 8, 11}
  MaxText = 13
  Deletes = {y1, y2}
  MaxFailures = 2
PROPERTY QuestionsKept
