------------------------------ MODULE MCDocuments -------------------------------
(***************************************************************************)
(* What is kept of documents, for TLC: their files, chunks, vectors and    *)
(* tags, the conversations about them, and the loop that deletes files.    *)
(*                                                                         *)
(* The parts share no variable; what one does to another is an action of   *)
(* either (indexing replaces the chunks a rebuild is embedding).  So each  *)
(* behaviour is about one part, chosen at the start, while the others rest *)
(* in one initial state: the state spaces add up instead of multiplying,   *)
(* and a property is checked in the behaviours of its part.                *)
(***************************************************************************)
EXTENDS StorageOutbox, RebuildEmbeddings, ChatTurns, DocumentTags, TextChunks, DeletionLoop, TLC

CONSTANT Parts  \* what the run is about

ASSUME PartsAssumption ==
  Parts \subseteq {"outbox", "rebuild", "chat", "tags", "chunks", "loop"}

VARIABLE part

mcvars == <<vars, rebuildVars, chatVars, tagVars, chunkVars, loopVars, part>>

Rest(p, v) == IF part = p THEN TRUE ELSE UNCHANGED v

MCInit ==
  /\ part \in Parts
  /\ Init /\ RebuildInit /\ ChatInit /\ TagsInit /\ ChunksInit /\ LoopInit
  /\ part # "outbox" => objects = {}
  /\ part # "rebuild" => stored = NoConfig

MCNext ==
  /\ \/ part = "outbox" /\ Next
     \/ part = "rebuild" /\ RebuildNext
     \/ part = "chat" /\ ChatNext
     \/ part = "tags" /\ TagsNext
     \/ part = "chunks" /\ ChunksNext
     \/ part = "loop" /\ LoopNext
  /\ Rest("outbox", vars) /\ Rest("rebuild", rebuildVars) /\ Rest("chat", chatVars)
  /\ Rest("tags", tagVars) /\ Rest("chunks", chunkVars) /\ Rest("loop", loopVars)
  /\ UNCHANGED part

MCSpec == MCInit /\ [][MCNext]_mcvars

\* The parts share model values: three interchangeable ones, and two times two.
CONSTANTS Three, Two, Pair
Symmetry == Permutations(Three) \cup Permutations(Two) \cup Permutations(Pair)

\* Types of the variables of the part a behaviour is about.
DocumentsTypeOK ==
  CASE part = "outbox" -> TypeOK
    [] part = "rebuild" -> RebuildTypeOK
    [] part = "chat" -> ChatTypeOK
    [] part = "tags" -> TagsTypeOK
    [] part = "chunks" -> ChunksTypeOK
    [] part = "loop" -> DeletionLoopTypeOK

=============================================================================
