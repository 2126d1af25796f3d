------------------------------ MODULE MCBackground ------------------------------
(***************************************************************************)
(* What must eventually happen in the background, for TLC: deletions,      *)
(* wake-ups of their loop, rebuilds of embeddings, and calls to providers. *)
(* As in MCDocuments a behaviour is about one of them.                     *)
(***************************************************************************)
EXTENDS StorageOutbox, RebuildEmbeddings, DeletionLoop, ProviderCalls

CONSTANT Parts  \* what the run is about

VARIABLE part

mcvars == <<vars, rebuildVars, loopVars, callVars, part>>

Rest(p, v) == IF part = p THEN TRUE ELSE UNCHANGED v

\* A part that rests has nothing to do, so its fairness asks for nothing.  Which scope
\* and configuration come first makes no difference.
MCInit ==
  /\ part \in Parts
  /\ Init /\ RebuildInit /\ CallsInit
  /\ IF part = "loop" THEN LoopInit
     ELSE /\ deletes = [r \in Deletes |-> "idle"]
          /\ loopAt = "gone" /\ event = FALSE
          /\ batch = "none" /\ seen = FALSE
          /\ report = [started |-> FALSE, failures |-> 0]
          /\ missed = {}
  /\ part # "outbox" => objects = {}
  /\ part # "rebuild" => stored = NoConfig
  /\ conf = (CHOOSE s \in Scopes : TRUE) /\ config.is = (CHOOSE c \in Configs : TRUE)

MCNext ==
  /\ \/ part = "outbox" /\ Next
     \/ part = "rebuild" /\ RebuildNext
     \/ part = "loop" /\ LoopNext
     \/ part = "calls" /\ CallsNext
  /\ Rest("outbox", vars) /\ Rest("rebuild", rebuildVars)
  /\ Rest("loop", loopVars) /\ Rest("calls", callVars)
  /\ UNCHANGED part

MCSpec == /\ MCInit /\ [][MCNext]_mcvars
          /\ Fairness /\ RebuildFairness /\ LoopFairness /\ CallsFairness

=============================================================================
