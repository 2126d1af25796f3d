------------------------------- MODULE MCService --------------------------------
(***************************************************************************)
(* What a process serves and who it serves, for TLC: accounts with their   *)
(* sessions and invitations, the limits of attempts, the readiness report, *)
(* and the calls to AI providers.  As in MCDocuments a behaviour is about  *)
(* one of them: a request is done with its limits before it locks anything *)
(* of an account, readiness reads neither, and calls are made outside of   *)
(* transactions.                                                           *)
(***************************************************************************)
EXTENDS Accounts, AttemptLimits, Readiness, ProviderCalls, TLC

CONSTANT Parts  \* what the run is about

ASSUME PartsAssumption ==
  Parts \subseteq {"accounts", "limits", "ready", "calls"}

VARIABLE part

mcvars == <<accountVars, limitVars, readyVars, callVars, part>>

Rest(p, v) == IF part = p THEN TRUE ELSE UNCHANGED v

MCInit ==
  /\ part \in Parts
  /\ AccountsInit /\ LimitsInit /\ ReadyInit /\ CallsInit
  /\ part # "accounts" => users = [u \in Users |-> NoUserRow]

MCNext ==
  /\ \/ part = "accounts" /\ AccountsNext
     \/ part = "limits" /\ LimitsNext
     \/ part = "ready" /\ ReadyNext
     \/ part = "calls" /\ CallsNext
  /\ Rest("accounts", accountVars) /\ Rest("limits", limitVars) /\ Rest("ready", readyVars)
  /\ Rest("calls", callVars)
  /\ UNCHANGED part

MCSpec == MCInit /\ [][MCNext]_mcvars

Symmetry == Permutations(Sessions) \cup Permutations(Requests)

\* Intervals and limits: for one loop three intervals are the longer time, for the other
\* twice the limit.
Pace == [l \in Loops |-> 1]
Limit == [l \in Loops |-> IF l = "recovery" THEN 1 ELSE 2]

\* Types of the variables of the part a behaviour is about.
ServiceTypeOK ==
  CASE part = "accounts" -> AccountsTypeOK
    [] part = "limits" -> LimitsTypeOK
    [] part = "ready" -> ReadyTypeOK
    [] part = "calls" -> CallsTypeOK

=============================================================================
