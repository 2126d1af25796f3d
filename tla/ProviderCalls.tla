------------------------------ MODULE ProviderCalls ------------------------------
(***************************************************************************)
(* The HTTP calls to AI providers and the limiter they share: request      *)
(* threads and workers take a ticket, wait on one condition variable until *)
(* theirs is the oldest and a slot is free, and give the slot back when    *)
(* the response is read.  A step is one section under the lock of the      *)
(* condition; threads that were notified get the lock in any order.        *)
(***************************************************************************)
EXTENDS Naturals, Sequences, FiniteSets, SequencesExt

CONSTANTS
  Calls,      \* threads that call a provider, again and again
  CallLimit   \* ai_provider_max_concurrent_requests

ASSUME CallLimitAssumption == CallLimit \in Nat \ {0}

VARIABLES
  callAt,     \* [Calls -> where the thread is]
  tickets,    \* _waiters
  inFlight    \* _active_requests

callVars == <<callAt, tickets, inFlight>>

-----------------------------------------------------------------------------
\* asleep in wait; woken by notify_all and without the lock yet; open: it has a slot and
\* an HTTP stream; read: the response has been read or given up.
CallPoints == {"idle", "asleep", "woken", "open", "read"}
CallGoes(c, point) == callAt' = [callAt EXCEPT ![c] = point]

\* c leaves reserve, with notify_all.
WakeOthers(c) ==
  callAt' = [d \in Calls |-> IF d = c THEN "idle"
                             ELSE IF callAt[d] = "asleep" THEN "woken" ELSE callAt[d]]

\* The loop of reserve, for a thread that has the lock.
Admit(c, queue) ==
  IF inFlight < CallLimit /\ Head(queue) = c
  THEN /\ tickets' = Tail(queue) /\ inFlight' = inFlight + 1
       /\ CallGoes(c, "open")
  ELSE /\ tickets' = queue /\ inFlight' = inFlight
       /\ CallGoes(c, "asleep")

TakeTicket(c) ==
  /\ callAt[c] = "idle"
  /\ Admit(c, Append(tickets, c))

LookAgain(c) ==
  /\ callAt[c] = "woken"
  /\ Admit(c, tickets)

\* Another exception than its wake-up ends the wait, once the thread has the lock again:
\* its ticket goes, wherever it is in the queue, and the others look again.
LeaveQueue(c) ==
  /\ callAt[c] = "woken"
  /\ \E i \in 1 .. Len(tickets) : tickets[i] = c /\ tickets' = RemoveAt(tickets, i)
  /\ WakeOthers(c)
  /\ UNCHANGED inFlight

\* post_json_limited and _iter_openai_stream: an answer, an HTTP error, a timeout, a
\* response above the limit, or a stream whose reader has gone; all leave through the
\* same finally.
ReadResponse(c) ==
  /\ callAt[c] = "open"
  /\ CallGoes(c, "read")
  /\ UNCHANGED <<tickets, inFlight>>

\* Mutant of GiveBack: notify in place of notify_all.
GiveBackNotifiesOne(c) ==
  /\ callAt[c] = "read"
  /\ inFlight' = inFlight - 1
  /\ IF \E d \in Calls : callAt[d] = "asleep"
     THEN \E d \in Calls : /\ callAt[d] = "asleep"
                           /\ callAt' = [callAt EXCEPT ![c] = "idle", ![d] = "woken"]
     ELSE CallGoes(c, "idle")
  /\ UNCHANGED tickets

GiveBack(c) ==
  /\ callAt[c] = "read"
  /\ inFlight' = inFlight - 1
  /\ WakeOthers(c)
  /\ UNCHANGED tickets

CallsInit ==
  /\ callAt = [c \in Calls |-> "idle"]
  /\ tickets = <<>> /\ inFlight = 0

CallsNext ==
  \E c \in Calls : TakeTicket(c) \/ LookAgain(c) \/ LeaveQueue(c) \/ ReadResponse(c) \/ GiveBack(c)

CallsSpec == CallsInit /\ [][CallsNext]_callVars

\* Threads run, and every HTTP call ends: it has a timeout, and a stream is closed when
\* its reader goes.
CallsFairness == \A c \in Calls :
  WF_callVars(LookAgain(c)) /\ WF_callVars(ReadResponse(c)) /\ WF_callVars(GiveBack(c))

-----------------------------------------------------------------------------
(* Properties.                                                             *)

\* Types of every variable; the count, within the limit, is that of the calls with a
\* slot, and tickets are those of the threads in reserve.
CallsTypeOK ==
  /\ callAt \in [Calls -> CallPoints] /\ tickets \in Seq(Calls) /\ inFlight \in 0 .. CallLimit
  /\ inFlight = Cardinality({c \in Calls : callAt[c] \in {"open", "read"}})
  /\ {c \in Calls : callAt[c] \in {"asleep", "woken"}} = {tickets[i] : i \in 1 .. Len(tickets)}

\* Foreground and background share one queue and nobody starves in it: a call that waits
\* gets its slot, or an exception takes it out of the queue.
CallsServed == \A c \in Calls : callAt[c] = "asleep" ~> callAt[c] \in {"open", "idle"}

=============================================================================
