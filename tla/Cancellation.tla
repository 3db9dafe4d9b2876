----------------------------- MODULE Cancellation -----------------------------
(***************************************************************************)
(* A generation's control word as the rest of the program thinks of it,    *)
(* and as module Domain uses it: activate(), cancel() and finish() each    *)
(* take effect in one step; the cancel() that takes the cancellation, and  *)
(* no other, still owes the token its signal.  try_acquire() answers       *)
(* whether the generation could be acquired at some moment of the call.    *)
(***************************************************************************)
EXTENDS Naturals

CONSTANT Threads

VARIABLES
  phase,         \* what the word says
  fires,         \* how often the token was signalled
  owner,         \* what activate() told the registering thread
  calls,         \* who has called cancel(), owes the signal, asks or was answered
  accepting,     \* the domain has not been told to stop
  been           \* what try_acquire() would have been right to answer so far

cancelVars == <<phase, fires, owner, calls, accepting, been>>

Acquirable == {"Starting", "Active"}

CancelInit ==
  /\ phase = "Starting" /\ fires = 0 /\ owner = "new"
  /\ calls = [t \in Threads |-> "none"]
  /\ accepting = TRUE /\ been = [t \in Threads |-> {}]

Goes(t, from, to) == calls[t] \in from /\ calls' = [calls EXCEPT ![t] = to]

Activates ==
  /\ owner = "new"
  /\ phase' = IF phase = "Starting" THEN "Active" ELSE phase
  /\ owner' = IF phase = "Starting" THEN "registered" ELSE "refused"
  /\ UNCHANGED <<fires, calls, accepting>>

Finishes ==
  /\ owner = "registered" /\ phase # "Finished" /\ phase' = "Finished"
  /\ UNCHANGED <<fires, owner, calls, accepting>>

Stops == accepting /\ accepting' = FALSE /\ UNCHANGED <<phase, fires, owner, calls>>

Free == {"none", "granted", "denied"}
Calls(t) == Goes(t, Free, "called") /\ UNCHANGED <<phase, fires, owner, accepting>>

\* cancel() takes effect: it takes the cancellation, or finds nothing to take.
Takes(t) == phase \in Acquirable /\ phase' = "Cancelling" /\ Goes(t, {"called"}, "owes")
Yields(t) == phase \notin Acquirable /\ UNCHANGED phase /\ Goes(t, {"called"}, "none")
Cancels(t) == (Takes(t) \/ Yields(t)) /\ UNCHANGED <<fires, owner, accepting>>

Signals(t) ==
  Goes(t, {"owes"}, "none") /\ fires' = fires + 1 /\ UNCHANGED <<phase, owner, accepting>>

Asks(t) == Goes(t, Free, "asking") /\ UNCHANGED <<phase, fires, owner, accepting>>

Answers(t, b) ==
  /\ b \in been[t] /\ Goes(t, {"asking"}, IF b THEN "granted" ELSE "denied")
  /\ UNCHANGED <<phase, fires, owner, accepting>>

\* The answers that each moment of the call allows.
Allows(t) == IF calls[t] = "asking" THEN been[t] ELSE {}
Records ==
  been' = [t \in Threads |-> IF calls'[t] # "asking" THEN {}
                             ELSE Allows(t) \cup {accepting' /\ phase' = "Active"}]

CancelNext ==
  /\ \/ Activates \/ Finishes \/ Stops
     \/ \E t \in Threads : \/ Calls(t) \/ Cancels(t) \/ Signals(t) \/ Asks(t)
                          \/ \E b \in BOOLEAN : Answers(t, b)
  /\ Records

CancelSpec == CancelInit /\ [][CancelNext]_cancelVars
=============================================================================
