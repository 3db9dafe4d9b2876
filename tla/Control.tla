------------------------------- MODULE Control -------------------------------
(***************************************************************************)
(* The control word of one generation (src/src/lifecycle.rs): an atomic    *)
(* phase and a cancellation token, shared by the thread that registers the *)
(* generation, the supervising task that finishes it, and every thread     *)
(* that calls cancel(): the one that drops the last lease and the ones     *)
(* that shut the domain down.  Each action is one atomic access, so cancel *)
(* is its load, its compare-exchange loop and the token it then fires, and *)
(* Domain::try_acquire (src/src/domain.rs) is its four loads of the        *)
(* domain's phase and of the control's.                                    *)
(***************************************************************************)
EXTENDS Naturals

CONSTANT Threads      \* the threads that may call cancel() and try_acquire()

VARIABLES
  phase,              \* Control::phase
  fires,              \* how often the token has been cancelled by cancel()
  owner,              \* the registering thread's view: did activate() succeed?
  pc,                 \* where each thread is inside cancel() or try_acquire()
  seen,               \* the local `current` of each thread's cancel()
  accepting,          \* Domain::phase is Running
  been                \* history: what a thread inside try_acquire() could have found

vars == <<phase, fires, owner, pc, seen, accepting, been>>

Phases == {"Starting", "Active", "Cancelling", "Finished"}
Cancellable == {"Starting", "Active"}

Asking == {"accepting", "active", "acceptingAgain", "activeAgain"}
Free == {"idle", "returned", "granted", "denied"}

TypeOK ==
  /\ phase \in Phases
  /\ fires \in 0..1
  /\ owner \in {"new", "registered", "refused"}
  /\ pc \in [Threads -> Free \cup Asking \cup {"loop", "fire"}]
  /\ seen \in [Threads -> Phases]
  /\ accepting \in BOOLEAN
  /\ been \in [Threads -> SUBSET BOOLEAN]

Init ==
  /\ phase = "Starting"
  /\ fires = 0
  /\ owner = "new"
  /\ pc = [t \in Threads |-> "idle"]
  /\ seen = [t \in Threads |-> "Starting"]
  /\ accepting = TRUE
  /\ been = [t \in Threads |-> {}]

-----------------------------------------------------------------------------
\* Mutant of Activate: a plain store, which overwrites a cancellation.
ActivateByStore ==
  /\ owner = "new"
  /\ phase' = "Active"
  /\ owner' = "registered"
  /\ UNCHANGED <<fires, pc, seen, accepting>>

\* activate(): one compare-exchange from Starting; it fails if cancel() won.
Activate ==
  /\ owner = "new"
  /\ \/ /\ phase = "Starting"
        /\ phase' = "Active"
        /\ owner' = "registered"
     \/ /\ phase # "Starting"
        /\ owner' = "refused"
        /\ UNCHANGED phase
  /\ UNCHANGED <<fires, pc, seen, accepting>>

\* finish(): an unconditional store by the supervising task, which exists only
\* for a generation that was registered and stores once.
Finish ==
  /\ owner = "registered"
  /\ phase # "Finished"
  /\ phase' = "Finished"
  /\ UNCHANGED <<fires, owner, pc, seen, accepting>>

\* cancel() is called, again or for the first time: the initial load.
Load(t) ==
  /\ pc[t] \in Free
  /\ pc' = [pc EXCEPT ![t] = "loop"]
  /\ seen' = [seen EXCEPT ![t] = phase]
  /\ UNCHANGED <<phase, fires, owner, accepting>>

\* The observed phase is past cancellation: nothing to do.
GiveUp(t) ==
  /\ pc[t] = "loop" /\ seen[t] \notin Cancellable
  /\ pc' = [pc EXCEPT ![t] = "returned"]
  /\ UNCHANGED <<phase, fires, owner, seen, accepting>>

\* Mutant of Exchange: the phase is stored without being compared.
ExchangeByStore(t) ==
  /\ pc[t] = "loop" /\ seen[t] \in Cancellable
  /\ phase' = "Cancelling"
  /\ pc' = [pc EXCEPT ![t] = "fire"]
  /\ UNCHANGED <<fires, owner, seen, accepting>>

\* Mutant of Exchange: the token is left to somebody else.
ExchangeWithoutToken(t) ==
  /\ pc[t] = "loop" /\ seen[t] \in Cancellable /\ phase = seen[t]
  /\ phase' = "Cancelling"
  /\ pc' = [pc EXCEPT ![t] = "returned"]
  /\ UNCHANGED <<fires, owner, seen, accepting>>

\* The compare-exchange finds the phase it expected and takes the cancellation.
Exchange(t) ==
  /\ pc[t] = "loop" /\ seen[t] \in Cancellable /\ phase = seen[t]
  /\ phase' = "Cancelling"
  /\ pc' = [pc EXCEPT ![t] = "fire"]
  /\ UNCHANGED <<fires, owner, seen, accepting>>

\* Mutant of Retry: one attempt only, as if the weak exchange could not fail.
RetryNever(t) ==
  /\ pc[t] = "loop" /\ seen[t] \in Cancellable
  /\ pc' = [pc EXCEPT ![t] = "returned"]
  /\ UNCHANGED <<phase, fires, owner, seen, accepting>>

\* Mutant of Retry: `current` keeps its stale value.
RetryStale(t) ==
  /\ pc[t] = "loop" /\ seen[t] \in Cancellable
  /\ UNCHANGED vars

\* The exchange fails and reports what it observed.  It may fail spuriously
\* (compare_exchange_weak): then it observes the value it expected.
Retry(t) ==
  /\ pc[t] = "loop" /\ seen[t] \in Cancellable
  /\ seen' = [seen EXCEPT ![t] = phase]
  /\ UNCHANGED <<phase, fires, owner, pc, accepting>>

\* The winner cancels the token, outside the exchange.
Fire(t) ==
  /\ pc[t] = "fire"
  /\ fires' = fires + 1
  /\ pc' = [pc EXCEPT ![t] = "returned"]
  /\ UNCHANGED <<phase, owner, seen, accepting>>

Cancel(t) == GiveUp(t) \/ Exchange(t) \/ Retry(t) \/ Fire(t)

\* Domain::cancel, or the last step of task_finished: the phase leaves Running.
StopAccepting ==
  /\ accepting
  /\ accepting' = FALSE
  /\ UNCHANGED <<phase, fires, owner, pc, seen>>

\* try_acquire() is called.
Ask(t) ==
  /\ pc[t] \in Free
  /\ pc' = [pc EXCEPT ![t] = "accepting"]
  /\ UNCHANGED <<phase, fires, owner, seen, accepting>>

After == [accepting |-> "active", active |-> "acceptingAgain",
          acceptingAgain |-> "activeAgain", activeAgain |-> "granted"]

\* Mutant of Found: the domain is asked once only.
FoundOnce(t) ==
  IF pc[t] = "accepting" THEN accepting
  ELSE IF pc[t] = "acceptingAgain" THEN TRUE ELSE phase = "Active"

\* One load of try_acquire(): is_accepting() or is_active(), twice each.
Found(t) == IF pc[t] \in {"accepting", "acceptingAgain"} THEN accepting ELSE phase = "Active"

\* The first that fails denies.
Look(t) ==
  /\ pc[t] \in Asking
  /\ pc' = [pc EXCEPT ![t] = IF Found(t) THEN After[pc[t]] ELSE "denied"]
  /\ UNCHANGED <<phase, fires, owner, seen, accepting>>

\* Can the generation be acquired?  The history takes down what the answer was at
\* each moment of a thread's try_acquire().
Open == accepting /\ phase = "Active"
Note ==
  been' = [t \in Threads |-> IF pc'[t] \notin Asking THEN {}
                             ELSE (IF pc[t] \in Asking THEN been[t] ELSE {}) \cup {Open'}]

Move ==
  \/ Activate
  \/ Finish
  \/ StopAccepting
  \/ \E t \in Threads : Load(t) \/ Cancel(t) \/ Ask(t) \/ Look(t)

Next == Move /\ Note

\* A thread inside cancel() keeps running.  Spurious failures change nothing,
\* so weak fairness only says that they do not go on for ever.
Spec == Init /\ [][Next]_vars /\ \A t \in Threads : WF_vars(Cancel(t) /\ Note)

-----------------------------------------------------------------------------
\* README guarantee 4, "exactly once": however many threads race to cancel a
\* generation, at most one of them takes the cancellation and it fires the
\* token once; and a cancellation that was taken is not lost: its token has
\* been fired or the thread that will fire it is known.
CancelledExactlyOnce ==
  /\ \A t, u \in Threads : pc[t] = "fire" /\ pc[u] = "fire" => t = u
  /\ (\E t \in Threads : pc[t] = "fire") => fires = 0
  /\ phase = "Cancelling" => fires = 1 \/ \E t \in Threads : pc[t] = "fire"

\* When any call of cancel() returns, the generation can no longer be acquired,
\* even if that call lost every race: Domain::cancel relies on it.
ReturnMeansNotAcquirable ==
  (\E t \in Threads : pc[t] = "returned") => phase \notin Cancellable

\* A generation never goes back: a cancelled one is not revived by a late
\* activate(), a finished one not by a late cancel().
Rank == [Starting |-> 0, Active |-> 1, Cancelling |-> 2, Finished |-> 3]
PhaseForward == [][Rank[phase'] >= Rank[phase]]_vars

\* A cancellation that was taken reaches the token.
CancellationIsSignalled == phase = "Cancelling" ~> fires = 1

\* No call of cancel() loops for ever, whatever the interference.
CancelReturns == \A t \in Threads : pc[t] = "loop" ~> pc[t] = "returned"

\* What a thread inside cancel() still has to do, as its caller sees it.
CallOf(t) ==
  CASE pc[t] = "loop" -> "called"
    [] pc[t] = "fire" -> "owes"
    [] pc[t] \in Asking -> "asking"
    [] pc[t] \in {"granted", "denied"} -> pc[t]
    [] OTHER -> "none"

Atomic == INSTANCE Cancellation WITH calls <- [t \in Threads |-> CallOf(t)]

\* The load, the weak compare-exchanges and their retries are one atomic step of
\* each call, whatever the other threads do in between (module Cancellation):
\* the exchange that succeeds, or the observation that there is nothing to take.
\* And the four loads of try_acquire() answer what one look at both phases would
\* have answered at some moment of the call.  So module Domain may use cancel(),
\* and module Acquisition try_acquire(), as a single step (lifecycle.rs:46,
\* domain.rs:303).
ControlIsAtomic == Atomic!CancelSpec

\* The inductive strengthening: whoever won the exchange left the phase past
\* cancellation, a thread that saw it there saw the truth for good, and only
\* activate() itself, which runs once, makes the phase Active.
SeenInv ==
  /\ \A t \in Threads : \/ pc[t] = "fire"
                        \/ pc[t] = "loop" /\ seen[t] \notin Cancellable
                        => phase \notin Cancellable
  /\ fires = 1 => phase \notin Cancellable
  /\ owner = "new" => phase # "Active"

\* What a thread inside try_acquire() has found: once it has seen the control
\* active, the domain accepted then if it still does.
AskInv ==
  \A t \in Threads :
    /\ IF pc[t] \in Asking THEN Open \in been[t] ELSE been[t] = {}
    /\ pc[t] = "acceptingAgain" /\ accepting => TRUE \in been[t]
    /\ pc[t] = "activeAgain" => TRUE \in been[t]

IInv ==
  /\ TypeOK
  /\ CancelledExactlyOnce
  /\ ReturnMeansNotAcquirable
  /\ SeenInv
  /\ AskInv
=============================================================================
