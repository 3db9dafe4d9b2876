--------------------------- MODULE Control_proofs ---------------------------
(***************************************************************************)
(* The safety of a generation's control word, for any set of threads.      *)
(***************************************************************************)
EXTENDS Control, TLAPS

LEMMA ControlInit == Init => IInv
  BY DEF Init, IInv, TypeOK, CancelledExactlyOnce, ReturnMeansNotAcquirable, SeenInv,
         AskInv, Phases, Cancellable, Asking, Free

\* Every atomic access keeps what the strengthened invariant says of cancel() ...
LEMMA MoveKeepsCancel ==
  ASSUME IInv, Move, Note
  PROVE  TypeOK' /\ CancelledExactlyOnce' /\ ReturnMeansNotAcquirable' /\ SeenInv'
<1> DEFINE Goal == TypeOK /\ CancelledExactlyOnce /\ ReturnMeansNotAcquirable /\ SeenInv
<1> USE DEF IInv, TypeOK, CancelledExactlyOnce, ReturnMeansNotAcquirable, SeenInv,
            Phases, Cancellable, Asking, Free
<1>1. been' \in [Threads -> SUBSET BOOLEAN]
  <2>1. Open' \in BOOLEAN
    BY DEF Open
  <2>2. QED
    BY <2>1 DEF Note
<1>2. CASE Activate
  BY <1>1, <1>2 DEF Activate
<1>3. CASE Finish
  BY <1>1, <1>3 DEF Finish
<1>4. CASE StopAccepting
  BY <1>1, <1>4 DEF StopAccepting
<1>5. ASSUME NEW t \in Threads, Load(t) PROVE Goal'
  BY <1>1, <1>5 DEF Load
<1>6. ASSUME NEW t \in Threads, GiveUp(t) PROVE Goal'
  BY <1>1, <1>6 DEF GiveUp
<1>7. ASSUME NEW t \in Threads, Exchange(t) PROVE Goal'
  BY <1>1, <1>7 DEF Exchange
<1>8. ASSUME NEW t \in Threads, Retry(t) PROVE Goal'
  BY <1>1, <1>8 DEF Retry
<1>9. ASSUME NEW t \in Threads, Fire(t) PROVE Goal'
  BY <1>1, <1>9 DEF Fire
<1>10. ASSUME NEW t \in Threads, Ask(t) \/ Look(t) PROVE Goal'
  BY <1>1, <1>10 DEF Ask, Look, After
<1>11. QED
  BY <1>2, <1>3, <1>4, <1>5, <1>6, <1>7, <1>8, <1>9, <1>10 DEF Move, Cancel

\* ... and of try_acquire(): its loads see the domain stop only once.
LEMMA AfterEach ==
  /\ After["accepting"] = "active" /\ After["active"] = "acceptingAgain"
  /\ After["acceptingAgain"] = "activeAgain" /\ After["activeAgain"] = "granted"
BY DEF After

LEMMA MoveKeepsAsk == ASSUME IInv, Move, Note PROVE AskInv'
<1> USE DEF IInv, TypeOK, AskInv, Asking, Free
<1>1. \A t \in Threads : IF pc'[t] \in Asking THEN Open' \in been'[t] ELSE been'[t] = {}
  BY DEF Note
<1>2. \A t \in Threads : pc[t] \in Asking /\ pc'[t] \in Asking => been[t] \subseteq been'[t]
  BY DEF Note
<1>3. Open \in BOOLEAN /\ (Open <=> accepting /\ phase = "Active") /\ (accepting' => accepting)
  BY DEF Open, Move, Activate, Finish, StopAccepting, Load, Cancel, GiveUp, Exchange, Retry, Fire,
         Ask, Look
<1>4. ASSUME NEW t \in Threads, pc'[t] \in {"acceptingAgain", "activeAgain"}, pc'[t] # pc[t]
      PROVE  \/ pc[t] = "active" /\ pc'[t] = "acceptingAgain" /\ phase' = "Active"
             \/ pc[t] = "acceptingAgain" /\ pc'[t] = "activeAgain" /\ accepting
  <2>1. PICK u \in Threads : Load(u) \/ Cancel(u) \/ Ask(u) \/ Look(u)
    BY <1>4 DEF Move, Activate, Finish, StopAccepting
  <2>2. u = t /\ Look(t)
    BY <1>4, <2>1 DEF Load, Cancel, GiveUp, Exchange, Retry, Fire, Ask, Look
  <2>3. pc[t] \in Asking /\ Found(t) /\ pc'[t] = After[pc[t]] /\ phase' = phase
    BY <1>4, <2>2 DEF Look
  <2>4. QED
    BY <1>4, <2>3, AfterEach DEF Found
<1>5. \A t \in Threads : pc'[t] = "acceptingAgain" /\ accepting' => TRUE \in been'[t]
  <2>1. accepting' /\ phase' = "Active" => Open' = TRUE
    BY <1>3 DEF Open
  <2>2. QED
    BY <1>1, <1>2, <1>3, <1>4, <2>1
<1>6. \A t \in Threads : pc'[t] = "activeAgain" => TRUE \in been'[t]
  BY <1>2, <1>3, <1>4
<1>7. QED
  BY <1>1, <1>5, <1>6

LEMMA ControlStep == IInv /\ [Next]_vars => IInv'
<1>1. CASE UNCHANGED vars
  BY <1>1 DEF vars, IInv, TypeOK, CancelledExactlyOnce, ReturnMeansNotAcquirable, SeenInv, AskInv, Open
<1>2. CASE IInv /\ Next
  BY <1>2, MoveKeepsCancel, MoveKeepsAsk DEF Next, IInv
<1>3. QED
  BY <1>1, <1>2

LEMMA ControlInvariant == Spec => []IInv
<1>1. QED
  BY ControlInit, ControlStep, PTL DEF Spec

\* The types of the control word and of every thread inside cancel().
THEOREM ControlTypes == Spec => []TypeOK
<1>1. IInv => TypeOK
  BY DEF IInv
<1>2. QED
  BY <1>1, ControlInvariant, PTL

\* Cancellation is taken by one thread and signalled once, for any number of
\* threads that call cancel() any number of times.
THEOREM CancelOnce == Spec => []CancelledExactlyOnce
<1>1. IInv => CancelledExactlyOnce
  BY DEF IInv
<1>2. QED
  BY <1>1, ControlInvariant, PTL

\* A returned cancel() leaves a generation nobody can acquire.
THEOREM CancelStops == Spec => []ReturnMeansNotAcquirable
<1>1. IInv => ReturnMeansNotAcquirable
  BY DEF IInv
<1>2. QED
  BY <1>1, ControlInvariant, PTL

\* The phase only moves forward.
THEOREM ControlForward == Spec => PhaseForward
<1>1. IInv /\ [Next]_vars => [Rank[phase'] >= Rank[phase]]_vars
  <2> SUFFICES ASSUME IInv, [Next]_vars PROVE Rank[phase'] >= Rank[phase]
    OBVIOUS
  <2> USE DEF IInv, TypeOK, Phases, Cancellable, Rank
  <2>1. CASE Activate
    BY <2>1 DEF Activate
  <2>2. CASE Finish
    BY <2>2 DEF Finish
  <2>3. ASSUME NEW t \in Threads, Load(t) \/ Cancel(t)
        PROVE  Rank[phase'] >= Rank[phase]
    BY <2>3 DEF Load, Cancel, GiveUp, Exchange, Retry, Fire
  <2>4. CASE UNCHANGED phase
    BY <2>4
  <2>5. QED
    BY <2>1, <2>2, <2>3, <2>4 DEF Next, Move, StopAccepting, Ask, Look, vars
<1>2. QED
  BY <1>1, ControlInvariant, PTL DEF Spec, PhaseForward

-----------------------------------------------------------------------------
\* The refinement of the atomic control word.
AtomicCalls == [t \in Threads |-> CallOf(t)]

LEMMA CallGoes ==
  ASSUME NEW t \in Threads, NEW from, NEW to, CallOf(t) \in from, CallOf(t)' = to,
         \A u \in Threads \ {t} : CallOf(u)' = CallOf(u)
  PROVE  Atomic!Goes(t, from, to)
<1> DEFINE now(u) == CallOf(u)
           next(u) == CallOf(u)'
<1>1. now(t) \in from /\ next(t) = to /\ \A u \in Threads \ {t} : next(u) = now(u)
  OBVIOUS
<1> HIDE DEF now, next
<1>2. [u \in Threads |-> next(u)] = [[u \in Threads |-> now(u)] EXCEPT ![t] = to]
  BY <1>1
<1>3. QED
  BY <1>1, <1>2 DEF now, next, Atomic!Goes

\* The history takes down what the atomic try_acquire() may answer.
LEMMA NoteRecords == ASSUME Note PROVE Atomic!Records
<1>1. \A t \in Threads : /\ CallOf(t) = "asking" <=> pc[t] \in Asking
                         /\ CallOf(t)' = "asking" <=> pc'[t] \in Asking
  BY DEF CallOf, Asking
<1>2. \A t \in Threads : /\ AtomicCalls[t] = "asking" <=> pc[t] \in Asking
                         /\ AtomicCalls'[t] = "asking" <=> pc'[t] \in Asking
  BY <1>1 DEF AtomicCalls
<1>3. QED
  BY <1>2 DEF Note, Atomic!Records, Atomic!Allows, AtomicCalls, Open

\* A call of cancel() takes effect at the exchange that succeeds, or when it gives
\* up: the word it saw past cancellation cannot have come back since.  What
\* try_acquire() answers is what its history allows.  Everything else a thread
\* does inside them is invisible.
LEMMA MoveAtomic ==
  ASSUME IInv, Move, Note
  PROVE  Atomic!CancelNext \/ UNCHANGED Atomic!cancelVars
<1> USE DEF IInv, TypeOK, CallOf, Phases, Cancellable, Asking, Free, Atomic!Acquirable, Atomic!Free
<1>1. Atomic!Records
  BY NoteRecords
<1>2. CASE Activate
  <2>1. Atomic!Activates
    BY <1>2 DEF Activate, Atomic!Activates
  <2>2. QED
    BY <1>1, <2>1 DEF Atomic!CancelNext
<1>3. CASE Finish
  <2>1. Atomic!Finishes
    BY <1>3 DEF Finish, Atomic!Finishes
  <2>2. QED
    BY <1>1, <2>1 DEF Atomic!CancelNext
<1>4. CASE StopAccepting
  <2>1. Atomic!Stops
    BY <1>4 DEF StopAccepting, Atomic!Stops
  <2>2. QED
    BY <1>1, <2>1 DEF Atomic!CancelNext
<1>5. ASSUME NEW t \in Threads, Load(t) PROVE Atomic!CancelNext
  <2>1. Atomic!Calls(t)
    BY <1>5, CallGoes DEF Load, Atomic!Calls
  <2>2. QED
    BY <1>1, <2>1 DEF Atomic!CancelNext
<1>6. ASSUME NEW t \in Threads, GiveUp(t) PROVE Atomic!CancelNext
  <2>1. phase \notin Cancellable
    BY <1>6 DEF GiveUp, SeenInv
  <2>2. Atomic!Yields(t)
    BY <1>6, <2>1, CallGoes DEF GiveUp, Atomic!Yields
  <2>3. QED
    BY <1>1, <1>6, <2>2 DEF GiveUp, Atomic!Cancels, Atomic!CancelNext
<1>7. ASSUME NEW t \in Threads, Exchange(t) PROVE Atomic!CancelNext
  <2>1. Atomic!Takes(t)
    BY <1>7, CallGoes DEF Exchange, Atomic!Takes
  <2>2. QED
    BY <1>1, <1>7, <2>1 DEF Exchange, Atomic!Cancels, Atomic!CancelNext
<1>8. ASSUME NEW t \in Threads, Fire(t) PROVE Atomic!CancelNext
  <2>1. Atomic!Signals(t)
    BY <1>8, CallGoes DEF Fire, Atomic!Signals
  <2>2. QED
    BY <1>1, <2>1 DEF Atomic!CancelNext
<1>9. ASSUME NEW t \in Threads, Ask(t) PROVE Atomic!CancelNext
  <2>1. Atomic!Asks(t)
    BY <1>9, CallGoes DEF Ask, Atomic!Asks
  <2>2. QED
    BY <1>1, <2>1 DEF Atomic!CancelNext
<1>10. ASSUME NEW t \in Threads, Look(t), pc'[t] \notin Asking PROVE Atomic!CancelNext
  <2>1. PICK b \in BOOLEAN : b \in been[t] /\ pc'[t] = IF b THEN "granted" ELSE "denied"
    <3>1. CASE ~Found(t)
      <4>1. Open = FALSE
        BY <1>10, <3>1 DEF Look, Found, Open
      <4>2. QED
        BY <1>10, <3>1, <4>1 DEF Look, AskInv
    <3>2. CASE Found(t)
      <4>1. pc[t] = "activeAgain" /\ pc'[t] = "granted"
        BY <1>10, <3>2, AfterEach DEF Look
      <4>2. QED
        BY <4>1 DEF AskInv
    <3>3. QED
      BY <3>1, <3>2
  <2>2. CallOf(t) = "asking" /\ CallOf(t)' = IF b THEN "granted" ELSE "denied"
    BY <1>10, <2>1 DEF Look
  <2>3. Atomic!Goes(t, {"asking"}, IF b THEN "granted" ELSE "denied")
    BY <1>10, <2>2, CallGoes DEF Look
  <2>4. Atomic!Answers(t, b)
    BY <1>10, <2>1, <2>3 DEF Look, Atomic!Answers
  <2>5. QED
    BY <1>1, <2>4 DEF Atomic!CancelNext
<1>11. ASSUME NEW t \in Threads, Retry(t) \/ (Look(t) /\ pc'[t] \in Asking)
       PROVE  UNCHANGED Atomic!cancelVars
  <2>1. \A u \in Threads : CallOf(u)' = CallOf(u)
    BY <1>11 DEF Retry, Look
  <2>2. UNCHANGED <<phase, fires, owner, accepting>>
    BY <1>11 DEF Retry, Look
  <2>3. \A u \in Threads : pc'[u] \in Asking <=> pc[u] \in Asking
    BY <1>11 DEF Retry, Look
  <2>4. Open' = Open
    BY <2>2 DEF Open
  <2>5. \A u \in Threads : pc[u] \notin Asking => been[u] = {}
    BY DEF AskInv
  <2>6. been' = been
    <3>1. \A u \in Threads : pc[u] \in Asking => Open \in been[u]
      BY DEF AskInv
    <3>2. \A u \in Threads : been'[u] = been[u]
      BY <2>3, <2>4, <2>5, <3>1 DEF Note
    <3>3. been' = [u \in Threads |-> been'[u]]
      BY DEF Note
    <3>4. QED
      BY <3>2, <3>3
  <2>7. QED
    BY <2>1, <2>2, <2>6 DEF Atomic!cancelVars
<1>12. QED
  BY <1>2, <1>3, <1>4, <1>5, <1>6, <1>7, <1>8, <1>9, <1>10, <1>11 DEF Move, Cancel

\* For any number of threads: the compare-exchange loop is an atomic cancel(), and
\* the four loads are an atomic try_acquire().
THEOREM AtomicControl == Spec => ControlIsAtomic
<1>1. Init => Atomic!CancelInit
  BY DEF Init, Atomic!CancelInit, CallOf, Asking
<1>2. IInv /\ [Next]_vars => [Atomic!CancelNext]_(Atomic!cancelVars)
  <2>1. UNCHANGED vars => UNCHANGED Atomic!cancelVars
    BY DEF vars, Atomic!cancelVars, CallOf
  <2>2. QED
    BY <2>1, MoveAtomic DEF Next
<1>3. QED
  BY <1>1, <1>2, ControlInvariant, PTL DEF Spec, ControlIsAtomic, Atomic!CancelSpec
=============================================================================
