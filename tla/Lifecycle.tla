------------------------------ MODULE Lifecycle ------------------------------
(***************************************************************************)
(* What a domain promises to those who use it, whatever goes on inside:    *)
(* a generation is established while the domain runs, ends once, settles   *)
(* with one outcome that never changes, and a domain that says it is       *)
(* Terminated has settled every generation it ever established.            *)
(***************************************************************************)
CONSTANTS
  Gens,          \* the generations
  Outcomes       \* how they may end

VARIABLES
  domain,        \* what runtime calls see of the domain
  life,          \* where each generation is in its life
  result         \* its outcome, once it has settled

lifeVars == <<domain, life, result>>

LifeInit ==
  /\ domain = "Running"
  /\ life = [g \in Gens |-> "unborn"]
  /\ result = [g \in Gens |-> "none"]

Goes(g, from, to) == life[g] = from /\ life' = [life EXCEPT ![g] = to]

Establish(g) == domain = "Running" /\ Goes(g, "unborn", "active") /\ UNCHANGED <<domain, result>>

\* Cancelled, or returned by itself: from here on it cannot be acquired.
End(g) == Goes(g, "active", "ending") /\ UNCHANGED <<domain, result>>

Settle(g, o) ==
  /\ Goes(g, "ending", "settled")
  /\ result' = [result EXCEPT ![g] = o]
  /\ UNCHANGED domain

Stop == domain = "Running" /\ domain' = "ShuttingDown" /\ UNCHANGED <<life, result>>

Terminate ==
  /\ domain = "ShuttingDown" /\ \A g \in Gens : life[g] \in {"unborn", "settled"}
  /\ domain' = "Terminated"
  /\ UNCHANGED <<life, result>>

LifeNext ==
  \/ \E g \in Gens : Establish(g) \/ End(g) \/ \E o \in Outcomes : Settle(g, o)
  \/ Stop \/ Terminate

LifeSpec == LifeInit /\ [][LifeNext]_lifeVars

\* A domain that was told to stop ends and settles every generation and then
\* itself; nothing has to end in a domain that runs.
Progress ==
  /\ \A g \in Gens :
       WF_lifeVars(domain # "Running" /\ (End(g) \/ \E o \in Outcomes : Settle(g, o)))
  /\ WF_lifeVars(Terminate)
=============================================================================
