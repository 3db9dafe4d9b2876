------------------------------- MODULE Identity -------------------------------
(***************************************************************************)
(* What a domain promises to those who acquire generations, whatever goes  *)
(* on in its registry: an identity has at most one living generation, who  *)
(* asks for an identity gets the living generation of that identity or one *)
(* that his own call established, and what once ended never lives again.   *)
(***************************************************************************)
CONSTANTS Callers, Keys, Gens, None

VARIABLES
  accepting,     \* the domain has not been told to stop
  alive,         \* the generations that can be acquired, with their identity
  spent,         \* every generation that was ever established
  asks,          \* the identity each caller is asking for, or None
  made,          \* the generation its call has established, until it returns
  holds          \* the generation it got

idVars == <<accepting, alive, spent, asks, made, holds>>

IdInit ==
  /\ accepting = TRUE /\ alive = {} /\ spent = {}
  /\ asks = [c \in Callers |-> None]
  /\ made = [c \in Callers |-> None]
  /\ holds = [c \in Callers |-> None]

Empty(c) == made[c] = None /\ holds[c] = None

Asks(c, k) ==
  /\ Empty(c) /\ asks[c] = None /\ asks' = [asks EXCEPT ![c] = k]
  /\ UNCHANGED <<accepting, alive, spent, made, holds>>

\* A generation without an identity (spawn_unique) stands in nobody's way.
Establishes(c, g) ==
  /\ accepting /\ Empty(c) /\ g \notin spent
  /\ asks[c] # None => \A a \in alive : a.key # asks[c]
  /\ alive' = alive \cup {[gen |-> g, key |-> asks[c]]} /\ spent' = spent \cup {g}
  /\ made' = [made EXCEPT ![c] = g]
  /\ UNCHANGED <<accepting, asks, holds>>

\* The call returns what it established, even if that has ended meanwhile ...
Delivers(c) ==
  /\ made[c] # None
  /\ holds' = [holds EXCEPT ![c] = made[c]] /\ made' = [made EXCEPT ![c] = None]
  /\ asks' = [asks EXCEPT ![c] = None]
  /\ UNCHANGED <<accepting, alive, spent>>

\* ... or the one that lives; without an identity, any that it knew.
Obtains(c, g) ==
  /\ accepting /\ Empty(c)
  /\ \E a \in alive : a.gen = g /\ (asks[c] # None => a.key = asks[c])
  /\ holds' = [holds EXCEPT ![c] = g] /\ asks' = [asks EXCEPT ![c] = None]
  /\ UNCHANGED <<accepting, alive, spent, made>>

Shares(c, d) ==
  /\ holds[c] # None /\ Empty(d) /\ asks[d] = None
  /\ holds' = [holds EXCEPT ![d] = holds[c]]
  /\ UNCHANGED <<accepting, alive, spent, asks, made>>

Gone(g) == alive' = {a \in alive : a.gen # g}

\* A call fails, or a lease is dropped; a generation that nobody holds any more
\* may go with it.
LetsGo(c) ==
  /\ holds' = [holds EXCEPT ![c] = None] /\ made' = [made EXCEPT ![c] = None]
  /\ asks' \in {asks, [asks EXCEPT ![c] = None]}
  /\ UNCHANGED alive \/ \E g \in Gens : Gone(g) /\ \A d \in Callers : holds'[d] # g /\ made'[d] # g
  /\ UNCHANGED <<accepting, spent>>

\* Its task ended, or it was cancelled.
Ends(g) == Gone(g) /\ UNCHANGED <<accepting, spent, asks, made, holds>>

Stops == accepting /\ accepting' = FALSE /\ UNCHANGED <<alive, spent, asks, made, holds>>

IdNext ==
  \/ \E c \in Callers :
       \/ Delivers(c) \/ LetsGo(c)
       \/ \E k \in Keys : Asks(c, k)
       \/ \E g \in Gens : Establishes(c, g) \/ Obtains(c, g)
       \/ \E d \in Callers : Shares(c, d)
  \/ \E g \in Gens : Ends(g)
  \/ Stops

IdSpec == IdInit /\ [][IdNext]_idVars
=============================================================================
