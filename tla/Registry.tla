------------------------------- MODULE Registry -------------------------------
(***************************************************************************)
(* The registry as its callers may think of it: every call takes effect in *)
(* one step, a claim hands a reservation to one caller, and whoever has a  *)
(* ticket (the reservation of a constructor, the closure of a cleanup) can *)
(* touch nothing but what the ticket was given for.                        *)
(***************************************************************************)
EXTENDS Integers

CONSTANTS Threads, Keys, Slots, None

VARIABLES
  entries,       \* key -> its slot, or None
  slot,          \* slot -> its state and number
  building,      \* tickets of the constructors
  closures,      \* tickets of the cleanups to come
  reply          \* what a thread's claim of a key said, until it is used

regVars == <<entries, slot, building, closures, reply>>

Ticket(k, s, n) == [key |-> k, slot |-> s, num |-> n]

RegistryInit ==
  /\ entries = [k \in Keys |-> None]
  /\ slot = [s \in Slots |-> [state |-> "unused", num |-> 0]]
  /\ building = {} /\ closures = {}
  /\ reply = [t \in Threads |-> [k \in Keys |-> "none"]]

Answers(t, k, r) == reply[t][k] = "none" /\ reply' = [reply EXCEPT ![t][k] = r]
Owns(t, k, s, n) ==
  /\ slot' = [slot EXCEPT ![s] = [state |-> "Starting", num |-> n]]
  /\ building' = building \cup {Ticket(k, s, n)}
  /\ Answers(t, k, "Owner")
  /\ UNCHANGED closures

Reserve(t, k, s) ==
  /\ entries[k] = None /\ \A j \in Keys : entries[j] # s
  /\ \A b \in building \cup closures : b.slot # s
  /\ entries' = [entries EXCEPT ![k] = s]
  /\ Owns(t, k, s, 1)

TakeOver(t, k) ==
  /\ entries[k] # None /\ slot[entries[k]].state = "Active"
  /\ Owns(t, k, entries[k], slot[entries[k]].num + 1)
  /\ UNCHANGED entries

\* The claims that change nothing, with what they saw.
Saw(k, r) ==
  \/ r = "Wait" /\ entries[k] # None /\ slot[entries[k]].state = "Starting"
  \/ r = "Active" /\ entries[k] # None /\ slot[entries[k]].state = "Active"
  \/ r = "ShuttingDown" /\ (entries[k] = None \/ slot[entries[k]].state = "Active")

Told(t, k, r) ==
  /\ Saw(k, r) /\ Answers(t, k, r)
  /\ UNCHANGED <<entries, slot, building, closures>>

Use(t, k) ==
  /\ reply[t][k] # "none" /\ reply' = [reply EXCEPT ![t][k] = "none"]
  /\ UNCHANGED <<entries, slot, building, closures>>

\* The constructor made a generation, with its cleanup.
Construct(b) ==
  /\ b \in building
  /\ closures' = closures \cup {b}
  /\ UNCHANGED <<entries, slot, building, reply>>

\* It publishes what it reserved, which nobody has changed.
Publish(b) ==
  /\ b \in building /\ slot[b.slot].state = "Starting" /\ slot[b.slot].num = b.num
  /\ slot' = [slot EXCEPT ![b.slot].state = "Active"]
  /\ building' = building \ {b}
  /\ UNCHANGED <<entries, closures, reply>>

\* A ticket is given back: the key is free if it still shows what the ticket
\* was given for, and untouched if it does not.
GiveBack(b) ==
  /\ entries' = IF entries[b.key] = b.slot /\ slot[b.slot].num = b.num
                THEN [entries EXCEPT ![b.key] = None] ELSE entries
  /\ \/ b \in building /\ building' = building \ {b} /\ UNCHANGED closures
     \/ b \in closures /\ closures' = closures \ {b} /\ UNCHANGED building
  /\ UNCHANGED <<slot, reply>>

RegistryNext ==
  \/ \E t \in Threads, k \in Keys :
       \/ TakeOver(t, k) \/ Use(t, k)
       \/ \E s \in Slots : Reserve(t, k, s)
       \/ \E r \in {"Wait", "Active", "ShuttingDown"} : Told(t, k, r)
  \/ \E b \in building \cup closures : Construct(b) \/ Publish(b) \/ GiveBack(b)

RegistrySpec == RegistryInit /\ [][RegistryNext]_regVars
=============================================================================
