------------------------ MODULE RegistryLocks_proofs ------------------------
(***************************************************************************)
(* Theorems about module RegistryLocks, for any threads, keys and slots:   *)
(* calls block each other only by lookups that go backwards, and they      *)
(* implement the atomic registry.                                          *)
(***************************************************************************)
EXTENDS RegistryLocks, TLAPS

-----------------------------------------------------------------------------
(* The calls of one thread about one key, when nothing but them changes. *)

\* What is said of one call at a time, after a step of the call of t about k
\* that leaves the map, the slots and the tickets alone.
LEMMA MovedCalls ==
  ASSUME LocksInv, NEW t \in Callers, NEW k \in Keys, NEW f \in Calls,
         Becomes(t, k, f), UNCHANGED mapVars, FrameOK(f), ReadOK(k, f),
         f.pc \in {"slot", "locked", "drop", "refused", "erase"} => f.slot \in Slots
  PROVE  LocksTypeOK' /\ CallInv'
<1> USE DEF LocksInv, Becomes, mapVars, ticketVars
<1>1. \A u \in Callers, j \in Keys : at'[u][j] = IF u = t /\ j = k THEN f ELSE at[u][j]
  BY DEF LocksTypeOK
<1>2. at' \in [Callers -> [Keys -> Calls]]
  BY DEF LocksTypeOK
<1>3. LocksTypeOK'
  BY <1>1, <1>2 DEF LocksTypeOK
<1>4. CallInv'
  BY <1>1 DEF CallInv, FrameOK, ReadOK
<1> QED BY <1>3, <1>4

\* A lock that the call holds after its step was its own or free before.
Locked(t, k, f) ==
  /\ f.op \in {"claim"} \cup Removing /\ f.pc \in {"entered", "slot", "locked", "drop", "refused", "erase"}
       => HoldsShard(t, k) \/ ShardFree(k)
  /\ f.pc \in {"locked", "drop", "refused"}
       => (HoldsSlot(t, k) /\ f.slot = at[t][k].slot) \/ SlotFree(f.slot)

LEMMA MovedLocks ==
  ASSUME LocksTypeOK, LockInv, NEW t \in Callers, NEW k \in Keys, NEW f \in Calls,
         Becomes(t, k, f), Locked(t, k, f)
  PROVE  LockInv'
<1> USE DEF Becomes
<1>1. \A u \in Callers, j \in Keys : at'[u][j] = IF u = t /\ j = k THEN f ELSE at[u][j]
  BY DEF LocksTypeOK
<1> SUFFICES ASSUME NEW v \in Callers, NEW u \in Callers, NEW i \in Keys, NEW j \in Keys,
                    ~(v = u /\ i = j)
             PROVE  /\ (HoldsShard(v, i) /\ HoldsShard(u, j))' => Shard[i] # Shard[j]
                    /\ (HoldsSlot(v, i) /\ HoldsSlot(u, j))' => at'[v][i].slot # at'[u][j].slot
  BY DEF LockInv
<1>2. CASE ~(v = t /\ i = k) /\ ~(u = t /\ j = k)
  BY <1>1, <1>2 DEF LockInv, HoldsShard, HoldsSlot
<1>3. CASE v = t /\ i = k
  BY <1>1, <1>3 DEF LockInv, HoldsShard, HoldsSlot, Locked, ShardFree, SlotFree
<1>4. CASE u = t /\ j = k
  BY <1>1, <1>4 DEF LockInv, HoldsShard, HoldsSlot, Locked, ShardFree, SlotFree
<1> QED BY <1>2, <1>3, <1>4

\* The call goes on with the slot it had or the one its key leads to, and keeps
\* its ticket or gives it up.
KeepsTicket(t, k, f) ==
  /\ f.slot \in {None, at[t][k].slot, entries[k]}
  /\ f.op \in {"publish"} \cup Removing =>
       f.op = at[t][k].op /\ f.slot = at[t][k].slot /\ f.num = at[t][k].num

LEMMA MovedTickets ==
  ASSUME LocksInv, NEW t \in Callers, NEW k \in Keys, NEW f \in Calls,
         Becomes(t, k, f), UNCHANGED mapVars, KeepsTicket(t, k, f)
  PROVE  KeyInv' /\ BuildInv' /\ CleanInv'
<1> USE DEF LocksInv, Becomes, mapVars, ticketVars
<1>1. \A u \in Callers, j \in Keys : at'[u][j] = IF u = t /\ j = k THEN f ELSE at[u][j]
  BY DEF LocksTypeOK
<1>2. KeyInv'
  <2>1. \A s \in Slots, j \in Keys : Refers(j, s)' => Refers(j, s)
    BY <1>1, NoneAssumption DEF Refers, KeepsTicket
  <2> QED BY <2>1 DEF KeyInv
<1>3. BuildInv'
  <2> USE DEF BuildInv, Publishing, Called, Reserved, Ticket, KeepsTicket, Removing
  <2> QED BY <1>1
<1>4. CleanInv'
  <2> USE DEF CleanInv, Cleaning, Called, Ticket, KeepsTicket, Removing
  <2> QED BY <1>1
<1> QED BY <1>2, <1>3, <1>4

LEMMA Moved ==
  ASSUME LocksInv, NEW t \in Callers, NEW k \in Keys, NEW f \in Calls,
         Becomes(t, k, f), UNCHANGED mapVars, FrameOK(f), ReadOK(k, f),
         f.pc \in {"slot", "locked", "drop", "refused", "erase"} => f.slot \in Slots,
         Locked(t, k, f), KeepsTicket(t, k, f)
  PROVE  LocksInv'
BY MovedCalls, MovedLocks, MovedTickets DEF LocksInv

-----------------------------------------------------------------------------
(* The steps that leave the map, the slots and the tickets alone. *)

LEMMA TypeOf ==
  ASSUME LocksInv, NEW t \in Callers, NEW k \in Keys
  PROVE  /\ at[t][k] \in Calls /\ FrameOK(at[t][k]) /\ ReadOK(k, at[t][k])
         /\ entries[k] \in Slots \cup {None}
         /\ at[t][k].pc \in {"slot", "locked", "drop", "refused", "erase"} => at[t][k].slot \in Slots
BY DEF LocksInv, LocksTypeOK, CallInv

LEMMA LeftInv ==
  ASSUME LocksInv, NEW t \in Callers, NEW k \in Keys, Leave(t, k), UNCHANGED mapVars
  PROVE  LocksInv'
<1>1. Out \in Calls /\ FrameOK(Out) /\ ReadOK(k, Out) /\ Locked(t, k, Out) /\ KeepsTicket(t, k, Out)
      /\ Out.pc = "out"
  BY NoneAssumption DEF Out, Frame, Calls, Locations, Removing, Replies, FrameOK, ReadOK, Locked, KeepsTicket
<1> QED BY <1>1, Moved DEF Leave

LEMMA RepliedInv ==
  ASSUME LocksInv, NEW t \in Callers, NEW k \in Keys, NEW r \in Replies,
         Reply(t, k, r), UNCHANGED mapVars
  PROVE  LocksInv'
<1> DEFINE f == Frame("claim", r, None, 0)
<1>1. f \in Calls /\ FrameOK(f) /\ ReadOK(k, f) /\ Locked(t, k, f) /\ KeepsTicket(t, k, f)
      /\ f.pc \in Replies
  BY NoneAssumption DEF Out, Frame, Calls, Locations, Removing, Replies, FrameOK, ReadOK, Locked, KeepsTicket
<1> QED BY <1>1, Moved DEF Reply, Replies

LEMMA EnteredInv ==
  ASSUME LocksInv, NEW t \in Callers, NEW k \in Keys,
         (\E o \in {"claim", "get"} : Begin(t, k, o)) \/ Enter(t, k)
  PROVE  LocksInv'
<1> USE TypeOf DEF Frame, Calls, Locations, Removing, Replies, FrameOK, ReadOK, Locked, KeepsTicket,
                   HoldsSlot, HoldsShard, Jump, At, Is
<1>1. CASE \E o \in {"claim", "get"} : Begin(t, k, o)
  <2> PICK o \in {"claim", "get"} : Begin(t, k, o)
    BY <1>1
  <2> DEFINE f == Frame(o, "entry", None, 0)
  <2>1. f \in Calls /\ FrameOK(f) /\ ReadOK(k, f) /\ Locked(t, k, f) /\ KeepsTicket(t, k, f)
    OBVIOUS
  <2> QED BY <2>1, Moved DEF Begin
<1>2. CASE Enter(t, k)
  <2> DEFINE f == [at[t][k] EXCEPT !.pc = "entered"]
  <2>1. f \in Calls /\ FrameOK(f) /\ ReadOK(k, f) /\ Locked(t, k, f) /\ KeepsTicket(t, k, f)
    BY <1>2 DEF Enter
  <2> QED BY <1>2, <2>1, Moved DEF Enter
<1> QED BY <1>1, <1>2

LEMMA FetchInv ==
  ASSUME LocksInv, NEW t \in Callers, NEW k \in Keys, Fetch(t, k) \/ ClaimOccupied(t, k)
  PROVE  LocksInv'
<1> USE TypeOf DEF Frame, Calls, Locations, Removing, Replies, FrameOK, ReadOK, Locked, KeepsTicket,
                   HoldsSlot, HoldsShard, At, Is
<1>1. CASE Fetch(t, k)
  <2>1. CASE entries[k] = None
    BY <1>1, <2>1, LeftInv DEF Fetch
  <2>2. CASE entries[k] # None
    <3> DEFINE f == [at[t][k] EXCEPT !.pc = "slot", !.slot = entries[k]]
    <3>1. at[t][k].op = "get" /\ at[t][k].pc = "entry" /\ entries[k] \in Slots
      BY <1>1, <2>2 DEF Fetch
    <3>2. /\ f \in Calls
          /\ f.op = "get" /\ f.pc = "slot" /\ f.slot = entries[k] /\ f.num = at[t][k].num
      BY <3>1
    <3>3. FrameOK(f) /\ ReadOK(k, f)
      BY <3>2
    <3>4. Locked(t, k, f) /\ KeepsTicket(t, k, f)
      BY <3>1, <3>2
    <3> QED BY <1>1, <2>2, <3>2, <3>3, <3>4, Moved DEF Fetch
  <2> QED BY <2>1, <2>2
<1>2. CASE ClaimOccupied(t, k)
  <2> DEFINE f == Frame("claim", "slot", entries[k], 0)
  <2>1. f \in Calls /\ FrameOK(f) /\ ReadOK(k, f) /\ Locked(t, k, f) /\ KeepsTicket(t, k, f)
    BY <1>2 DEF ClaimOccupied
  <2> QED BY <1>2, <2>1, Moved DEF ClaimOccupied
<1> QED BY <1>1, <1>2

LEMMA JumpedInv ==
  ASSUME LocksInv, NEW t \in Callers, NEW k \in Keys, NEW l \in {"slot", "locked", "drop", "refused", "erase"},
         Jump(t, k, l), UNCHANGED mapVars,
         \/ l = "slot" /\ at[t][k].pc = "entered" /\ Removes(t, k) /\ entries[k] = at[t][k].slot
         \/ l = "locked" /\ at[t][k].pc = "slot" /\ SlotFree(at[t][k].slot)
         \/ /\ l = "drop" /\ at[t][k].pc = "locked" /\ slot[at[t][k].slot].state = "Active"
            /\ at[t][k].op \in {"claim", "get"}
         \/ /\ l = "refused" /\ at[t][k].pc \in {"locked", "drop"} /\ at[t][k].op = "claim"
            /\ slot[at[t][k].slot].state = "Active"
         \/ /\ l = "erase" /\ at[t][k].pc = "locked" /\ Removes(t, k)
            /\ slot[at[t][k].slot].num = at[t][k].num
  PROVE  LocksInv'
<1> USE TypeOf DEF Calls, Locations, Removing, Replies, FrameOK, ReadOK, Locked, KeepsTicket,
                   HoldsSlot, HoldsShard, Jump, Removes
<1> DEFINE f == [at[t][k] EXCEPT !.pc = l]
<1>1. f \in Calls /\ FrameOK(f) /\ f.op = at[t][k].op /\ f.slot = at[t][k].slot
      /\ f.num = at[t][k].num /\ f.pc = l /\ f.slot \in Slots
  OBVIOUS
<1>2. ReadOK(k, f)
  BY <1>1
<1>3. Locked(t, k, f)
  BY <1>1
<1>4. KeepsTicket(t, k, f)
  BY <1>1
<1> QED BY <1>1, <1>2, <1>3, <1>4, Moved

LEMMA LookUpInv ==
  ASSUME LocksInv, NEW t \in Callers, NEW k \in Keys, NEW u \in Nested, NEW l \in Keys,
         LookUp(t, k, u, l)
  PROVE  LocksInv'
<1> DEFINE f == [Frame("get", "entry", None, 0) EXCEPT !.of = t]
<1>1. f \in Calls /\ FrameOK(f) /\ ReadOK(l, f) /\ Locked(u, l, f) /\ KeepsTicket(u, l, f)
      /\ f.pc = "entry" /\ u \in Callers
  BY DEF Frame, Calls, Locations, Removing, Replies, FrameOK, ReadOK, Locked, KeepsTicket, Callers
<1> QED BY <1>1, Moved DEF LookUp

LEMMA QuietInv ==
  ASSUME LocksInv, NEW t \in Callers, NEW k \in Keys,
         \/ Return(t, k) \/ ClaimStarting(t, k) \/ GetStarting(t, k)
         \/ GetActive(t, k) \/ ClaimActive(t, k) \/ DropDone(t, k)
         \/ LockSlot(t, k) \/ RemoveSame(t, k) \/ Compare(t, k)
  PROVE  LocksInv'
<1> USE TypeOf, LeftInv, RepliedInv, JumpedInv DEF Looks, Is, At
<1>1. CASE Return(t, k)
  BY <1>1 DEF Return
<1>2. CASE ClaimStarting(t, k)
  BY <1>2 DEF ClaimStarting, Replies
<1>3. CASE GetStarting(t, k)
  BY <1>3 DEF GetStarting
<1>4. CASE GetActive(t, k)
  BY <1>4 DEF GetActive
<1>5. CASE ClaimActive(t, k)
  BY <1>5 DEF ClaimActive, Replies
<1>6. CASE DropDone(t, k)
  BY <1>6 DEF DropDone, FrameOK, ReadOK, Calls, Replies, Removing
<1>7. CASE LockSlot(t, k)
  BY <1>7 DEF LockSlot
<1>8. CASE RemoveSame(t, k)
  BY <1>8 DEF RemoveSame
<1>9. CASE Compare(t, k)
  BY <1>9 DEF Compare
<1> QED BY <1>1, <1>2, <1>3, <1>4, <1>5, <1>6, <1>7, <1>8, <1>9

-----------------------------------------------------------------------------
(* The steps that move a ticket or change the map or a slot. *)

\* A thread takes a ticket out of its set and into a call.
TakesTicket(t, b, o, l) ==
  /\ Idle(t) /\ Becomes(t, b.key, Frame(o, l, b.slot, b.num))
  /\ UNCHANGED <<entries, slot>>

LEMMA TakenCalls ==
  ASSUME LocksInv, NEW t \in Callers, NEW b \in Tickets, NEW o, NEW l,
         <<o, l>> \in {<<"publish", "slot">>, <<"guard", "entry">>, <<"cleanup", "entry">>},
         TakesTicket(t, b, o, l),
         building' \subseteq building, built' \subseteq built, closures' \subseteq closures
  PROVE  LocksTypeOK' /\ CallInv' /\ LockInv'
<1> DEFINE f == Frame(o, l, b.slot, b.num)
<1> USE DEF Tickets, TakesTicket, Becomes
<1>1. f \in Calls /\ FrameOK(f) /\ ReadOK(b.key, f) /\ Locked(t, b.key, f) /\ f.slot \in Slots
  BY NoneAssumption DEF Frame, Calls, Locations, Removing, Replies, FrameOK, ReadOK, Locked
<1>2. \A u \in Callers, j \in Keys : at'[u][j] = IF u = t /\ j = b.key THEN f ELSE at[u][j]
  BY DEF LocksInv, LocksTypeOK
<1>3. LocksTypeOK'
  <2>1. at' \in [Callers -> [Keys -> Calls]]
    BY <1>1 DEF LocksInv, LocksTypeOK
  <2> QED BY <1>1, <1>2, <2>1 DEF LocksInv, LocksTypeOK
<1>4. CallInv'
  BY <1>1, <1>2 DEF LocksInv, CallInv, FrameOK, ReadOK
<1>5. LockInv'
  BY <1>1, MovedLocks DEF LocksInv
<1> QED BY <1>3, <1>4, <1>5

\* A slot is reserved by one ticket.
LEMMA OneReservation ==
  ASSUME LocksInv, NEW b \in building \cup built
  PROVE  /\ b \in Tickets
         /\ \A c \in building \cup built : c.slot = b.slot => c = b
         /\ \A u \in Callers, j \in Keys : Publishing(u, j) => at[u][j].slot # b.slot
<1> USE DEF LocksInv, BuildInv, Reserved
<1>1. b \in Tickets /\ slot[b.slot].num = b.num
  BY DEF LocksTypeOK
<1>2. ASSUME NEW c \in building \cup built, c.slot = b.slot
      PROVE  c = b
  <2>1. c \in Tickets /\ slot[c.slot].num = c.num
    BY DEF LocksTypeOK
  <2>2. Refers(b.key, b.slot) /\ Refers(c.key, b.slot)
    BY <1>2 DEF Refers
  <2>3. c.key = b.key
    BY <1>1, <2>1, <2>2 DEF KeyInv, Tickets
  <2> QED BY <1>1, <1>2, <2>1, <2>3 DEF Tickets
<1>3. ASSUME NEW u \in Callers, NEW j \in Keys, Publishing(u, j), at[u][j].slot = b.slot
      PROVE  FALSE
  <2>1. Refers(b.key, b.slot) /\ Refers(j, b.slot)
    BY <1>3 DEF Refers
  <2>2. j = b.key
    BY <1>1, <2>1 DEF KeyInv, Tickets
  <2>3. slot[b.slot].num = at[u][j].num
    BY <1>3 DEF Called, Ticket
  <2>4. Called(u, j) = b
    BY <1>1, <1>3, <2>2, <2>3 DEF Called, Ticket, Tickets
  <2> QED BY <1>3, <2>4
<1> QED BY <1>1, <1>2, <1>3

LEMMA BeginPublishInv ==
  ASSUME LocksInv, NEW t \in Callers, NEW b \in built, BeginPublish(t, b)
  PROVE  LocksInv'
<1> USE DEF LocksInv, BeginPublish
<1>0. b \in Tickets
  BY DEF LocksTypeOK
<1>1. LocksTypeOK' /\ CallInv' /\ LockInv'
  <2>1. TakesTicket(t, b, "publish", "slot")
    BY DEF TakesTicket
  <2>2. building' \subseteq building /\ built' \subseteq built /\ closures' \subseteq closures
    OBVIOUS
  <2>3. LocksInv
    OBVIOUS
  <2> HIDE DEF LocksInv, BeginPublish
  <2> QED BY <1>0, <2>1, <2>2, <2>3, TakenCalls
<1> DEFINE f == Frame("publish", "slot", b.slot, b.num)
<1>2. \A u \in Callers, j \in Keys : at'[u][j] = IF u = t /\ j = b.key THEN f ELSE at[u][j]
  BY DEF LocksTypeOK, Becomes
<1>3. KeyInv'
  <2>1. \A s \in Slots, j \in Keys : Refers(j, s)' => Refers(j, s)
    BY <1>0, <1>2 DEF Refers, Tickets, Frame
  <2> QED BY <2>1 DEF KeyInv
<1>4. BuildInv'
  <2> USE DEF BuildInv, Publishing, Called, Reserved, Ticket, Tickets, Frame, Idle, Out
  <2>1. \A c \in building \cup built : c.slot = b.slot => c = b
    BY OneReservation
  <2>2. Publishing(t, b.key)' /\ Called(t, b.key)' = b /\ b \notin building
    BY <1>0, <1>2
  <2>3. \A u \in Callers, j \in Keys : Publishing(u, j) => at[u][j].slot # b.slot
    BY OneReservation
  <2> QED BY <1>0, <1>2, <2>1, <2>2, <2>3
<1>5. CleanInv'
  BY <1>0, <1>2 DEF CleanInv, Cleaning, Called, Ticket, Frame
<1> QED BY <1>1, <1>3, <1>4, <1>5

LEMMA BeginGuardInv ==
  ASSUME LocksInv, NEW t \in Callers, NEW b \in building \cup built, BeginGuard(t, b)
  PROVE  LocksInv'
<1> USE DEF LocksInv, BeginGuard
<1>0. b \in Tickets
  BY DEF LocksTypeOK
<1>1. LocksTypeOK' /\ CallInv' /\ LockInv'
  BY <1>0, TakenCalls DEF TakesTicket, Removing
<1> DEFINE f == Frame("guard", "entry", b.slot, b.num)
<1>2. \A u \in Callers, j \in Keys : at'[u][j] = IF u = t /\ j = b.key THEN f ELSE at[u][j]
  BY DEF LocksTypeOK, Becomes
<1>3. KeyInv'
  <2>1. \A s \in Slots, j \in Keys : Refers(j, s)' => Refers(j, s)
    BY <1>0, <1>2 DEF Refers, Tickets, Frame
  <2> QED BY <2>1 DEF KeyInv
<1>4. BuildInv'
  <2> USE DEF BuildInv, Publishing, Called, Reserved, Ticket, Tickets, Frame, Idle, Out
  <2>1. \A c \in building \cup built : c.slot = b.slot => c = b
    BY OneReservation
  <2>2. Publishing(t, b.key)' /\ Called(t, b.key)' = b
    BY <1>0, <1>2
  <2>3. \A u \in Callers, j \in Keys : Publishing(u, j) => at[u][j].slot # b.slot
    BY OneReservation
  <2> QED BY <1>0, <1>2, <2>1, <2>2, <2>3
<1>5. CleanInv'
  BY <1>0, <1>2 DEF CleanInv, Cleaning, Called, Ticket, Frame
<1> QED BY <1>1, <1>3, <1>4, <1>5

LEMMA BeginCleanupInv ==
  ASSUME LocksInv, NEW t \in Callers, NEW b \in closures, BeginCleanup(t, b)
  PROVE  LocksInv'
<1> USE DEF LocksInv, BeginCleanup
<1>0. b \in Tickets
  BY DEF LocksTypeOK
<1>1. LocksTypeOK' /\ CallInv' /\ LockInv'
  BY <1>0, TakenCalls DEF TakesTicket, Removing
<1> DEFINE f == Frame("cleanup", "entry", b.slot, b.num)
<1>2. \A u \in Callers, j \in Keys : at'[u][j] = IF u = t /\ j = b.key THEN f ELSE at[u][j]
  BY DEF LocksTypeOK, Becomes
<1>3. KeyInv'
  <2>1. \A s \in Slots, j \in Keys : Refers(j, s)' => Refers(j, s)
    BY <1>0, <1>2 DEF Refers, Tickets, Frame
  <2> QED BY <2>1 DEF KeyInv
<1>4. BuildInv'
  BY <1>0, <1>2 DEF BuildInv, Publishing, Called, Reserved, Ticket, Frame
<1>5. CleanInv'
  <2> USE DEF CleanInv, Cleaning, Called, Ticket, Tickets, Frame
  <2>1. Cleaning(t, b.key)' /\ Called(t, b.key)' = b
    BY <1>0, <1>2
  <2>2. b \notin building
    BY DEF BuildInv
  <2> QED BY <1>0, <1>2, <2>1, <2>2
<1> QED BY <1>1, <1>3, <1>4, <1>5

LEMMA ConstructInv ==
  ASSUME LocksInv, NEW b \in building, Construct(b)
  PROVE  LocksInv'
<1> USE DEF LocksInv, Construct
<1>1. LocksTypeOK' /\ CallInv' /\ LockInv'
  BY DEF LocksTypeOK, CallInv, FrameOK, ReadOK, LockInv, HoldsShard, HoldsSlot
<1>2. KeyInv'
  BY DEF KeyInv, Refers
<1>3. BuildInv'
  BY DEF BuildInv, Publishing, Called, Reserved, Ticket
<1>4. CleanInv'
  <2> USE DEF CleanInv, BuildInv, Cleaning, Called, Ticket
  <2>1. b.num <= slot[b.slot].num
    BY DEF Reserved, LocksTypeOK, Tickets
  <2>2. \A t \in Callers, k \in Keys : Cleaning(t, k) => Called(t, k) # b
    OBVIOUS
  <2> QED BY <2>1, <2>2
<1> QED BY <1>1, <1>2, <1>3, <1>4

\* A claim becomes the owner of a slot that nobody else has reserved.
LEMMA OwnInv ==
  ASSUME LocksInv, NEW t \in Callers, NEW k \in Keys, NEW s \in Slots, NEW n \in Nat,
         Owns(t, k, s, n), at[t][k].op = "claim", at[t][k].pc \in {"entered", "refused"},
         \/ /\ entries[k] = None /\ Unreferenced(s) /\ entries' = [entries EXCEPT ![k] = s]
         \/ /\ entries[k] = s /\ slot[s].state = "Active" /\ n = slot[s].num + 1
            /\ HoldsSlot(t, k) /\ at[t][k].slot = s /\ UNCHANGED entries
  PROVE  LocksInv'
<1> DEFINE f == Frame("claim", "Owner", None, 0)
<1> USE DEF LocksInv, Owns, Reply, Becomes
<1>1. \A u \in Callers, j \in Keys : at'[u][j] = IF u = t /\ j = k THEN f ELSE at[u][j]
  BY DEF LocksTypeOK
<1>2. f \in Calls /\ f.pc = "Owner" /\ f.op = "claim" /\ f.slot = None
  BY DEF Frame, Calls, Locations, Replies
<1>3. \A r \in Slots : slot'[r] = IF r = s THEN [state |-> "Starting", num |-> n] ELSE slot[r]
  BY DEF LocksTypeOK
<1>4. slot'[s].state = "Starting" /\ slot'[s].num = n
  BY <1>3
<1>5. \A j \in Keys : entries'[j] = IF j = k THEN s ELSE entries[j]
  BY DEF LocksTypeOK
<1>6. Ticket(k, s, n) \in Tickets /\ Ticket(k, s, n).slot = s /\ Ticket(k, s, n).key = k
      /\ Ticket(k, s, n).num = n
  BY DEF Ticket, Tickets
<1>7. LocksTypeOK'
  <2>1. at' \in [Callers -> [Keys -> Calls]]
    BY <1>2 DEF LocksTypeOK
  <2>2. slot' \in [Slots -> [state : {"unused", "Starting", "Active"}, num : Nat]]
    BY DEF LocksTypeOK
  <2>3. \A u \in Callers, j \in Keys :
          at'[u][j].pc \in {"slot", "locked", "drop", "refused", "erase"} => at'[u][j].slot \in Slots
    BY <1>1, <1>2 DEF LocksTypeOK
  <2> QED BY <1>6, <2>1, <2>2, <2>3 DEF LocksTypeOK
\* Nobody else is about this slot with something it has read there.
<1>8. ASSUME NEW u \in Callers, NEW j \in Keys, ~(u = t /\ j = k), at[u][j].slot = s
      PROVE  /\ j = k /\ ~HoldsSlot(u, j) /\ at[u][j].pc # "erase"
             /\ at[t][k].pc = "refused" /\ entries[k] = s
  <2>1. ~Unreferenced(s)
    BY <1>8 DEF Unreferenced
  <2>2. entries[k] = s /\ HoldsSlot(t, k) /\ at[t][k].slot = s
    BY <2>1
  <2>3. j = k
    BY <1>8, <2>2 DEF KeyInv, Refers
  <2>4. ~HoldsSlot(u, j)
    BY <1>8, <2>2 DEF LockInv
  <2>5. at[u][j].pc # "erase"
    <3>1. HoldsShard(t, k)
      BY DEF HoldsShard
    <3>2. at[u][j].pc = "erase" => HoldsShard(u, j)
      <4>1. FrameOK(at[u][j]) /\ at[u][j] \in Calls
        BY TypeOf
      <4> HIDE DEF LocksInv, Owns, Reply, Becomes
      <4> QED BY <4>1 DEF FrameOK, Calls, Removing, Replies, HoldsShard
    <3> QED BY <1>8, <2>3, <3>1, <3>2 DEF LockInv
  <2>6. at[t][k].pc = "refused"
    BY <2>2 DEF HoldsSlot
  <2> QED BY <2>2, <2>3, <2>4, <2>5, <2>6
<1>9. CallInv'
  <2> SUFFICES ASSUME NEW u \in Callers, NEW j \in Keys
               PROVE  FrameOK(at'[u][j]) /\ ReadOK(j, at[u][j])'
    BY DEF CallInv, FrameOK
  <2>1. CASE u = t /\ j = k
    BY <1>1, <2>1 DEF Frame, FrameOK, ReadOK, Replies, Removing
  <2>2. CASE ~(u = t /\ j = k)
    <3>1. at'[u][j] = at[u][j] /\ FrameOK(at[u][j]) /\ ReadOK(j, at[u][j])
      BY <1>1, <2>2 DEF CallInv
    <3>2. at[u][j].slot # s \/ (~HoldsSlot(u, j) /\ at[u][j].pc # "erase")
      BY <1>8, <2>2
    <3>3. j = k /\ at[u][j].op \in {"claim"} \cup Removing
            /\ at[u][j].pc \in {"slot", "locked", "drop", "refused", "erase"} => entries[k] = s
      <4>1. j = k /\ at[u][j].op \in {"claim"} \cup Removing
              /\ at[u][j].pc \in {"slot", "locked", "drop", "refused", "erase"}
              => HoldsShard(u, j) /\ HoldsShard(t, k)
        BY DEF HoldsShard
      <4> QED BY <2>2, <4>1 DEF LockInv
    <3>4. at[u][j].pc \in {"drop", "refused", "erase"} => at[u][j].slot \in Slots
      BY DEF LocksTypeOK
    <3> QED BY <1>3, <1>5, <3>1, <3>2, <3>3, <3>4 DEF ReadOK, HoldsSlot
  <2> QED BY <2>1, <2>2
<1>10. LockInv'
  <2>1. Locked(t, k, f)
    BY <1>2 DEF Locked
  <2> QED BY <1>2, <2>1, MovedLocks
<1>11. KeyInv'
  <2>1. \A r \in Slots, j \in Keys : Refers(j, r)' => Refers(j, r) \/ (r = s /\ j = k)
    BY <1>1, <1>2, <1>5, <1>6, NoneAssumption DEF Refers
  <2>2. \A j \in Keys : Refers(j, s) => j = k
    <3>1. CASE Unreferenced(s)
      BY <3>1 DEF Unreferenced, Refers
    <3>2. CASE entries[k] = s
      BY <3>2 DEF KeyInv, Refers
    <3> QED BY <3>1, <3>2
  <2> QED BY <2>1, <2>2 DEF KeyInv
\* Nor is there a reservation of it, and the numbers of its cleanups are smaller.
<1>12. /\ \A b \in building \cup built : b.slot # s
       /\ \A u \in Callers, j \in Keys : Publishing(u, j) => at[u][j].slot # s
  <2>1. CASE Unreferenced(s)
    BY <2>1 DEF Unreferenced
  <2>2. CASE slot[s].state = "Active"
    <3>1. \A b \in building \cup built : b.slot # s
      BY <2>2 DEF BuildInv, Reserved
    <3>2. \A u \in Callers, j \in Keys : Publishing(u, j) => at[u][j].slot # s
      BY <2>2 DEF BuildInv, Reserved, Called, Ticket
    <3> QED BY <3>1, <3>2
  <2> QED BY <2>1, <2>2
<1>13. /\ \A b \in closures : b.slot = s => b.num < n
       /\ \A u \in Callers, j \in Keys : Cleaning(u, j) /\ at[u][j].slot = s => at[u][j].num < n
  <2>1. CASE Unreferenced(s)
    BY <2>1 DEF Unreferenced
  <2>2. CASE n = slot[s].num + 1
    <3>1. slot[s].num \in Nat /\ \A b \in closures : b.num \in Nat
      BY DEF LocksTypeOK, Tickets
    <3>2. \A u \in Callers, j \in Keys : at[u][j].num \in Nat
      BY DEF LocksTypeOK, Calls
    <3> QED BY <2>2, <3>1, <3>2 DEF CleanInv
  <2> QED BY <2>1, <2>2
<1>14. BuildInv'
  <2>1. \A b \in building' \cup built' : Reserved(b)'
    <3>1. \A b \in building \cup built : b.slot \in Slots
      BY DEF LocksTypeOK, Tickets
    <3> QED BY <1>3, <1>4, <1>6, <1>12, <3>1 DEF BuildInv, Reserved
  <2>2. building' \cap (built' \cup closures') = {}
    BY <1>6, <1>12, <1>13 DEF BuildInv
  <2>3. ASSUME NEW u \in Callers, NEW j \in Keys, Publishing(u, j)'
        PROVE  /\ Reserved(Called(u, j))' /\ at'[u][j].slot \in Slots
               /\ Called(u, j)' \notin building' \cup built'
               /\ \A v \in Callers : Publishing(v, j)' /\ at'[v][j].slot = at'[u][j].slot => v = u
    <3>1. \A v \in Callers : Publishing(v, j)' => Publishing(v, j) /\ at'[v][j] = at[v][j]
      BY <1>1, <1>2 DEF Publishing
    <3>2. /\ Reserved(Called(u, j)) /\ at[u][j].slot \in Slots /\ at[u][j].slot # s
          /\ Called(u, j) \notin building \cup built
          /\ \A v \in Callers : Publishing(v, j) /\ at[v][j].slot = at[u][j].slot => v = u
      BY <1>12, <2>3, <3>1 DEF BuildInv
    <3>3. Called(u, j)' = Called(u, j) /\ Called(u, j).slot = at[u][j].slot
      BY <2>3, <3>1 DEF Called, Ticket
    <3> QED BY <1>3, <1>6, <2>3, <3>1, <3>2, <3>3 DEF Reserved
  <2> QED BY <2>1, <2>2, <2>3 DEF BuildInv
<1>15. CleanInv'
  <2>1. \A b \in closures' : b.num <= slot'[b.slot].num
    <3>1. \A b \in closures : b.slot \in Slots /\ b.num \in Nat
      BY DEF LocksTypeOK, Tickets
    <3> QED BY <1>3, <1>4, <1>13, <3>1 DEF CleanInv
  <2>2. ASSUME NEW u \in Callers, NEW j \in Keys, Cleaning(u, j)'
        PROVE  /\ at'[u][j].num <= slot'[at'[u][j].slot].num
               /\ Called(u, j)' \notin building' \cup closures'
               /\ \A v \in Callers : Cleaning(v, j)' /\ Called(v, j)' = Called(u, j)' => v = u
    <3>1. \A v \in Callers : Cleaning(v, j)' => Cleaning(v, j) /\ at'[v][j] = at[v][j]
      BY <1>1, <1>2 DEF Cleaning
    <3>2. at[u][j].num \in Nat /\ at[u][j].slot \in Slots
      BY <2>2, <3>1 DEF Cleaning, LocksTypeOK, Calls, CallInv, FrameOK, Removing
    <3>3. /\ at[u][j].num <= slot[at[u][j].slot].num /\ Called(u, j) \notin building \cup closures
          /\ \A v \in Callers : Cleaning(v, j) /\ Called(v, j) = Called(u, j) => v = u
          /\ at[u][j].slot = s => at[u][j].num < n
      BY <1>13, <2>2, <3>1 DEF CleanInv
    <3>4. \A v \in Callers : Cleaning(v, j)' => Called(v, j)' = Called(v, j)
      BY <3>1 DEF Called
    <3>5. Called(u, j) # Ticket(k, s, n)
      BY <3>2, <3>3 DEF Called, Ticket
    <3> QED BY <1>3, <1>4, <2>2, <3>1, <3>2, <3>3, <3>4, <3>5
  <2> QED BY <2>1, <2>2 DEF CleanInv
<1> QED BY <1>7, <1>9, <1>10, <1>11, <1>14, <1>15

LEMMA ClaimVacantInv ==
  ASSUME LocksInv, NEW t \in Callers, NEW k \in Keys, ClaimVacant(t, k)
  PROVE  LocksInv'
<1>1. CASE Reply(t, k, "ShuttingDown") /\ UNCHANGED mapVars
  BY <1>1, RepliedInv DEF Replies
<1>2. ASSUME NEW s \in Slots, Unreferenced(s), entries' = [entries EXCEPT ![k] = s],
             Owns(t, k, s, 1)
      PROVE  LocksInv'
  BY <1>2, OwnInv DEF ClaimVacant, At, Is
<1> QED BY <1>1, <1>2 DEF ClaimVacant

LEMMA ClaimRefusedInv ==
  ASSUME LocksInv, NEW t \in Callers, NEW k \in Keys, ClaimRefused(t, k)
  PROVE  LocksInv'
<1>1. CASE Reply(t, k, "ShuttingDown") /\ UNCHANGED mapVars
  BY <1>1, RepliedInv DEF Replies
<1>2. CASE \E s \in {at[t][k].slot} : Owns(t, k, s, slot[s].num + 1) /\ UNCHANGED entries
  <2> DEFINE s == at[t][k].slot
  <2>1. at[t][k].pc = "refused" /\ s \in Slots
    BY TypeOf DEF ClaimRefused, At
  <2>2. at[t][k].op = "claim"
    BY <2>1, TypeOf DEF FrameOK, Calls, Removing, Replies
  <2>3. entries[k] = s /\ slot[s].state = "Active"
    BY <2>1, <2>2, TypeOf DEF ReadOK
  <2>4. slot[s].num + 1 \in Nat
    BY <2>1 DEF LocksInv, LocksTypeOK
  <2> QED BY <1>2, <2>1, <2>2, <2>3, <2>4, OwnInv DEF HoldsSlot
<1> QED BY <1>1, <1>2 DEF ClaimRefused

\* The constructor publishes what it has reserved.
LEMMA PublishSlotInv ==
  ASSUME LocksInv, NEW t \in Callers, NEW k \in Keys, PublishSlot(t, k)
  PROVE  LocksInv'
<1> DEFINE s == at[t][k].slot
           n == at[t][k].num
<1>0. at[t][k].pc = "locked" /\ at[t][k].op = "publish" /\ s \in Slots /\ HoldsSlot(t, k)
  BY TypeOf DEF PublishSlot, At, Is, HoldsSlot
<1>1. slot[s].state = "Starting" /\ slot[s].num = n /\ n \in Nat
  BY <1>0 DEF LocksInv, BuildInv, Publishing, Reserved, Called, Ticket, LocksTypeOK
<1>2. \A u \in Callers, j \in Keys : at'[u][j] = IF u = t /\ j = k THEN Out ELSE at[u][j]
  BY DEF PublishSlot, Leave, Becomes, LocksInv, LocksTypeOK
<1>3. \A r \in Slots : slot'[r].num = slot[r].num /\ (r # s => slot'[r] = slot[r])
  BY <1>0, <1>1 DEF PublishSlot, LocksInv, LocksTypeOK
<1>4. UNCHANGED <<entries, building, built, closures>> /\ Out.op = "none" /\ Out.slot = None
      /\ Out.pc = "out" /\ Out \in Calls
  BY DEF PublishSlot, ticketVars, Out, Frame, Calls, Locations
<1>5. slot'[s].state = "Active"
  BY <1>0 DEF PublishSlot, LocksInv, LocksTypeOK
<1>6. LocksTypeOK'
  <2>1. at' \in [Callers -> [Keys -> Calls]]
    BY <1>4 DEF PublishSlot, Leave, Becomes, LocksInv, LocksTypeOK
  <2>2. slot' \in [Slots -> [state : {"unused", "Starting", "Active"}, num : Nat]]
    BY <1>1 DEF PublishSlot, LocksInv, LocksTypeOK
  <2> QED BY <1>2, <1>4, <2>1, <2>2 DEF LocksInv, LocksTypeOK
<1>7. CallInv'
  <2> SUFFICES ASSUME NEW u \in Callers, NEW j \in Keys
               PROVE  FrameOK(at'[u][j]) /\ ReadOK(j, at[u][j])'
    BY DEF CallInv, FrameOK
  <2>1. CASE u = t /\ j = k
    BY <1>2, <1>4, <2>1 DEF FrameOK, ReadOK, Replies, Removing
  <2>2. CASE ~(u = t /\ j = k)
    BY <1>0, <1>2, <1>3, <1>4, <1>5, <2>2, TypeOf DEF ReadOK
  <2> QED BY <2>1, <2>2
<1>8. LockInv'
  <2>1. Locked(t, k, Out) /\ Becomes(t, k, Out) /\ LocksTypeOK /\ LockInv
    BY <1>4 DEF Locked, PublishSlot, Leave, LocksInv
  <2> QED BY <1>4, <2>1, MovedLocks
<1>9. KeyInv'
  <2>1. \A r \in Slots, j \in Keys : Refers(j, r)' => Refers(j, r)
    BY <1>2, <1>4, NoneAssumption DEF Refers
  <2> QED BY <2>1 DEF KeyInv, LocksInv
\* Nobody else has a reservation of the slot.
<1>10. /\ \A b \in building \cup built : b.slot # s
       /\ \A u \in Callers, j \in Keys : ~(u = t /\ j = k) /\ Publishing(u, j) => at[u][j].slot # s
  <2>1. \A b \in building \cup built : b.slot # s
    BY <1>0, OneReservation DEF Publishing
  <2>2. ASSUME NEW u \in Callers, NEW j \in Keys, ~(u = t /\ j = k), Publishing(u, j),
               at[u][j].slot = s
        PROVE  FALSE
    <3>1. j = k
      BY <1>0, <2>2 DEF LocksInv, KeyInv, Refers
    <3> QED BY <1>0, <2>2, <3>1 DEF LocksInv, BuildInv, Publishing
  <2> QED BY <2>1, <2>2
<1>11. BuildInv'
  <2>1. \A b \in building \cup built : Reserved(b)'
    BY <1>3, <1>4, <1>10 DEF LocksInv, LocksTypeOK, Tickets, BuildInv, Reserved
  <2>2. ASSUME NEW u \in Callers, NEW j \in Keys, Publishing(u, j)'
        PROVE  /\ Reserved(Called(u, j))' /\ at'[u][j].slot \in Slots
               /\ Called(u, j)' \notin building' \cup built'
               /\ \A v \in Callers : Publishing(v, j)' /\ at'[v][j].slot = at'[u][j].slot => v = u
    <3>1. \A v \in Callers : Publishing(v, j)'
             => Publishing(v, j) /\ at'[v][j] = at[v][j] /\ ~(v = t /\ j = k)
      BY <1>2, <1>4 DEF Publishing
    <3>2. /\ Reserved(Called(u, j)) /\ at[u][j].slot \in Slots /\ at[u][j].slot # s
          /\ Called(u, j) \notin building \cup built
          /\ \A v \in Callers : Publishing(v, j) /\ at[v][j].slot = at[u][j].slot => v = u
      BY <1>10, <2>2, <3>1 DEF LocksInv, BuildInv
    <3>3. Called(u, j)' = Called(u, j) /\ Called(u, j).slot = at[u][j].slot
      BY <2>2, <3>1 DEF Called, Ticket
    <3> QED BY <1>3, <1>4, <2>2, <3>1, <3>2, <3>3 DEF Reserved
  <2> QED BY <1>4, <2>1, <2>2 DEF LocksInv, BuildInv
<1>12. CleanInv'
  <2>1. \A b \in closures : b.num <= slot'[b.slot].num
    BY <1>3 DEF LocksInv, LocksTypeOK, Tickets, CleanInv
  <2>2. \A u \in Callers, j \in Keys : Cleaning(u, j)' => Cleaning(u, j) /\ at'[u][j] = at[u][j]
    BY <1>2, <1>4 DEF Cleaning
  <2>3. \A u \in Callers, j \in Keys : Cleaning(u, j) => at[u][j].slot \in Slots
    BY TypeOf DEF Cleaning, FrameOK, Removing
  <2> QED BY <1>3, <1>4, <2>1, <2>2, <2>3 DEF LocksInv, CleanInv, Called
<1> QED BY <1>6, <1>7, <1>8, <1>9, <1>11, <1>12 DEF LocksInv

\* remove_if() takes the entry out: nobody else has read it with the shard held.
LEMMA EraseInv ==
  ASSUME LocksInv, NEW t \in Callers, NEW k \in Keys, Erase(t, k)
  PROVE  LocksInv'
<1>0. at[t][k].pc = "erase" /\ at[t][k].op \in Removing /\ HoldsShard(t, k)
  <2>1. at[t][k].pc = "erase"
    BY DEF Erase, At
  <2>2. at[t][k].op \in Removing
    BY <2>1, TypeOf DEF FrameOK, Calls, Removing, Replies
  <2> QED BY <2>1, <2>2 DEF HoldsShard
<1>1. \A u \in Callers, j \in Keys : at'[u][j] = IF u = t /\ j = k THEN Out ELSE at[u][j]
  BY DEF Erase, Leave, Becomes, LocksInv, LocksTypeOK
<1>2. \A j \in Keys : entries'[j] = IF j = k THEN None ELSE entries[j]
  BY DEF Erase, LocksInv, LocksTypeOK
<1>3. UNCHANGED <<slot, building, built, closures>> /\ Out.op = "none" /\ Out.slot = None
      /\ Out.pc = "out" /\ Out \in Calls
  BY DEF Erase, ticketVars, Out, Frame, Calls, Locations
<1>4. LocksTypeOK'
  <2>1. at' \in [Callers -> [Keys -> Calls]]
    BY <1>3 DEF Erase, Leave, Becomes, LocksInv, LocksTypeOK
  <2>2. entries' \in [Keys -> Slots \cup {None}]
    BY DEF Erase, LocksInv, LocksTypeOK
  <2> QED BY <1>1, <1>3, <2>1, <2>2 DEF LocksInv, LocksTypeOK
<1>5. CallInv'
  <2> SUFFICES ASSUME NEW u \in Callers, NEW j \in Keys
               PROVE  FrameOK(at'[u][j]) /\ ReadOK(j, at[u][j])'
    BY DEF CallInv, FrameOK
  <2>1. CASE u = t /\ j = k
    BY <1>1, <1>3, <2>1 DEF FrameOK, ReadOK, Replies, Removing
  <2>2. CASE ~(u = t /\ j = k)
    <3>1. j = k => ~HoldsShard(u, j)
      BY <1>0, <2>2 DEF LocksInv, LockInv
    <3>2. at'[u][j] = at[u][j] /\ FrameOK(at[u][j]) /\ ReadOK(j, at[u][j])
      BY <1>1, <2>2, TypeOf
    <3>3. at[u][j].op \in {"claim"} \cup Removing
            /\ at[u][j].pc \in {"slot", "locked", "drop", "refused", "erase"} => j # k
      BY <3>1 DEF HoldsShard
    <3> QED BY <1>2, <1>3, <3>2, <3>3 DEF ReadOK
  <2> QED BY <2>1, <2>2
<1>6. LockInv'
  <2>1. Locked(t, k, Out) /\ Becomes(t, k, Out) /\ LocksTypeOK /\ LockInv
    BY <1>3 DEF Locked, Erase, Leave, LocksInv
  <2> QED BY <1>3, <2>1, MovedLocks
<1>7. KeyInv'
  <2>1. \A r \in Slots, j \in Keys : Refers(j, r)' => Refers(j, r)
    BY <1>1, <1>2, <1>3, NoneAssumption DEF Refers
  <2> QED BY <2>1 DEF KeyInv, LocksInv
<1>8. \A u \in Callers, j \in Keys :
        at'[u][j].op # "none" => at'[u][j] = at[u][j] /\ Called(u, j)' = Called(u, j)
  BY <1>1, <1>3 DEF Called
<1>9. BuildInv'
  BY <1>3, <1>8 DEF LocksInv, BuildInv, Publishing, Reserved
<1>10. CleanInv'
  BY <1>3, <1>8 DEF LocksInv, CleanInv, Cleaning
<1> QED BY <1>4, <1>5, <1>6, <1>7, <1>9, <1>10 DEF LocksInv

-----------------------------------------------------------------------------
LEMMA LocksInitInv == LocksInit => LocksInv
<1> SUFFICES ASSUME LocksInit PROVE LocksInv
  OBVIOUS
<1>1. \A t \in Callers, k \in Keys : at[t][k] = Out
  BY DEF LocksInit
<1>2. Out \in Calls /\ Out.op = "none" /\ Out.pc = "out" /\ Out.slot = None
  BY DEF Out, Frame, Calls, Locations
<1>3. LocksTypeOK
  BY <1>1, <1>2 DEF LocksInit, LocksTypeOK
<1>4. CallInv /\ LockInv
  BY <1>1, <1>2 DEF CallInv, FrameOK, ReadOK, LockInv, HoldsShard, HoldsSlot, Replies, Removing
<1>5. KeyInv /\ BuildInv /\ CleanInv
  BY <1>1, <1>2, NoneAssumption
     DEF LocksInit, KeyInv, Refers, BuildInv, Publishing, CleanInv, Cleaning
<1> QED BY <1>3, <1>4, <1>5 DEF LocksInv

LEMMA LocksStepInv == LocksInv /\ [LocksNext]_lvars => LocksInv'
<1> SUFFICES ASSUME LocksInv, [LocksNext]_lvars PROVE LocksInv'
  OBVIOUS
<1>1. CASE UNCHANGED lvars
  BY <1>1 DEF lvars, LocksInv, LocksTypeOK, CallInv, FrameOK, ReadOK, LockInv, HoldsShard, HoldsSlot,
              KeyInv, Refers, BuildInv, Publishing, Reserved, Called, CleanInv, Cleaning
<1>2. ASSUME NEW t \in Callers, NEW k \in Keys, CallStep(t, k) PROVE LocksInv'
  BY <1>2, FetchInv, EnteredInv, QuietInv, ClaimVacantInv, ClaimRefusedInv, PublishSlotInv, EraseInv
     DEF CallStep
<1>3. ASSUME NEW t \in Callers, NEW k \in Keys,
             \/ DropDone(t, k) \/ Return(t, k)
             \/ \E o \in {"claim", "get"} : Begin(t, k, o)
             \/ \E u \in Nested, l \in Keys : LookUp(t, k, u, l)
      PROVE  LocksInv'
  BY <1>3, QuietInv, EnteredInv, LookUpInv
<1>4. ASSUME NEW t \in Callers, NEW b, BeginPublish(t, b) \/ BeginGuard(t, b) \/ BeginCleanup(t, b)
      PROVE  LocksInv'
  BY <1>4, BeginPublishInv, BeginGuardInv, BeginCleanupInv DEF BeginPublish, BeginGuard, BeginCleanup
<1>5. ASSUME NEW b \in building, Construct(b) PROVE LocksInv'
  BY <1>5, ConstructInv
<1> QED BY <1>1, <1>2, <1>3, <1>4, <1>5 DEF LocksNext, Callers

LEMMA LocksInvariant == LocksSpec => []LocksInv
BY LocksInitInv, LocksStepInv, PTL DEF LocksSpec

\* The types of the map, the slots, the tickets and the calls, for any number
\* of threads, keys and slots.
THEOREM LocksTypes == LocksSpec => []LocksTypeOK
<1>1. LocksInv => LocksTypeOK
  BY DEF LocksInv
<1> QED BY <1>1, LocksInvariant, PTL

-----------------------------------------------------------------------------
(* Lookups: whose they are, and that a caller is in one call at a time. *)

\* A caller that is idle or in this call goes on, out of a Drop only if no
\* lookup of it is under way.
LEMMA NestMoved ==
  ASSUME LocksTypeOK, NestInv, NEW t \in Callers, NEW k \in Keys, NEW f, Becomes(t, k, f),
         at[t][k] # Out \/ Idle(t),
         f.of = None \/ (f.of = at[t][k].of /\ f.op = at[t][k].op),
         at[t][k].pc # "drop" \/ f.pc = "drop" \/ ~InLookUp(t)
  PROVE  NestInv'
<1>1. \A u \in Callers, j \in Keys : at'[u][j] = IF u = t /\ j = k THEN f ELSE at[u][j]
  BY DEF LocksTypeOK, Becomes
<1>2. \A j \in Keys : j # k => at[t][j] = Out
  BY DEF NestInv, Idle
<1>3. ASSUME NEW u \in Callers, NEW l \in Keys, at'[u][l].of # None
      PROVE  at'[u][l].op = "get" /\ \E j \in Keys : at'[at'[u][l].of][j].pc = "drop"
  <2>1. at'[u][l].of = at[u][l].of /\ at'[u][l].op = at[u][l].op
    BY <1>1, <1>3
  <2>2. at[u][l].of \in Callers /\ at[u][l].op = "get"
    BY <1>3, <2>1 DEF LocksTypeOK, Calls, NestInv
  <2>3. PICK j \in Keys : at[at[u][l].of][j].pc = "drop"
    BY <1>3, <2>1 DEF NestInv
  <2>4. at'[at[u][l].of][j].pc = "drop"
    <3>1. CASE at[u][l].of = t /\ j = k
      <4>1. InLookUp(t) /\ at[t][k].pc = "drop"
        BY <2>3, <3>1 DEF InLookUp
      <4> QED BY <1>1, <3>1, <4>1
    <3> QED BY <1>1, <2>2, <2>3, <3>1
  <2> QED BY <2>1, <2>2, <2>4
<1>4. ASSUME NEW v \in Callers, NEW i \in Keys, NEW j \in Keys, at'[v][i] # Out, at'[v][j] # Out
      PROVE  i = j
  <2>1. CASE v = t
    BY <1>1, <1>2, <1>4, <2>1
  <2>2. CASE v # t
    BY <1>1, <1>4, <2>2 DEF NestInv
  <2> QED BY <2>1, <2>2
<1> QED BY <1>3, <1>4 DEF NestInv

LEMMA NestCall ==
  ASSUME LocksInv, NestInv, NEW t \in Callers, NEW k \in Keys,
         CallStep(t, k) \/ DropDone(t, k) \/ Return(t, k)
  PROVE  NestInv'
<1> DEFINE c == at[t][k]
           Goes(f) == Becomes(t, k, f) /\ (f.of = None \/ (f.of = c.of /\ f.op = c.op))
<1>0. c \in Calls /\ LocksTypeOK
  BY TypeOf DEF LocksInv
<1>1. Out.of = None /\ Out.pc = "out"
  BY DEF Out, Frame
<1>2. c.pc # "out" /\ (c.pc # "drop" \/ ~InLookUp(t))
  <2> USE DEF At, Is, Looks, Replies
  <2>1. CASE Fetch(t, k) \/ Enter(t, k) \/ LockSlot(t, k) \/ ClaimVacant(t, k) \/ ClaimOccupied(t, k)
    BY <2>1 DEF Fetch, Enter, LockSlot, ClaimVacant, ClaimOccupied
  <2>2. CASE \/ ClaimStarting(t, k) \/ ClaimActive(t, k) \/ ClaimRefused(t, k)
             \/ GetStarting(t, k) \/ GetActive(t, k)
    BY <2>2 DEF ClaimStarting, ClaimActive, ClaimRefused, GetStarting, GetActive
  <2>3. CASE PublishSlot(t, k) \/ RemoveSame(t, k) \/ Compare(t, k) \/ Erase(t, k)
    BY <2>3 DEF PublishSlot, RemoveSame, Compare, Erase
  <2>4. CASE DropDone(t, k) \/ Return(t, k)
    BY <2>4 DEF DropDone, Return
  <2> QED BY <2>1, <2>2, <2>3, <2>4 DEF CallStep
<1>3. \/ Leave(t, k) \/ (\E l \in Locations : Jump(t, k, l)) \/ (\E r \in Replies : Reply(t, k, r))
      \/ Becomes(t, k, [c EXCEPT !.pc = "slot", !.slot = entries[k]])
      \/ Becomes(t, k, Frame("claim", "slot", entries[k], 0))
  <2> USE DEF Locations, Replies
  <2>1. CASE Fetch(t, k) \/ Enter(t, k) \/ LockSlot(t, k) \/ ClaimOccupied(t, k)
    BY <2>1 DEF Fetch, Enter, LockSlot, ClaimOccupied
  <2>5. CASE ClaimVacant(t, k)
    BY <2>5 DEF ClaimVacant, Owns
  <2>2. CASE \/ ClaimStarting(t, k) \/ ClaimActive(t, k) \/ ClaimRefused(t, k)
             \/ GetStarting(t, k) \/ GetActive(t, k)
    BY <2>2 DEF ClaimStarting, ClaimActive, ClaimRefused, GetStarting, GetActive, Owns
  <2>3. CASE PublishSlot(t, k) \/ RemoveSame(t, k) \/ Compare(t, k) \/ Erase(t, k)
    BY <2>3 DEF PublishSlot, RemoveSame, Compare, Erase
  <2>4. CASE DropDone(t, k) \/ Return(t, k)
    BY <2>4 DEF DropDone, Return
  <2> QED BY <2>1, <2>2, <2>3, <2>4, <2>5 DEF CallStep
<1>4. PICK f : Goes(f)
  <2>1. CASE Leave(t, k)
    BY <1>1, <2>1 DEF Leave
  <2>2. ASSUME NEW l \in Locations, Jump(t, k, l) PROVE \E f : Goes(f)
    <3>1. [c EXCEPT !.pc = l].of = c.of /\ [c EXCEPT !.pc = l].op = c.op
      BY <1>0 DEF Calls
    <3> QED BY <2>2, <3>1 DEF Jump
  <2>3. ASSUME NEW r \in Replies, Reply(t, k, r) PROVE \E f : Goes(f)
    BY <2>3 DEF Reply, Frame
  <2>4. CASE Becomes(t, k, [c EXCEPT !.pc = "slot", !.slot = entries[k]])
    <3> DEFINE f == [c EXCEPT !.pc = "slot", !.slot = entries[k]]
    <3>1. f.of = c.of /\ f.op = c.op
      BY <1>0 DEF Calls
    <3> QED BY <2>4, <3>1
  <2>5. CASE Becomes(t, k, Frame("claim", "slot", entries[k], 0))
    BY <2>5 DEF Frame
  <2> QED BY <1>3, <2>1, <2>2, <2>3, <2>4, <2>5
<1> QED BY <1>0, <1>1, <1>2, <1>4, NestMoved

\* A call begins, of a thread or of an interface's Drop.
LEMMA NestBegin ==
  ASSUME LocksInv, NestInv, NEW t \in Callers, NEW k \in Keys, Idle(t), NEW f, Becomes(t, k, f),
         f.of = None
  PROVE  NestInv'
<1>1. at[t][k] = Out /\ Out.pc = "out" /\ LocksTypeOK
  BY DEF Idle, Out, Frame, LocksInv
<1> QED BY <1>1, NestMoved

LEMMA NestLookUp ==
  ASSUME LocksInv, NestInv, NEW t \in Callers, NEW k \in Keys, NEW u \in Nested, NEW l \in Keys,
         LookUp(t, k, u, l)
  PROVE  NestInv'
<1> DEFINE f == [Frame("get", "entry", None, 0) EXCEPT !.of = t]
<1>1. \A v \in Callers, j \in Keys : at'[v][j] = IF v = u /\ j = l THEN f ELSE at[v][j]
  BY DEF LookUp, Becomes, LocksInv, LocksTypeOK, Callers
<1>2. u \in Callers /\ f.of = t /\ f.op = "get" /\ at[t][k].pc = "drop" /\ Idle(u) /\ Out.pc = "out" /\ Out.of = None
  BY DEF LookUp, At, Frame, Out, Callers
<1>3. \A v \in Callers, j \in Keys : at[v][j].pc = "drop" => at'[v][j] = at[v][j]
  BY <1>1, <1>2 DEF Idle
<1>4. ASSUME NEW v \in Callers, NEW i \in Keys, at'[v][i].of # None
      PROVE  at'[v][i].op = "get" /\ \E j \in Keys : at'[at'[v][i].of][j].pc = "drop"
  <2>1. CASE v = u /\ i = l
    <3>1. at'[v][i].of = t /\ at'[v][i].op = "get"
      BY <1>1, <1>2, <2>1
    <3>2. at'[t][k].pc = "drop"
      BY <1>2, <1>3
    <3> QED BY <3>1, <3>2
  <2>2. CASE ~(v = u /\ i = l)
    <3>1. at'[v][i] = at[v][i] /\ at[v][i].of \in Callers
      BY <1>1, <1>4, <2>2 DEF LocksInv, LocksTypeOK, Calls
    <3>2. PICK j \in Keys : at[at[v][i].of][j].pc = "drop"
      BY <1>4, <3>1 DEF NestInv
    <3> QED BY <1>3, <1>4, <3>1, <3>2 DEF NestInv
  <2> QED BY <2>1, <2>2
<1>5. ASSUME NEW v \in Callers, NEW i \in Keys, NEW j \in Keys, at'[v][i] # Out, at'[v][j] # Out
      PROVE  i = j
  BY <1>1, <1>2, <1>5 DEF Idle, NestInv
<1> QED BY <1>4, <1>5 DEF NestInv

LEMMA NestInvariant == LocksSpec => []NestInv
<1>1. LocksInit => NestInv
  BY DEF LocksInit, NestInv, Out, Frame
<1>2. LocksInv /\ NestInv /\ [LocksNext]_lvars => NestInv'
  <2> SUFFICES ASSUME LocksInv, NestInv, [LocksNext]_lvars PROVE NestInv'
    OBVIOUS
  <2>1. CASE UNCHANGED at
    BY <2>1 DEF NestInv
  <2>2. ASSUME NEW t \in Threads, NEW k \in Keys, NEW o \in {"claim", "get"}, Begin(t, k, o)
        PROVE  NestInv'
    BY <2>2, NestBegin DEF Begin, Frame, Callers
  <2>3. ASSUME NEW t \in Threads, NEW b \in building \cup built \cup closures,
               BeginPublish(t, b) \/ BeginGuard(t, b) \/ BeginCleanup(t, b)
        PROVE  NestInv'
    <3>1. b.key \in Keys /\ t \in Callers
      BY DEF LocksInv, LocksTypeOK, Tickets, Callers
    <3>2. PICK f : Idle(t) /\ Becomes(t, b.key, f) /\ f.of = None
      BY <2>3 DEF BeginPublish, BeginGuard, BeginCleanup, Frame
    <3> QED BY <3>1, <3>2, NestBegin
  <2>4. ASSUME NEW t \in Callers, NEW k \in Keys,
               \/ CallStep(t, k) \/ DropDone(t, k) \/ Return(t, k)
               \/ \E u \in Nested, l \in Keys : LookUp(t, k, u, l)
        PROVE  NestInv'
    BY <2>4, NestCall, NestLookUp
  <2>5. ASSUME NEW b \in building, Construct(b) PROVE UNCHANGED at
    BY <2>5 DEF Construct
  <2> QED BY <2>1, <2>2, <2>3, <2>4, <2>5 DEF LocksNext, lvars
<1> QED BY <1>1, <1>2, LocksInvariant, PTL DEF LocksSpec

-----------------------------------------------------------------------------
(* No deadlock: of the calls in the last shard that is in use none is in a  *)
(* lookup that goes forwards, so one of them can go on, or waits for one    *)
(* that is in the same shard or the same slot, and can.                     *)

Last(k) == \A u \in Callers, j \in Keys : Busy(u, j) => Shard[j] <= Shard[k]

LEMMA LastStands ==
  ASSUME LocksInv, NestInv, ~BackwardLookUp, NEW t \in Callers, NEW k \in Keys, Last(k), Busy(t, k)
  PROVE  ~InLookUp(t)
<1> SUFFICES ASSUME NEW u \in Callers, NEW l \in Keys, at[u][l].of = t PROVE FALSE
  BY DEF InLookUp
<1>1. Out.pc = "out" /\ Out.of = None /\ t # None
  BY NoneAssumption DEF Out, Frame
<1>2. PICK j \in Keys : at[t][j].pc = "drop"
  BY <1>1 DEF NestInv
<1>3. j = k
  BY <1>1, <1>2 DEF NestInv, Busy
<1>4. ~(Shard[l] <= Shard[k])
  BY <1>2, <1>3 DEF BackwardLookUp
<1>5. Busy(u, l)
  <2>1. FrameOK(at[u][l]) /\ at[u][l].op = "get"
    BY <1>1, TypeOf DEF NestInv
  <2> QED BY <2>1 DEF FrameOK, Busy, Replies
<1> QED BY <1>4, <1>5 DEF Last

LEMMA InsideGoesOn ==
  ASSUME LocksInv, NestInv, ~BackwardLookUp, NEW t \in Callers, NEW k \in Keys, Last(k), Busy(t, k),
         at[t][k].pc # "entry"
  PROVE  \E u \in Callers, j \in Keys : CanGoOn(u, j)
<1>1. CASE at[t][k].pc # "slot" \/ SlotFree(at[t][k].slot)
  BY <1>1, LastStands DEF CanGoOn, At
<1>2. CASE at[t][k].pc = "slot" /\ ~SlotFree(at[t][k].slot)
  <2>1. PICK u \in Callers, j \in Keys : HoldsSlot(u, j) /\ at[u][j].slot = at[t][k].slot
    BY <1>2 DEF SlotFree
  <2>2. at[t][k].slot \in Slots
    BY <1>2, TypeOf
  <2>3. j = k
    BY <2>1, <2>2 DEF LocksInv, KeyInv, Refers
  <2>4. Busy(u, j)
    BY <2>1 DEF HoldsSlot, Busy, Replies
  <2>5. CanGoOn(u, j)
    BY <2>1, <2>3, <2>4, LastStands DEF CanGoOn, HoldsSlot, At
  <2> QED BY <2>5
<1> QED BY <1>1, <1>2

\* No call of the registry waits for a lock in vain unless an interface's Drop
\* looks a key up against the order of the shards, for any number of threads and
\* keys, whatever interfaces look up and however deep their Drops nest.
THEOREM BlocksOnlyBackward == LocksSpec => []OnlyBackwardLookUpsBlock
<1>1. LocksInv /\ NestInv => OnlyBackwardLookUpsBlock
  <2> SUFFICES ASSUME LocksInv, NestInv, ~BackwardLookUp, \E t \in Callers, k \in Keys : Busy(t, k)
               PROVE  \E t \in Callers, k \in Keys : CanGoOn(t, k)
    BY DEF OnlyBackwardLookUpsBlock
  <2> DEFINE Used == {k \in Keys : \E t \in Callers : Busy(t, k)}
  <2>1. PICK k \in Used : \A j \in Used : Shard[j] <= Shard[k]
    <3>1. Used \in SUBSET Keys /\ Used # {}
      OBVIOUS
    <3> HIDE DEF Used
    <3> QED BY <3>1, ShardAssumption
  <2>2. PICK t \in Callers : Busy(t, k)
    BY <2>1
  <2>3. Last(k) /\ k \in Keys
    BY <2>1 DEF Last
  <2>4. CASE at[t][k].pc # "entry"
    BY <2>2, <2>3, <2>4, InsideGoesOn
  <2>5. CASE at[t][k].pc = "entry" /\ ShardFree(k)
    BY <2>2, <2>3, <2>5, LastStands DEF CanGoOn, At
  <2>6. CASE at[t][k].pc = "entry" /\ ~ShardFree(k)
    <3>1. PICK u \in Callers, j \in Keys : HoldsShard(u, j) /\ Shard[j] = Shard[k]
      BY <2>6 DEF ShardFree
    <3>2. Busy(u, j) /\ at[u][j].pc # "entry"
      BY <3>1 DEF HoldsShard, Busy, Replies
    <3>3. Last(j)
      BY <2>3, <3>1 DEF Last
    <3> QED BY <3>2, <3>3, InsideGoesOn
  <2> QED BY <2>4, <2>5, <2>6
<1> QED BY <1>1, LocksInvariant, NestInvariant, PTL

-----------------------------------------------------------------------------
(* The refinement of the atomic registry. *)

LEMMA After ==
  ASSUME LocksTypeOK, NEW t \in Callers, NEW k \in Keys, NEW f, Becomes(t, k, f)
  PROVE  \A u \in Callers, j \in Keys : at'[u][j] = IF u = t /\ j = k THEN f ELSE at[u][j]
BY DEF LocksTypeOK, Becomes

LEMMA InCalls ==
  ASSUME NEW ops, NEW b
  PROVE  /\ b \in TicketsOf(ops) <=>
              \E t \in Callers, k \in Keys : at[t][k].op \in ops /\ b = Called(t, k)
         /\ b \in TicketsOf(ops)' <=>
              \E t \in Callers, k \in Keys : at'[t][k].op \in ops /\ b = Called(t, k)'
BY DEF TicketsOf

LEMMA SameTickets ==
  ASSUME NEW ops,
         \A u \in Callers, j \in Keys :
           /\ at'[u][j].op \in ops <=> at[u][j].op \in ops
           /\ at[u][j].op \in ops => Called(u, j)' = Called(u, j)
  PROVE  TicketsOf(ops)' = TicketsOf(ops)
<1>1. \A b : b \in TicketsOf(ops)' <=> b \in TicketsOf(ops)
  BY InCalls
<1> QED BY <1>1

\* A call that moves on with its ticket, or without one, is not seen.
LEMMA Unseen ==
  ASSUME LocksInv, NEW t \in Callers, NEW k \in Keys, NEW f \in Calls,
         Becomes(t, k, f), UNCHANGED mapVars, f.pc \notin Replies, at[t][k].pc \notin Replies,
         \/ /\ f.op \notin {"publish"} \cup Removing
            /\ at[t][k].op \notin {"publish"} \cup Removing
         \/ f.op = at[t][k].op /\ f.slot = at[t][k].slot /\ f.num = at[t][k].num
  PROVE  UNCHANGED Atomic!regVars
<1>1. \A u \in Callers, j \in Keys : at'[u][j] = IF u = t /\ j = k THEN f ELSE at[u][j]
  BY After DEF LocksInv
<1>2. Answer' = Answer
  BY <1>1 DEF Answer
<1>3. ASSUME NEW ops \in {{"publish", "guard"}, {"cleanup"}}
      PROVE  TicketsOf(ops)' = TicketsOf(ops)
  <2>1. \A u \in Callers, j \in Keys :
          /\ at'[u][j].op \in ops <=> at[u][j].op \in ops
          /\ at[u][j].op \in ops => Called(u, j)' = Called(u, j)
    BY <1>1 DEF Called, Removing
  <2> QED BY <2>1, SameTickets
<1> QED BY <1>2, <1>3 DEF Atomic!regVars, Reservations, Cleanups, mapVars, ticketVars

\* A claim answers.
LEMMA Answered ==
  ASSUME LocksInv, NEW t \in Callers, NEW k \in Keys, NEW r \in Replies,
         Reply(t, k, r), at[t][k].op = "claim", at[t][k].pc \notin Replies
  PROVE  /\ Atomic!Answers(t, k, r)
         /\ TicketsOf({"publish", "guard"})' = TicketsOf({"publish", "guard"})
         /\ TicketsOf({"cleanup"})' = TicketsOf({"cleanup"})
<1> DEFINE f == Frame("claim", r, None, 0)
<1>1. \A u \in Callers, j \in Keys : at'[u][j] = IF u = t /\ j = k THEN f ELSE at[u][j]
  BY After DEF LocksInv, Reply
<1>2. f.op = "claim" /\ f.pc = r
  BY DEF Frame
<1>3. Atomic!Answers(t, k, r)
  <2>1. Answer' = [Answer EXCEPT ![t][k] = r]
    <3> DEFINE now(u, j) == IF at[u][j].pc \in Replies THEN at[u][j].pc ELSE "none"
               next(u, j) == IF at'[u][j].pc \in Replies THEN at'[u][j].pc ELSE "none"
    <3>1. \A u \in Callers, j \in Keys : next(u, j) = IF u = t /\ j = k THEN r ELSE now(u, j)
      BY <1>1, <1>2
    <3>2. /\ Answer = [u \in Callers |-> [j \in Keys |-> now(u, j)]]
          /\ Answer' = [u \in Callers |-> [j \in Keys |-> next(u, j)]]
      BY DEF Answer
    <3> HIDE DEF now, next
    <3> QED BY <3>1, <3>2
  <2>2. Answer[t][k] = "none"
    BY DEF Answer
  <2> QED BY <2>1, <2>2 DEF Atomic!Answers
<1>4. ASSUME NEW ops \in {{"publish", "guard"}, {"cleanup"}}
      PROVE  TicketsOf(ops)' = TicketsOf(ops)
  <2>1. \A u \in Callers, j \in Keys :
          /\ at'[u][j].op \in ops <=> at[u][j].op \in ops
          /\ at[u][j].op \in ops => Called(u, j)' = Called(u, j)
    BY <1>1, <1>2 DEF Called
  <2> QED BY <2>1, SameTickets
<1> QED BY <1>3, <1>4

\* A call ends, and its ticket with it: it was the only one to have it.
LEMMA TicketGone ==
  ASSUME LocksInv, NEW t \in Callers, NEW k \in Keys, Leave(t, k), UNCHANGED ticketVars,
         at[t][k].op \in {"publish"} \cup Removing
  PROVE  /\ Answer' = Answer
         /\ at[t][k].op # "cleanup" =>
              /\ Called(t, k) \in Reservations /\ Reservations' = Reservations \ {Called(t, k)}
              /\ Cleanups' = Cleanups
         /\ at[t][k].op = "cleanup" =>
              /\ Called(t, k) \in Cleanups /\ Cleanups' = Cleanups \ {Called(t, k)}
              /\ Reservations' = Reservations
<1> DEFINE c == Called(t, k)
<1>1. \A u \in Callers, j \in Keys : at'[u][j] = IF u = t /\ j = k THEN Out ELSE at[u][j]
  BY After DEF LocksInv, Leave
<1>2. Out.op = "none" /\ Out.pc = "out" /\ at[t][k].pc \notin Replies
  <2>1. FrameOK(at[t][k])
    BY TypeOf
  <2> QED BY <2>1 DEF Out, Frame, FrameOK, Removing, Replies
<1>3. Answer' = Answer
  BY <1>1, <1>2 DEF Answer, Replies
<1>4. \A u \in Callers, j \in Keys :
        /\ at'[u][j].op # "none" => at'[u][j] = at[u][j] /\ ~(u = t /\ j = k)
        /\ ~(u = t /\ j = k) => at'[u][j] = at[u][j] /\ Called(u, j)' = Called(u, j)
  BY <1>1, <1>2 DEF Called
<1>5. \A u \in Callers, j \in Keys : Called(u, j) = c => j = k /\ at[u][j].slot = at[t][k].slot
  BY DEF Called, Ticket
<1>6. CASE at[t][k].op # "cleanup"
  <2>1. at[t][k].op \in {"publish", "guard"} /\ Publishing(t, k)
    BY <1>6 DEF Removing, Publishing
  <2>2. /\ c \notin building \cup built
        /\ \A u \in Callers, j \in Keys :
             at[u][j].op \in {"publish", "guard"} /\ Called(u, j) = c => u = t /\ j = k
    BY <1>5, <2>1 DEF LocksInv, BuildInv, Publishing
  <2>3. TicketsOf({"publish", "guard"})' = TicketsOf({"publish", "guard"}) \ {c}
    BY <1>4, <2>1, <2>2, InCalls
  <2>4. c \in TicketsOf({"publish", "guard"})
    BY <2>1, InCalls
  <2>5. TicketsOf({"cleanup"})' = TicketsOf({"cleanup"})
    <3>1. \A u \in Callers, j \in Keys :
            /\ at'[u][j].op \in {"cleanup"} <=> at[u][j].op \in {"cleanup"}
            /\ at[u][j].op \in {"cleanup"} => Called(u, j)' = Called(u, j)
      BY <1>4, <1>6
    <3> QED BY <3>1, SameTickets
  <2> QED BY <1>3, <1>6, <2>2, <2>3, <2>4, <2>5 DEF Reservations, Cleanups, ticketVars
<1>7. CASE at[t][k].op = "cleanup"
  <2>1. /\ c \notin closures
        /\ \A u \in Callers, j \in Keys :
             at[u][j].op \in {"cleanup"} /\ Called(u, j) = c => u = t /\ j = k
    BY <1>5, <1>7 DEF LocksInv, CleanInv, Cleaning
  <2>2. TicketsOf({"cleanup"})' = TicketsOf({"cleanup"}) \ {c}
    BY <1>4, <1>7, <2>1, InCalls
  <2>3. c \in TicketsOf({"cleanup"})
    BY <1>7, InCalls
  <2>4. TicketsOf({"publish", "guard"})' = TicketsOf({"publish", "guard"})
    <3>1. \A u \in Callers, j \in Keys :
            /\ at'[u][j].op \in {"publish", "guard"} <=> at[u][j].op \in {"publish", "guard"}
            /\ at[u][j].op \in {"publish", "guard"} => Called(u, j)' = Called(u, j)
      BY <1>4, <1>7
    <3> QED BY <3>1, SameTickets
  <2> QED BY <1>3, <1>7, <2>1, <2>2, <2>3, <2>4 DEF Reservations, Cleanups, ticketVars
<1> QED BY <1>6, <1>7

\* What a call answers without a change is what the atomic registry says.
LEMMA ToldAtomic ==
  ASSUME LocksInv, NEW t \in Callers, NEW k \in Keys, NEW r \in {"Wait", "Active", "ShuttingDown"},
         Reply(t, k, r), UNCHANGED mapVars, at[t][k].op = "claim", at[t][k].pc \notin Replies,
         Atomic!Saw(k, r)
  PROVE  Atomic!RegistryNext
<1>1. Atomic!Answers(t, k, r) /\ UNCHANGED <<Reservations, Cleanups>>
  BY Answered DEF Replies, Reservations, Cleanups, mapVars, ticketVars
<1>2. Atomic!Told(t, k, r)
  BY <1>1 DEF Atomic!Told, mapVars
<1> QED BY <1>2 DEF Atomic!RegistryNext

\* A claim that becomes the owner adds its ticket.
LEMMA OwnsAtomic ==
  ASSUME LocksInv, NEW t \in Callers, NEW k \in Keys, NEW s \in Slots, NEW n \in Nat,
         Owns(t, k, s, n), at[t][k].op = "claim", at[t][k].pc \notin Replies
  PROVE  Atomic!Owns(t, k, s, n)
<1>1. Atomic!Answers(t, k, "Owner")
  BY Answered DEF Owns, Replies
<1>2. Reservations' = Reservations \cup {Ticket(k, s, n)} /\ Cleanups' = Cleanups
  BY Answered DEF Owns, Replies, Reservations, Cleanups
<1> QED BY <1>1, <1>2 DEF Owns, Atomic!Owns, Atomic!Ticket, Ticket

LEMMA ClaimAtomic ==
  ASSUME LocksInv, NEW t \in Callers, NEW k \in Keys,
         ClaimVacant(t, k) \/ ClaimStarting(t, k) \/ ClaimRefused(t, k)
  PROVE  Atomic!RegistryNext
<1> USE DEF At, Is, Looks
<1>1. CASE ClaimVacant(t, k)
  <2>1. CASE Reply(t, k, "ShuttingDown") /\ UNCHANGED mapVars
    BY <1>1, <2>1, ToldAtomic DEF ClaimVacant, Atomic!Saw, Replies
  <2>2. ASSUME NEW s \in Slots, Unreferenced(s), entries' = [entries EXCEPT ![k] = s],
               Owns(t, k, s, 1)
        PROVE  Atomic!RegistryNext
    <3>1. Atomic!Owns(t, k, s, 1)
      BY <1>1, <2>2, OwnsAtomic DEF ClaimVacant, Replies
    <3>2. \A b \in Reservations \cup Cleanups : b.slot # s
      <4>1. \A u \in Callers, j \in Keys : Called(u, j).slot # s
        BY <2>2 DEF Called, Ticket, Unreferenced
      <4>2. \A b \in building \cup built \cup closures : b.slot # s
        BY <2>2 DEF Unreferenced
      <4> QED BY <4>1, <4>2, InCalls DEF Reservations, Cleanups
    <3>3. Atomic!Reserve(t, k, s)
      BY <1>1, <2>2, <3>1, <3>2 DEF ClaimVacant, Unreferenced, Atomic!Reserve
    <3> QED BY <3>3 DEF Atomic!RegistryNext
  <2> QED BY <1>1, <2>1, <2>2 DEF ClaimVacant
<1>2. CASE ClaimStarting(t, k)
  <2>1. entries[k] = at[t][k].slot /\ entries[k] \in Slots
    BY <1>2, TypeOf DEF ClaimStarting, ReadOK
  <2>2. Atomic!Saw(k, "Wait")
    BY <1>2, <2>1, NoneAssumption DEF ClaimStarting, Atomic!Saw
  <2> QED BY <1>2, <2>2, ToldAtomic DEF ClaimStarting, Replies
<1>3. CASE ClaimRefused(t, k)
  <2> DEFINE s == at[t][k].slot
  <2>1. at[t][k].pc = "refused" /\ s \in Slots
    BY <1>3, TypeOf DEF ClaimRefused
  <2>2. at[t][k].op = "claim"
    BY <2>1, TypeOf DEF FrameOK, Calls, Removing, Replies
  <2>3. entries[k] = s /\ slot[s].state = "Active" /\ s # None
    BY <2>1, <2>2, TypeOf, NoneAssumption DEF ReadOK
  <2>4. CASE Reply(t, k, "ShuttingDown") /\ UNCHANGED mapVars
    <3>1. Atomic!Saw(k, "ShuttingDown")
      BY <2>3 DEF Atomic!Saw
    <3> QED BY <2>1, <2>2, <2>4, <3>1, ToldAtomic DEF Replies
  <2>5. CASE Owns(t, k, s, slot[s].num + 1) /\ UNCHANGED entries
    <3>1. slot[s].num + 1 \in Nat
      BY <2>1 DEF LocksInv, LocksTypeOK
    <3>2. Atomic!Owns(t, k, s, slot[s].num + 1)
      BY <2>1, <2>2, <2>5, <3>1, OwnsAtomic DEF Replies
    <3>3. Atomic!TakeOver(t, k)
      BY <2>3, <2>5, <3>2 DEF Atomic!TakeOver
    <3> QED BY <3>3 DEF Atomic!RegistryNext
  <2> QED BY <1>3, <2>4, <2>5 DEF ClaimRefused
<1> QED BY <1>1, <1>2, <1>3

LEMMA ClaimActiveAtomic ==
  ASSUME LocksInv, NEW t \in Callers, NEW k \in Keys, ClaimActive(t, k)
  PROVE  Atomic!RegistryNext \/ UNCHANGED Atomic!regVars
<1>0. at[t][k].pc = "locked" /\ at[t][k].op = "claim" /\ slot[at[t][k].slot].state = "Active"
      /\ UNCHANGED mapVars
  BY DEF ClaimActive, Looks, At, Is
<1>1. CASE Reply(t, k, "Active")
  <2>1. Atomic!Saw(k, "Active")
    BY <1>0, TypeOf, NoneAssumption DEF ReadOK, Atomic!Saw
  <2> QED BY <1>0, <1>1, <2>1, ToldAtomic DEF Replies
<1>2. ASSUME NEW l \in {"drop", "refused"}, Jump(t, k, l)
      PROVE  UNCHANGED Atomic!regVars
  <2> DEFINE f == [at[t][k] EXCEPT !.pc = l]
  <2>1. f \in Calls /\ f.op = at[t][k].op /\ f.pc = l
    BY TypeOf DEF Calls, Locations
  <2> QED BY <1>0, <1>2, <2>1, Unseen DEF Jump, Replies, Removing
<1> QED BY <1>1, <1>2 DEF ClaimActive

\* The steps inside a call.
LEMMA JumpAtomic ==
  ASSUME LocksInv, NEW t \in Callers, NEW k \in Keys, NEW l \in Locations \ Replies,
         Jump(t, k, l), UNCHANGED mapVars, at[t][k].pc \notin Replies
  PROVE  UNCHANGED Atomic!regVars
<1> DEFINE f == [at[t][k] EXCEPT !.pc = l]
<1>1. f \in Calls /\ f.op = at[t][k].op /\ f.slot = at[t][k].slot /\ f.num = at[t][k].num /\ f.pc = l
  BY TypeOf DEF Calls
<1> QED BY <1>1, Unseen DEF Jump

LEMMA LookAtomic ==
  ASSUME LocksInv, NEW t \in Callers, NEW k \in Keys, NEW f \in Calls,
         Becomes(t, k, f), UNCHANGED mapVars, f.op \in {"none", "claim", "get"}, f.pc \notin Replies,
         at[t][k].op \in {"none", "claim", "get"}, at[t][k].pc \notin Replies
  PROVE  UNCHANGED Atomic!regVars
BY Unseen DEF Removing

LEMMA InsideAtomic ==
  ASSUME LocksInv, NEW t \in Callers, NEW k \in Keys,
         \/ \E o \in {"claim", "get"} : Begin(t, k, o)
         \/ Enter(t, k) \/ Fetch(t, k) \/ ClaimOccupied(t, k) \/ LockSlot(t, k)
         \/ GetStarting(t, k) \/ GetActive(t, k) \/ DropDone(t, k)
         \/ \E u \in Nested, l \in Keys : LookUp(t, k, u, l)
  PROVE  UNCHANGED Atomic!regVars
<1> USE DEF At, Is, Looks, Locations, Replies, Calls, Frame
<1>0. Out \in Calls /\ Out.op = "none" /\ Out.pc = "out"
  BY DEF Out
<1>1. CASE \E o \in {"claim", "get"} : Begin(t, k, o)
  <2> PICK o \in {"claim", "get"} : Begin(t, k, o)
    BY <1>1
  <2>1. at[t][k] = Out /\ Frame(o, "entry", None, 0) \in Calls
    BY DEF Begin, Idle
  <2> QED BY <1>0, <2>1, LookAtomic DEF Begin
<1>2. CASE Enter(t, k)
  BY <1>2, JumpAtomic DEF Enter
<1>3. CASE Fetch(t, k)
  <2>1. CASE entries[k] = None
    BY <1>0, <1>3, <2>1, LookAtomic DEF Fetch, Leave
  <2>2. CASE entries[k] # None
    <3>1. [at[t][k] EXCEPT !.pc = "slot", !.slot = entries[k]] \in Calls
      BY <2>2, TypeOf
    <3> QED BY <1>3, <2>2, <3>1, LookAtomic DEF Fetch
  <2> QED BY <2>1, <2>2
<1>4. CASE ClaimOccupied(t, k)
  <2>1. [at[t][k] EXCEPT !.pc = "slot", !.slot = entries[k]] \in Calls
    BY TypeOf
  <2> QED BY <1>4, <2>1, LookAtomic DEF ClaimOccupied
<1>5. CASE LockSlot(t, k)
  BY <1>5, JumpAtomic DEF LockSlot
<1>6. CASE GetStarting(t, k)
  BY <1>0, <1>6, LookAtomic DEF GetStarting, Leave
<1>7. CASE GetActive(t, k)
  <2>1. CASE Leave(t, k)
    BY <1>0, <1>7, <2>1, LookAtomic DEF GetActive, Leave
  <2>2. CASE Jump(t, k, "drop")
    BY <1>7, <2>2, JumpAtomic DEF GetActive
  <2> QED BY <1>7, <2>1, <2>2 DEF GetActive
<1>8. CASE DropDone(t, k)
  <2>1. CASE Is(t, k, "get")
    BY <1>0, <1>8, <2>1, LookAtomic DEF DropDone, Leave
  <2>2. CASE ~Is(t, k, "get")
    BY <1>8, <2>2, JumpAtomic DEF DropDone
  <2> QED BY <2>1, <2>2
<1>9. CASE \E u \in Nested, l \in Keys : LookUp(t, k, u, l)
  <2> PICK u \in Nested, l \in Keys : LookUp(t, k, u, l)
    BY <1>9
  <2> DEFINE f == [Frame("get", "entry", None, 0) EXCEPT !.of = t]
  <2>1. at[u][l] = Out /\ f \in Calls /\ f.op = "get" /\ f.pc = "entry" /\ u \in Callers
    BY DEF LookUp, Idle, Callers
  <2> QED BY <1>0, <2>1, LookAtomic DEF LookUp
<1> QED BY <1>1, <1>2, <1>3, <1>4, <1>5, <1>6, <1>7, <1>8, <1>9

\* Publication and the two ways to give a ticket back.
LEMMA PublishAtomic ==
  ASSUME LocksInv, NEW t \in Callers, NEW k \in Keys, PublishSlot(t, k)
  PROVE  Atomic!RegistryNext
<1> DEFINE s == at[t][k].slot
           c == Called(t, k)
<1>0. at[t][k].op = "publish" /\ s \in Slots /\ c.slot = s /\ c.num = at[t][k].num
  BY TypeOf DEF PublishSlot, At, Is, Called, Ticket
<1>1. c \in Reservations /\ Reservations' = Reservations \ {c} /\ Cleanups' = Cleanups
      /\ Answer' = Answer
  BY <1>0, TicketGone DEF PublishSlot
<1>2. slot[s].state = "Starting" /\ slot[s].num = c.num
  BY <1>0 DEF LocksInv, BuildInv, Publishing, Reserved
<1>3. slot' = [slot EXCEPT ![s].state = "Active"]
  BY <1>0, <1>2 DEF PublishSlot, LocksInv, LocksTypeOK
<1>4. Atomic!Publish(c)
  BY <1>0, <1>1, <1>2, <1>3 DEF Atomic!Publish, PublishSlot
<1> QED BY <1>1, <1>4 DEF Atomic!RegistryNext

LEMMA GiveBackAtomic ==
  ASSUME LocksInv, NEW t \in Callers, NEW k \in Keys, Leave(t, k), at[t][k].op \in Removing,
         UNCHANGED <<slot, ticketVars>>,
         entries' = IF entries[k] = at[t][k].slot /\ slot[at[t][k].slot].num = at[t][k].num
                    THEN [entries EXCEPT ![k] = None] ELSE entries
  PROVE  Atomic!RegistryNext
<1> DEFINE c == Called(t, k)
<1>0. c.key = k /\ c.slot = at[t][k].slot /\ c.num = at[t][k].num
  BY DEF Called, Ticket
<1>1. Answer' = Answer
  BY TicketGone DEF Removing
<1>2. \/ c \in Reservations /\ Reservations' = Reservations \ {c} /\ Cleanups' = Cleanups
      \/ c \in Cleanups /\ Cleanups' = Cleanups \ {c} /\ Reservations' = Reservations
  BY TicketGone DEF Removing
<1>3. Atomic!GiveBack(c)
  BY <1>0, <1>1, <1>2 DEF Atomic!GiveBack
<1> QED BY <1>2, <1>3 DEF Atomic!RegistryNext

LEMMA RemoveAtomic ==
  ASSUME LocksInv, NEW t \in Callers, NEW k \in Keys,
         RemoveSame(t, k) \/ Compare(t, k) \/ Erase(t, k)
  PROVE  Atomic!RegistryNext \/ UNCHANGED Atomic!regVars
<1> USE DEF At, Removes, Replies, Locations
<1>1. CASE RemoveSame(t, k)
  BY <1>1, JumpAtomic, GiveBackAtomic DEF RemoveSame, mapVars
<1>2. CASE Compare(t, k)
  BY <1>2, JumpAtomic, GiveBackAtomic DEF Compare, mapVars
<1>3. CASE Erase(t, k)
  <2>1. at[t][k].op \in Removing
    BY <1>3, TypeOf DEF Erase, FrameOK, Calls, Removing
  <2>2. entries[k] = at[t][k].slot /\ slot[at[t][k].slot].num = at[t][k].num
    BY <1>3, <2>1, TypeOf DEF Erase, ReadOK
  <2> QED BY <1>3, <2>1, <2>2, GiveBackAtomic DEF Erase
<1> QED BY <1>1, <1>2, <1>3

\* A ticket goes from its set into a call, which nobody sees.
LEMMA TakenAtomic ==
  ASSUME LocksInv, NEW t \in Callers, NEW b \in building \cup built \cup closures,
         BeginPublish(t, b) \/ BeginGuard(t, b) \/ BeginCleanup(t, b)
  PROVE  UNCHANGED Atomic!regVars
<1> DEFINE k == b.key
<1>0. b \in Tickets /\ k \in Keys /\ b = Ticket(k, b.slot, b.num)
  BY DEF LocksInv, LocksTypeOK, Tickets, Ticket
<1>1. PICK o \in {"publish", "guard", "cleanup"}, l \in {"slot", "entry"} :
        /\ Idle(t) /\ Becomes(t, k, Frame(o, l, b.slot, b.num)) /\ UNCHANGED <<entries, slot>>
        /\ o # "cleanup" => b \in building \cup built /\ closures' = closures
             /\ building' \cup built' \in {(building \cup built) \ {b}, building \cup (built \ {b})}
        /\ o = "cleanup" => b \in closures /\ closures' = closures \ {b}
             /\ UNCHANGED <<building, built>>
  BY DEF BeginPublish, BeginGuard, BeginCleanup
<1>2. \A u \in Callers, j \in Keys :
        at'[u][j] = IF u = t /\ j = k THEN Frame(o, l, b.slot, b.num) ELSE at[u][j]
  BY <1>0, <1>1, After DEF LocksInv
<1>3. at[t][k].op = "none" /\ at[t][k].pc = "out"
  BY <1>0, <1>1 DEF Idle, Out, Frame
<1>4. at'[t][k].op = o /\ at'[t][k].pc = l /\ Called(t, k)' = b
  BY <1>0, <1>2 DEF Called, Frame
<1>5. \A u \in Callers, j \in Keys :
        ~(u = t /\ j = k) => at'[u][j] = at[u][j] /\ Called(u, j)' = Called(u, j)
  BY <1>2 DEF Called
<1>6. Answer' = Answer
  BY <1>3, <1>4, <1>5 DEF Answer, Replies
<1>7. ASSUME NEW ops \in {{"publish", "guard"}, {"cleanup"}}
      PROVE  TicketsOf(ops)' = IF o \in ops THEN TicketsOf(ops) \cup {b} ELSE TicketsOf(ops)
  <2>1. \A c : c \in TicketsOf(ops)' <=> c \in TicketsOf(ops) \/ (o \in ops /\ c = b)
    BY <1>0, <1>3, <1>4, <1>5, InCalls
  <2> QED BY <2>1
<1>8. UNCHANGED <<Reservations, Cleanups>>
  BY <1>1, <1>7 DEF Reservations, Cleanups
<1> QED BY <1>1, <1>6, <1>8 DEF Atomic!regVars

LEMMA ConstructAtomic ==
  ASSUME LocksInv, NEW b \in building, Construct(b)
  PROVE  Atomic!RegistryNext
<1>1. UNCHANGED Answer
  BY DEF Construct, Answer
<1>2. \A ops : TicketsOf(ops)' = TicketsOf(ops)
  BY DEF Construct, TicketsOf, Called
<1>3. Reservations' = Reservations /\ Cleanups' = Cleanups \cup {b} /\ b \in Reservations
  BY <1>2 DEF Construct, Reservations, Cleanups
<1>4. Atomic!Construct(b)
  BY <1>1, <1>3 DEF Construct, Atomic!Construct
<1> QED BY <1>3, <1>4 DEF Atomic!RegistryNext

\* The caller of a claim uses its answer.
LEMMA ReturnAtomic ==
  ASSUME LocksInv, NEW t \in Callers, NEW k \in Keys, Return(t, k)
  PROVE  Atomic!RegistryNext
<1>1. \A u \in Callers, j \in Keys : at'[u][j] = IF u = t /\ j = k THEN Out ELSE at[u][j]
  BY After DEF LocksInv, Return, Leave
<1>2. Out.op = "none" /\ Out.pc = "out" /\ at[t][k].op = "claim" /\ at[t][k].pc \in Replies
  BY TypeOf DEF Return, Out, Frame, FrameOK
<1>3. Answer[t][k] # "none" /\ Answer' = [Answer EXCEPT ![t][k] = "none"]
  <2> DEFINE now(u, j) == IF at[u][j].pc \in Replies THEN at[u][j].pc ELSE "none"
             next(u, j) == IF at'[u][j].pc \in Replies THEN at'[u][j].pc ELSE "none"
  <2>1. \A u \in Callers, j \in Keys : next(u, j) = IF u = t /\ j = k THEN "none" ELSE now(u, j)
    BY <1>1, <1>2 DEF Replies
  <2>2. /\ Answer = [u \in Callers |-> [j \in Keys |-> now(u, j)]]
        /\ Answer' = [u \in Callers |-> [j \in Keys |-> next(u, j)]]
    BY DEF Answer
  <2>3. now(t, k) # "none"
    BY <1>2 DEF Replies
  <2> HIDE DEF now, next
  <2> QED BY <2>1, <2>2, <2>3
<1>4. ASSUME NEW ops \in {{"publish", "guard"}, {"cleanup"}}
      PROVE  TicketsOf(ops)' = TicketsOf(ops)
  <2>1. \A u \in Callers, j \in Keys :
          /\ at'[u][j].op \in ops <=> at[u][j].op \in ops
          /\ at[u][j].op \in ops => Called(u, j)' = Called(u, j)
    BY <1>1, <1>2 DEF Called
  <2> QED BY <2>1, SameTickets
<1>5. UNCHANGED <<entries, slot, Reservations, Cleanups>>
  BY <1>4 DEF Return, mapVars, ticketVars, Reservations, Cleanups
<1>6. Atomic!Use(t, k)
  BY <1>3, <1>5 DEF Atomic!Use
<1> QED BY <1>6 DEF Atomic!RegistryNext

\* Every call has the effect of one step of the atomic registry, for any number
\* of threads, keys and slots.
THEOREM LocksAreAtomic == LocksSpec => CallsAreAtomic
<1>1. LocksInit => Atomic!RegistryInit
  <2> SUFFICES ASSUME LocksInit PROVE Atomic!RegistryInit
    OBVIOUS
  <2>1. \A t \in Callers, k \in Keys : at[t][k].op = "none" /\ at[t][k].pc = "out"
    BY DEF LocksInit, Out, Frame
  <2>2. Answer = [t \in Callers |-> [k \in Keys |-> "none"]]
    BY <2>1 DEF Answer, Replies
  <2>3. TicketsOf({"publish", "guard"}) = {} /\ TicketsOf({"cleanup"}) = {}
    BY <2>1, InCalls
  <2> QED BY <2>2, <2>3 DEF LocksInit, Atomic!RegistryInit, Reservations, Cleanups
<1>2. LocksInv /\ [LocksNext]_lvars => [Atomic!RegistryNext]_(Atomic!regVars)
  <2> SUFFICES ASSUME LocksInv, [LocksNext]_lvars
               PROVE  Atomic!RegistryNext \/ UNCHANGED Atomic!regVars
    OBVIOUS
  <2>1. CASE UNCHANGED lvars
    BY <2>1 DEF lvars, ticketVars, Atomic!regVars, Reservations, Cleanups, TicketsOf, Called, Answer
  <2>2. ASSUME NEW t \in Callers, NEW k \in Keys,
               \/ CallStep(t, k) \/ DropDone(t, k) \/ Return(t, k)
               \/ \E o \in {"claim", "get"} : Begin(t, k, o)
               \/ \E u \in Nested, l \in Keys : LookUp(t, k, u, l)
        PROVE  Atomic!RegistryNext \/ UNCHANGED Atomic!regVars
    BY <2>2, ClaimAtomic, ClaimActiveAtomic, InsideAtomic, PublishAtomic, RemoveAtomic, ReturnAtomic
       DEF CallStep
  <2>3. ASSUME NEW t \in Callers, NEW b \in building \cup built \cup closures,
               BeginPublish(t, b) \/ BeginGuard(t, b) \/ BeginCleanup(t, b)
        PROVE  UNCHANGED Atomic!regVars
    BY <2>3, TakenAtomic
  <2>4. ASSUME NEW b \in building, Construct(b) PROVE Atomic!RegistryNext
    BY <2>4, ConstructAtomic
  <2> QED BY <2>1, <2>2, <2>3, <2>4 DEF LocksNext, Callers
<1> QED BY <1>1, <1>2, LocksInvariant, PTL DEF LocksSpec, CallsAreAtomic, Atomic!RegistrySpec
=============================================================================
