-------------------------- MODULE Acquisition_proofs --------------------------
(***************************************************************************)
(* The acquisition layer is safe for any number of callers, keys, slots    *)
(* and generations, and it uses the domain of module Domain as that module *)
(* expects: every step of it is a step of Domain or leaves the domain      *)
(* alone, so what Domain_proofs proves holds of it.                        *)
(***************************************************************************)
EXTENDS Acquisition_invariant

\* The helpers every step is written with.
USE OpsAssumption, NoneAssumption
    DEF SlotStates, Locals, Tickets, Canonical, Locations, Local, Aim, Idle, Unused, Jump,
        Return, ReturnLease, Take, Release, Fail, regVars, callVars, avars

LEMMA InitInv == Init => InductiveInv
<1> SUFFICES ASSUME Init PROVE InductiveInv
  OBVIOUS
<1> USE DEF Init
<1>1. IInv
  BY DomainInitInv
<1>2. AcquisitionTypeOK /\ CallInv /\ LockInv /\ LockExclusive
  BY DEF AcquisitionTypeOK, CallInv, LockInv, LockExclusive, HasRef, Creating
<1>3. CreatorInv /\ BirthInv
  BY DEF CreatorInv, BirthInv, HasRef, Creating, DomainInit, Outcomes
<1>4. KeyInv /\ HomeInv /\ ActiveInv
  BY DEF KeyInv, HomeInv, ActiveInv
<1>5. OwnerInv /\ StartingInv /\ TicketInv
  BY DEF OwnerInv, StartingInv, TicketInv, Owner
<1>6. /\ LeasedIsRegistered /\ OneActivePerKey /\ WaiterHasNotifier
      /\ LeaseKeepsAlive /\ OutcomeAfterCleanup
  BY DEF LeasedIsRegistered, OneActivePerKey, WaiterHasNotifier, LeaseKeepsAlive,
         OutcomeAfterCleanup, Leased
<1>7. QED
  BY <1>1, <1>2, <1>3, <1>4, <1>5, <1>6 DEF AcquisitionInv, InductiveInv

-----------------------------------------------------------------------------
\* What the acquisition layer does to the domain.

\* A creator works on a generation.
LEMMA CreatorsRef ==
  ASSUME AcquisitionTypeOK, CallInv, NEW c \in Callers,
         pc[c] \in {"register", "refused", "supervise", "reject", "publish", "start"}
  PROVE  ref[c] \in Gens
  BY DEF AcquisitionTypeOK, CallInv, HasRef, Creating

LEMMA RequestLeavesDomain ==
  ASSUME NEW c \in Callers, Request(c) \/ Abandon(c)
  PROVE  UNCHANGED dvars
  BY DEF Request, Begin, BeginUnique, BeginGet, UpgradeWeak, CloneRef, DropRef, Abandon

\* The call itself takes a generation through the creator's steps of Domain.
LEMMA ProceedImplementsDomain ==
  ASSUME AcquisitionTypeOK, CallInv, NEW c \in Callers, Proceed(c) \/ Build(c)
  PROVE  [DomainNext]_dvars
<1>1. CASE Build(c)
  BY <1>1 DEF Build, BuildPanics, BuildReturns, DomainNext, CreatorStep
<1>2. CASE ClaimVacant(c) \/ ClaimStarting(c) \/ ClaimUpgrade(c) \/ ClaimDead(c)
           \/ ClaimDecide(c) \/ DropOccupied(c)
  BY <1>2 DEF ClaimVacant, ClaimStarting, ClaimUpgrade, ClaimDead, ClaimDecide, DropOccupied
<1>3. CASE CreateCheck(c) \/ AcceptCheck(c) \/ PublishActive(c) \/ Announce(c)
           \/ GuardRemove(c) \/ GuardNotify(c) \/ Fetch(c) \/ Probe(c) \/ Hand(c)
  BY <1>3 DEF CreateCheck, AcceptCheck, PublishActive, Announce, GuardRemove, GuardNotify,
              Fetch, Probe, Hand
<1>4. CASE RegisterOrRefuse(c) \/ DropRefused(c) \/ SuperviseNew(c) \/ RejectNew(c)
           \/ StartTask(c)
  <2>1. ref[c] \in Gens
    BY <1>4, CreatorsRef
       DEF RegisterOrRefuse, DropRefused, SuperviseNew, RejectNew, StartTask
  <2>2. CreatorStep(ref[c])
    BY <1>4
       DEF RegisterOrRefuse, DropRefused, SuperviseNew, RejectNew, StartTask, CreatorStep
  <2>3. QED
    BY <2>1, <2>2 DEF DomainNext
<1>5. QED
  BY <1>1, <1>2, <1>3, <1>4 DEF Proceed

LEMMA StepImplementsDomain ==
  AcquisitionTypeOK /\ CallInv /\ [Next]_vars => [DomainNext]_dvars
<1> SUFFICES ASSUME AcquisitionTypeOK, CallInv, [Next]_vars PROVE [DomainNext]_dvars
  OBVIOUS
<1>1. CASE UNCHANGED vars
  BY <1>1 DEF vars
<1>2. ASSUME NEW c \in Callers, Request(c) \/ Proceed(c) \/ Build(c) \/ Abandon(c)
      PROVE  [DomainNext]_dvars
  BY <1>2, RequestLeavesDomain, ProceedImplementsDomain
<1>3. ASSUME NEW g \in Gens, LastLeaseDropped(g) \/ Settle(g) \/ TaskStep(g)
      PROVE  [DomainNext]_dvars
  BY <1>3 DEF LastLeaseDropped, Settle, CleanUp, MonitorStep, DomainNext
<1>4. ASSUME NEW s \in Stoppers, StopperStep(s) \/ \E m \in Calls : Call(s, m)
      PROVE  [DomainNext]_dvars
  BY <1>4 DEF DomainNext
<1>5. QED
  BY <1>1, <1>2, <1>3, <1>4 DEF Next

-----------------------------------------------------------------------------
\* Only a caller that finds a slot's lock free takes it.
LEMMA LockExclusiveKept ==
  ASSUME AcquisitionTypeOK, CallInv, LockExclusive, [Next]_vars PROVE LockExclusive'
<1> DEFINE Locked == {"claimed", "probed"}
           Keeps == \A d \in Callers : pc'[d] \in Locked =>
                      pc[d] \in Locked /\ loc'[d].slot = loc[d].slot
<1>1. SUFFICES ASSUME ~Keeps PROVE LockExclusive'
  BY DEF LockExclusive
<1>2. ASSUME UNCHANGED avars PROVE FALSE
  BY <1>1, <1>2
<1>3. ASSUME NEW c \in Callers, ClaimUpgrade(c) PROVE LockExclusive'
  BY <1>3 DEF ClaimUpgrade, Finds, SlotFree, LockExclusive, AcquisitionTypeOK
<1>4. ASSUME NEW c \in Callers, Probe(c) PROVE LockExclusive'
  BY <1>4 DEF Probe, SlotFree, LockExclusive, AcquisitionTypeOK
<1>5. ASSUME NEW c \in Callers, Request(c) \/ Build(c) \/ Abandon(c) PROVE FALSE
  BY <1>1, <1>5 DEF Request, Begin, BeginUnique, BeginGet, UpgradeWeak, CloneRef, DropRef,
                    Build, BuildPanics, BuildReturns, Abandon, AcquisitionTypeOK
<1>6. ASSUME NEW c \in Callers,
             \/ ClaimVacant(c) \/ ClaimStarting(c) \/ ClaimDead(c) \/ ClaimDecide(c)
             \/ DropOccupied(c) \/ Fetch(c) \/ Hand(c)
      PROVE  FALSE
  BY <1>1, <1>6 DEF ClaimVacant, Reserve, ClaimStarting, ClaimDead, Own, ClaimDecide,
                    DropOccupied, Fetch, Hand, AcquisitionTypeOK
<1>7. ASSUME NEW c \in Callers,
             \/ CreateCheck(c) \/ RegisterOrRefuse(c) \/ DropRefused(c) \/ SuperviseNew(c)
             \/ AcceptCheck(c) \/ RejectNew(c) \/ PublishActive(c) \/ StartTask(c)
             \/ GuardRemove(c)
      PROVE  FALSE
  BY <1>1, <1>7 DEF CreateCheck, RegisterOrRefuse, DropRefused, SuperviseNew, AcceptCheck,
                    RejectNew, PublishActive, StartTask, GuardRemove, AcquisitionTypeOK
<1>8. ASSUME NEW c \in Callers, Announce(c) \/ GuardNotify(c) PROVE FALSE
  BY <1>1, <1>8 DEF Announce, GuardNotify, NotifyListeners, AcquisitionTypeOK
<1>9. ASSUME NEW g \in Gens, LastLeaseDropped(g) \/ Settle(g) PROVE FALSE
  BY <1>1, <1>9 DEF LastLeaseDropped, Settle, CleanUp
<1>10. QED
  BY <1>2, <1>3, <1>4, <1>5, <1>6, <1>7, <1>8, <1>9 DEF Next, Proceed, vars

-----------------------------------------------------------------------------
\* A stuttering step of the acquisition layer.
LEMMA StutterKeeps ==
  ASSUME AcquisitionInv, UNCHANGED vars PROVE AcquisitionInv'
<1> USE DEF AcquisitionInv, vars, dvars, domainVars, genVars
<1>1. AcquisitionTypeOK' /\ CallInv' /\ LockInv' /\ CreatorInv'
  BY DEF AcquisitionTypeOK, CallInv, LockInv, CreatorInv, Accepting
<1>2. Quiet
  <2>1. UNCHANGED <<dvars, regVars, home>> /\ pc' = pc /\ loc' = loc /\ ref' = ref
    OBVIOUS
  <2> HIDE DEF AcquisitionInv, vars, dvars, domainVars, genVars
  <2>2. QED
    BY <2>1 DEF Quiet, Leased, Owner, Creating
<1>3. WaiterHasNotifier'
  BY DEF WaiterHasNotifier, Notifier, Owner
<1> HIDE DEF AcquisitionInv, vars, dvars, domainVars, genVars
<1>4. QED
  BY <1>1, <1>2, <1>3, QuietInv

LEMMA RequestKeeps ==
  ASSUME AcquisitionInv, NEW c \in Callers, Request(c) \/ Abandon(c)
  PROVE  AcquisitionInv'
  BY BeginKeeps, BeginUniqueKeeps, BeginGetKeeps, UpgradeWeakKeeps, CloneRefKeeps,
     DropRefKeeps, AbandonKeeps DEF Request

\* The claims, which may take a slot over.
LEMMA ClaimVacantInv ==
  ASSUME AcquisitionInv, IInv', NEW c \in Callers, ClaimVacant(c) PROVE AcquisitionInv'
<1>1. CASE ~Accepting
  BY <1>1, ClaimVacantKeeps
<1>2. CASE Accepting
  <2>1. PICK s \in Slots : Reserve(c, s)
    BY <1>2 DEF ClaimVacant
  <2>2. QED
    BY <1>2, <2>1, ReserveKeeps DEF ClaimVacant
<1>3. QED
  BY <1>1, <1>2

LEMMA ClaimDeadInv ==
  ASSUME AcquisitionInv, NEW c \in Callers, ClaimDead(c) PROVE AcquisitionInv'
<1>1. CASE ~Accepting
  BY <1>1, ClaimDeadKeeps
<1>2. CASE Accepting
  <2> DEFINE s == entries[loc[c].key]
  <2>1. s \in Slots /\ slot[s].state = "Active" /\ pc[c] = "claim"
    BY DEF ClaimDead, Finds, AcquisitionInv, AcquisitionTypeOK, CallInv
  <2>2. Release(c)
    BY <2>1 DEF ClaimDead, AcquisitionInv, AcquisitionTypeOK, CallInv, HasRef, Creating
  <2>3. \A d \in Callers \ {c} : pc[d] \in {"claimed", "probed"} => loc[d].slot # s
    BY DEF ClaimDead, Finds, SlotFree
  <2>4. Own(c) /\ UNCHANGED <<dvars, home>> /\ ~Leased(slot[s].gen)
    BY <1>2 DEF ClaimDead
  <2>5. QED
    BY <1>2, <2>1, <2>2, <2>3, <2>4, OwnInv
<1>3. QED
  BY <1>1, <1>2

LEMMA ClaimDecideInv ==
  ASSUME InductiveInv, NEW c \in Callers, ClaimDecide(c) PROVE AcquisitionInv'
<1> USE DEF InductiveInv
<1>1. CASE TryAcquire(ref[c]) \/ ~Accepting
  BY <1>1, ClaimDecideKeeps
<1>2. CASE ~TryAcquire(ref[c]) /\ Accepting
  <2> DEFINE s == entries[loc[c].key]
  <2>1. pc[c] = "claimed" /\ s = loc[c].slot
    BY DEF ClaimDecide, AcquisitionInv, LockInv
  <2>2. s \in Slots /\ slot[s].state = "Active" /\ slot[s].gen = ref[c]
    BY <2>1 DEF AcquisitionInv, CallInv, LockInv
  <2>3. \A d \in Callers \ {c} : pc[d] \in {"claimed", "probed"} => loc[d].slot # s
    BY <2>1 DEF LockExclusive
  <2>4. Own(c) /\ Release(c) /\ UNCHANGED <<dvars, home>>
    BY <1>2 DEF ClaimDecide
  <2>5. phase[slot[s].gen] # "Active"
    BY <1>2, <2>2 DEF TryAcquire
  <2>6. QED
    BY <1>2, <2>1, <2>2, <2>3, <2>4, <2>5, OwnInv
<1>3. QED
  BY <1>1, <1>2

LEMMA ProceedKeeps ==
  ASSUME InductiveInv, IInv', NEW c \in Callers, Proceed(c) \/ Build(c)
  PROVE  AcquisitionInv'
<1>1. AcquisitionInv /\ AcquisitionTypeOK /\ CallInv
  BY DEF InductiveInv, AcquisitionInv
<1>2. CASE ClaimVacant(c) \/ ClaimStarting(c) \/ ClaimUpgrade(c) \/ ClaimDead(c)
           \/ ClaimDecide(c) \/ DropOccupied(c)
  BY <1>1, <1>2, ClaimVacantInv, ClaimStartingKeeps, ClaimUpgradeKeeps, ClaimDeadInv,
     ClaimDecideInv, DropOccupiedKeeps
<1>3. CASE CreateCheck(c) \/ AcceptCheck(c) \/ Announce(c) \/ GuardRemove(c)
           \/ GuardNotify(c)
  BY <1>1, <1>3, CreateCheckKeeps, AcceptCheckKeeps, AnnounceKeeps, GuardRemoveKeeps,
     GuardNotifyKeeps
<1>4. CASE Fetch(c) \/ Probe(c) \/ Hand(c)
  BY <1>1, <1>4, FetchKeeps, ProbeKeeps, HandKeeps
<1>5. CASE Build(c)
  BY <1>1, <1>5, BuildPanicsKeeps, BuildReturnsKeeps DEF Build
<1>6. CASE RegisterOrRefuse(c)
  <2>1. ref[c] \in Gens /\ pc[c] = "register" /\ UNCHANGED <<regVars, loc, ref, home>>
    BY <1>1, <1>6, CreatorsRef DEF RegisterOrRefuse
  <2>2. CASE Register(ref[c]) /\ Jump(c, "supervise")
    BY <1>1, <2>1, <2>2, RegisterKeeps
  <2>3. CASE Refuse(ref[c]) /\ Jump(c, "refused")
    BY <1>1, <2>1, <2>3, RefuseKeeps
  <2>4. QED
    BY <1>6, <2>2, <2>3 DEF RegisterOrRefuse
<1>7. CASE DropRefused(c) \/ SuperviseNew(c) \/ RejectNew(c) \/ PublishActive(c)
           \/ StartTask(c)
  <2>1. ref[c] \in Gens
    BY <1>1, <1>7, CreatorsRef
       DEF DropRefused, SuperviseNew, RejectNew, PublishActive, StartTask
  <2>2. QED
    BY <1>1, <1>7, <2>1, DropRefusedKeeps, SuperviseNewKeeps, RejectNewKeeps,
       PublishActiveKeeps, StartTaskKeeps
<1>8. QED
  BY <1>2, <1>3, <1>4, <1>5, <1>6, <1>7 DEF Proceed

LEMMA StepInv == InductiveInv /\ [Next]_vars => InductiveInv'
<1> SUFFICES ASSUME InductiveInv, [Next]_vars PROVE InductiveInv'
  OBVIOUS
<1>1. AcquisitionInv /\ IInv /\ AcquisitionTypeOK /\ CallInv
  BY DEF InductiveInv, AcquisitionInv
<1>2. IInv'
  BY <1>1, StepImplementsDomain, DomainStepInv
<1>3. LockExclusive'
  BY <1>1, LockExclusiveKept DEF InductiveInv
<1>4. CASE UNCHANGED vars
  BY <1>1, <1>3, <1>4, StutterKeeps DEF InductiveInv
<1>5. ASSUME NEW c \in Callers, Request(c) \/ Proceed(c) \/ Build(c) \/ Abandon(c)
      PROVE  AcquisitionInv'
  BY <1>1, <1>2, <1>5, RequestKeeps, ProceedKeeps
<1>6. ASSUME NEW g \in Gens,
             LastLeaseDropped(g) \/ Settle(g) \/ (TaskStep(g) /\ UNCHANGED avars)
      PROVE  AcquisitionInv'
  BY <1>1, <1>2, <1>6, LastLeaseDroppedKeeps, CleanUpKeeps, SettleKeeps, TaskKeeps
     DEF Settle
<1>7. ASSUME NEW s \in Stoppers, StopperStep(s) \/ \E m \in Calls : Call(s, m),
             UNCHANGED avars
      PROVE  AcquisitionInv'
  BY <1>1, <1>2, <1>7, StopperEffects, StopperKeeps
<1>8. QED
  BY <1>3, <1>4, <1>5, <1>6, <1>7 DEF Next, InductiveInv

LEMMA Invariance == Spec => []InductiveInv
<1>1. QED
  BY InitInv, StepInv, PTL DEF Spec

-----------------------------------------------------------------------------
\* The types of the registry, of the calls and of the leases.
THEOREM AcquisitionTypes == Spec => []AcquisitionTypeOK
<1>1. InductiveInv => AcquisitionTypeOK
  BY DEF InductiveInv, AcquisitionInv
<1>2. QED
  BY <1>1, Invariance, PTL

\* However many callers race for a key, and whichever of them are abandoned,
\* panic or are refused: a reservation has one constructor, who still knows it.
THEOREM ReservationOwned == Spec => []ReservationHasOneOwner
<1>1. InductiveInv => ReservationHasOneOwner
  <2> SUFFICES ASSUME InductiveInv, NEW k \in Keys, entries[k] # None,
                      slot[entries[k]].state = "Starting"
               PROVE  \E c \in Callers :
                        /\ Owner(c) /\ loc[c].slot = entries[k]
                        /\ loc[c].num = slot[entries[k]].num
                        /\ \A d \in Callers : Owner(d) /\ loc[d].slot = entries[k] => d = c
    BY DEF ReservationHasOneOwner
  <2>1. PICK c \in Callers : Owner(c) /\ loc[c].slot = entries[k]
    BY DEF InductiveInv, AcquisitionInv, StartingInv
  <2>2. /\ loc[c].num = slot[entries[k]].num
        /\ \A d \in Callers : Owner(d) /\ loc[d].slot = entries[k] => d = c
    BY <2>1 DEF InductiveInv, AcquisitionInv, OwnerInv
  <2>3. QED
    BY <2>1, <2>2
<1>2. QED
  BY <1>1, Invariance, PTL

\* Every acquisition of an identity converges: while the domain accepts, the
\* active and leased generation of a key is the one its map entry leads to.
THEOREM LeasedRegistered == Spec => []LeasedIsRegistered
<1>1. InductiveInv => LeasedIsRegistered
  BY DEF InductiveInv, AcquisitionInv
<1>2. QED
  BY <1>1, Invariance, PTL

\* An identity has at most one active generation that somebody can use.
THEOREM OneActive == Spec => []OneActivePerKey
<1>1. InductiveInv => OneActivePerKey
  BY DEF InductiveInv, AcquisitionInv
<1>2. QED
  BY <1>1, Invariance, PTL

\* A get_or_spawn that waits for another caller's construction is never left
\* without a caller who will notify it.
THEOREM WaitersNotified == Spec => []WaiterHasNotifier
<1>1. InductiveInv => WaiterHasNotifier
  BY DEF InductiveInv, AcquisitionInv
<1>2. QED
  BY <1>1, Invariance, PTL

\* A held lease keeps its generation from being cancelled while the domain runs.
THEOREM LeasesKeepAlive == Spec => []LeaseKeepsAlive
<1>1. InductiveInv => LeaseKeepsAlive
  BY DEF InductiveInv, AcquisitionInv
<1>2. QED
  BY <1>1, Invariance, PTL

\* An observed outcome means that the cleanup has freed the identity.
THEOREM CleanedBeforeOutcome == Spec => []OutcomeAfterCleanup
<1>1. InductiveInv => OutcomeAfterCleanup
  BY DEF InductiveInv, AcquisitionInv
<1>2. QED
  BY <1>1, Invariance, PTL

\* The steps of this module are made from those of Domain, whose theorems
\* therefore hold of it.
LEMMA AcquisitionImplementsDomain == Spec => DomainSpec
<1>1. Init => DomainInit
  BY DEF Init
<1>2. InductiveInv /\ [Next]_vars => [DomainNext]_dvars
  BY StepImplementsDomain DEF InductiveInv, AcquisitionInv
<1>3. QED
  BY <1>1, <1>2, Invariance, PTL DEF Spec, DomainSpec

\* So what Domain promises its users holds of it: established while the domain
\* runs, ended and settled once, Terminated when everything has settled.
THEOREM AcquisitionKeepsLifecycle == Spec => KeepsLifecycle
<1>1. QED
  BY AcquisitionImplementsDomain, DomainKeepsLifecycle, PTL

\* And a shutdown that returned leaves nothing in the map but reservations that
\* will be given back.
THEOREM StoppedMap == Spec => []StoppedMapIsReservations
<1>1. InductiveInv /\ TerminatedIsQuiescent => StoppedMapIsReservations
  <2> SUFFICES ASSUME InductiveInv, TerminatedIsQuiescent, NEW k \in Keys, entries[k] # None,
                      \/ domainPhase = "Terminated"
                      \/ \E s \in Stoppers : spc[s] = "returned" /\ call[s] # "cancel"
               PROVE  /\ slot[entries[k]].state = "Starting"
                      /\ \E c \in Callers :
                           /\ Owner(c) /\ loc[c].slot = entries[k]
                           /\ pc[c] \in {"create", "build", "register", "refused", "guard"}
    BY DEF StoppedMapIsReservations
  <2> DEFINE x == entries[k]
  <2>1. IInv /\ AcquisitionTypeOK /\ CallInv /\ CreatorInv /\ KeyInv /\ ActiveInv
        /\ HomeInv /\ StartingInv /\ TicketInv /\ TypeOK
    BY DEF InductiveInv, AcquisitionInv, IInv
  <2>2. x \in Slots /\ slot[x] \in SlotStates /\ slot[x].state # "unused"
    BY <2>1 DEF AcquisitionTypeOK, KeyInv
  <2>3. \A g \in Gens : creation[g] = "registered" => monitor[g] \in {"notify", "closed"}
    BY DEF TerminatedIsQuiescent
  <2>4. \A g \in Gens : monitor[g] # "none" => Cleaned(g)
    BY <2>1, <2>3 DEF IInv, GenInv, Cleaned
  <2>5. slot[x].state = "Starting"
    <3> SUFFICES ASSUME slot[x].state = "Active" PROVE FALSE
      BY <2>2
    <3>1. slot[x].gen \in Gens /\ monitor[slot[x].gen] # "none"
      BY <2>1, <2>2 DEF AcquisitionTypeOK, ActiveInv
    <3>2. home[slot[x].gen] = None
      BY <2>1, <2>4, <3>1 DEF HomeInv
    <3>3. QED
      BY <2>1, <2>2, <3>2 DEF ActiveInv
  <2>6. PICK c \in Callers : Owner(c) /\ loc[c].slot = x
    BY <2>1, <2>5 DEF StartingInv
  <2>7. loc[c].key = k
    BY <2>1, <2>2, <2>6, NoneAssumption DEF KeyInv
  <2>8. pc[c] \notin {"supervise", "accept", "reject", "publish"}
    <3> SUFFICES ASSUME pc[c] \in {"supervise", "accept", "reject", "publish"} PROVE FALSE
      OBVIOUS
    <3>1. ref[c] \in Gens
      BY <2>1 DEF CallInv, HasRef, Creating, AcquisitionTypeOK
    <3>2. monitor[ref[c]] # "none" /\ pc[c] # "supervise"
      BY <2>1, <2>3, <3>1 DEF CreatorInv, HasRef, Creating
    <3>3. home[ref[c]] = None
      BY <2>1, <2>4, <3>1, <3>2 DEF HomeInv
    <3>4. entries[k] # x
      BY <2>1, <2>6, <2>7, <3>3 DEF TicketInv, Creating
    <3>5. QED
      BY <3>4
  <2>9. QED
    BY <2>5, <2>6, <2>8 DEF Owner
<1>2. QED
  BY <1>1, Invariance, AcquisitionImplementsDomain, TerminatedQuiescent, PTL
=============================================================================
