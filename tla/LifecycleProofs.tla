-------------------------- MODULE LifecycleProofs ---------------------------
(***************************************************************************)
(* The invariants of Coordinator, that it implements CoreElection, that    *)
(* the activation transactions of Lifecycle implement what Coordinator     *)
(* says of them, that none loses an installation, and what MangoApp is     *)
(* started as, for any products, revisions and versions.                   *)
(***************************************************************************)
EXTENDS Lifecycle, TLAPS

-----------------------------------------------------------------------------
(* The coordinator.                                                        *)

(* r is put up in the claims cs and newer than whatever else is, and is    *)
(* not in the quarantine.                                                  *)
Foremost(r, cs, quarantine) ==
    /\ r \in Candidates(cs, quarantine)
    /\ \A s \in Candidates(cs, quarantine) \ {r} : Version[s] < Version[r]

(* What a call may be about to do, given the claims, the pointer and the   *)
(* quarantine on disk.                                                     *)
Sound(c, cs, pointer, quarantine) ==
    /\ c \in Calls
    /\ c.stage \in {"activate", "commit"} =>
           Foremost(c.revision, cs, quarantine) /\ c.revision # pointer
    /\ c.stage = "restore" => Claimants(cs) = {}

(* Before the first call the file does not exist and holds nothing.        *)
NothingStored ==
    ~stored =>
        /\ claims = [p \in Products |-> None]
        /\ active = None
        /\ failed = {}
        /\ verified = {}
        /\ call = Free

CallIsSound == Sound(call, claims, active, failed)

IInv == TypeOK /\ NothingStored /\ CallIsSound /\ QuarantineIsKept

-----------------------------------------------------------------------------
(* Free has no stage a conjunct speaks of.                                 *)
LEMMA FreeIsSound ==
    ASSUME NEW cs, NEW pointer, NEW quarantine
    PROVE  Sound(Free, cs, pointer, quarantine)
  BY DEF Sound, Free, Calls

(* The one candidate no other is newer than is newer than all others.      *)
LEMMA SelectedIsForemost ==
    ASSUME NEW cs \in [Products -> Claims \cup {None}],
           NEW quarantine \in SUBSET Revisions,
           Candidates(cs, quarantine) # {},
           ~Conflict(cs, quarantine)
    PROVE  /\ Selected(cs, quarantine) \in Revisions
           /\ Foremost(Selected(cs, quarantine), cs, quarantine)
  <1> DEFINE r == Selected(cs, quarantine)
             C == Candidates(cs, quarantine)
  <1>1. r \in Revisions /\ Highest(cs, quarantine) = {r}
    BY DEF Conflict, Selected
  <1>2. C \subseteq Revisions
    BY DEF Candidates, Claimants, Claims
  <1>3. r \in C /\ \A s \in C : Version[s] <= Version[r]
    BY <1>1 DEF Highest
  <1>4. ASSUME NEW s \in C \ {r} PROVE Version[s] < Version[r]
    <2>1. Version[s] \in Nat /\ Version[r] \in Nat
      BY <1>1, <1>2, CoordinatorAssumption
    <2>2. s \notin Highest(cs, quarantine)
      BY <1>1
    <2>3. PICK t \in C : ~(Version[t] <= Version[s])
      BY <2>2 DEF Highest
    <2>4. Version[t] \in Nat /\ Version[t] <= Version[r]
      BY <1>2, <1>3, CoordinatorAssumption
    <2> QED
      BY <2>1, <2>3, <2>4
  <1> QED
    BY <1>1, <1>3, <1>4 DEF Foremost

LEMMA ReconciledIsSound ==
    ASSUME NEW operation \in Operations,
           NEW cs \in [Products -> Claims \cup {None}],
           NEW pointer \in Revisions \cup {None},
           NEW quarantine \in SUBSET Revisions
    PROVE  Sound(Reconciled(operation, cs, pointer, quarantine), cs, pointer, quarantine)
  <1> DEFINE c == Reconciled(operation, cs, pointer, quarantine)
  <1>1. CASE Candidates(cs, quarantine) = {}
    <2>1. CASE Claimants(cs) = {} /\ pointer # None
      <3>1. c = Proceed("restore", operation, None)
        BY <1>1, <2>1 DEF Reconciled, Conflict
      <3> QED
        BY <2>1, <3>1 DEF Sound, Proceed, Calls
    <2>2. CASE ~(Claimants(cs) = {} /\ pointer # None)
      BY <1>1, <2>2, FreeIsSound DEF Reconciled, Conflict
    <2> QED
      BY <2>1, <2>2
  <1>2. CASE Candidates(cs, quarantine) # {} /\ Conflict(cs, quarantine)
    BY <1>2, FreeIsSound DEF Reconciled
  <1>3. CASE Candidates(cs, quarantine) # {} /\ ~Conflict(cs, quarantine)
    <2> DEFINE r == Selected(cs, quarantine)
    <2>1. r \in Revisions /\ Foremost(r, cs, quarantine)
      BY <1>3, SelectedIsForemost
    <2>2. CASE r = pointer
      BY <1>3, <2>2, FreeIsSound DEF Reconciled
    <2>3. CASE r # pointer
      <3>1. c = Proceed("activate", operation, r)
        BY <1>3, <2>3 DEF Reconciled
      <3> QED
        BY <2>1, <2>3, <3>1 DEF Sound, Proceed, Calls
    <2> QED
      BY <2>2, <2>3
  <1> QED
    BY <1>1, <1>2, <1>3

LEMMA FallenBackIsSound ==
    ASSUME NEW operation \in Operations,
           NEW cs \in [Products -> Claims \cup {None}],
           NEW pointer \in Revisions \cup {None},
           NEW quarantine \in SUBSET Revisions
    PROVE  Sound(FallenBack(operation, cs, pointer, quarantine), cs, pointer, quarantine)
  <1> DEFINE c == FallenBack(operation, cs, pointer, quarantine)
             r == Selected(cs, quarantine)
             elsewhere == /\ Candidates(cs, quarantine) # {}
                          /\ ~Conflict(cs, quarantine)
                          /\ r # pointer
  <1>1. CASE elsewhere
    <2>1. r \in Revisions /\ Foremost(r, cs, quarantine)
      BY <1>1, SelectedIsForemost
    <2>2. c = Proceed("activate", operation, r)
      BY <1>1 DEF FallenBack
    <2> QED
      BY <1>1, <2>1, <2>2 DEF Sound, Proceed, Calls
  <1>2. CASE ~elsewhere
    <2>1. c = Free \/ c = Proceed("fall_back", operation, None)
      BY <1>2 DEF FallenBack
    <2>2. CASE c = Free
      BY <2>2, FreeIsSound
    <2>3. CASE c = Proceed("fall_back", operation, None)
      BY <2>3 DEF Sound, Proceed, Calls
    <2> QED
      BY <2>1, <2>2, <2>3
  <1> QED
    BY <1>1, <1>2

-----------------------------------------------------------------------------
LEMMA InitIInv == Init => IInv
  <1> SUFFICES ASSUME Init PROVE IInv
    OBVIOUS
  <1>1. CallIsSound
    BY FreeIsSound DEF Init, CallIsSound
  <1>2. call \in Calls
    BY DEF Init, Calls
  <1>3. TypeOK
    <2>1. 0 \in 0..MaximumGenerations /\ 0 \in 0..MaximumMarks
      BY CoordinatorAssumption
    <2>2. generation \in 0..MaximumGenerations /\ marks \in 0..MaximumMarks
      BY <2>1 DEF Init
    <2>3. claims \in [Products -> Claims \cup {None}]
      BY DEF Init
    <2>4. stored \in BOOLEAN
      BY DEF Init
    <2>5. /\ active \in Revisions \cup {None} /\ installed \in Revisions \cup {None}
          /\ failed \in SUBSET Revisions /\ verified \in SUBSET Revisions
      BY DEF Init
    <2> QED
      BY <1>2, <2>2, <2>3, <2>4, <2>5 DEF TypeOK
  <1>4. NothingStored /\ QuarantineIsKept
    BY CoordinatorAssumption DEF Init, NothingStored, QuarantineIsKept
  <1> QED
    BY <1>1, <1>3, <1>4 DEF IInv

(* A new claim has the type of claims.                                     *)
LEMMA ClaimType ==
    ASSUME NEW r \in Revisions, NEW g \in 1..MaximumGenerations
    PROVE  Claim(r, g) \in Claims
  BY DEF Claim, Claims

LEMMA RegistrationStep ==
    ASSUME IInv, NEW p \in Products, Registration(p) PROVE IInv'
  <1> PICK r \in Revisions :
        \/ RegisterOlder(p, r)
        \/ RegisterOlderThanAdopted(p, r)
        \/ RegisterUnavailable(p, r)
        \/ Register(p, r)
    BY DEF Registration
  <1> USE CoordinatorAssumption
  <1>1. Arrive /\ call = Free
    BY DEF RegisterOlder, RegisterOlderThanAdopted, RegisterUnavailable, Register,
           Arrive, Locked
  <1>2. /\ generation' \in 0..MaximumGenerations
        /\ generation + 1 \in 1..MaximumGenerations
        /\ marks' = marks /\ installed' = installed
    BY <1>1 DEF IInv, TypeOK, Arrive
  <1>3. Adopted \in Revisions \cup {None} /\ Adopted \notin failed
    BY DEF Adopted, IInv, TypeOK, NothingStored, QuarantineIsKept
  <1>4. CASE RegisterOlder(p, r) \/ RegisterOlderThanAdopted(p, r)
    <2>1. UNCHANGED <<fileVars, call>>
      BY <1>4 DEF RegisterOlder, RegisterOlderThanAdopted
    <2> QED
      BY <1>2, <2>1
      DEF IInv, TypeOK, NothingStored, CallIsSound, QuarantineIsKept, fileVars
  <1>5. CASE RegisterUnavailable(p, r)
    <2>1. /\ stored' = TRUE /\ active' = Adopted
          /\ UNCHANGED <<claims, failed, verified, call>>
      BY <1>5 DEF RegisterUnavailable
    <2>2. CallIsSound'
      BY <1>1, <2>1, FreeIsSound DEF CallIsSound
    <2> QED
      BY <1>2, <1>3, <2>1, <2>2 DEF IInv, TypeOK, NothingStored, QuarantineIsKept
  <1>6. CASE Register(p, r)
    <2>1. /\ stored' = TRUE /\ active' = Adopted
          /\ claims' = [claims EXCEPT ![p] = Claim(r, generation + 1)]
          /\ call' = Reconciled("register", claims', Adopted, failed)
          /\ UNCHANGED <<failed, verified>>
      BY <1>6 DEF Register
    <2>2. claims' \in [Products -> Claims \cup {None}]
      BY <1>2, <2>1, ClaimType DEF IInv, TypeOK
    <2>3. CallIsSound'
      BY <1>3, <2>1, <2>2, ReconciledIsSound DEF CallIsSound, IInv, TypeOK, Operations
    <2>4. call' \in Calls
      BY <2>3 DEF CallIsSound, Sound
    <2> QED
      BY <1>2, <1>3, <2>1, <2>2, <2>3, <2>4 DEF IInv, TypeOK, NothingStored, QuarantineIsKept
  <1> QED
    BY <1>4, <1>5, <1>6

LEMMA RemovalStep ==
    ASSUME IInv, NEW p \in Products, Removal(p) PROVE IInv'
  <1> PICK g \in 1..MaximumGenerations :
        \/ MarkPending(p, g)
        \/ \E token \in (1..MaximumMarks) \cup {None} : FinalizeRemoval(p, g, token)
    BY DEF Removal
  <1> USE CoordinatorAssumption
  <1>1. ASSUME call = Free, claims[p] # None PROVE stored
    BY <1>1 DEF IInv, NothingStored
  <1>2. CASE MarkPending(p, g)
    <2>1. /\ call' = Free /\ claims[p] # None /\ marks' = marks + 1
          /\ marks + 1 \in 1..MaximumMarks
          /\ claims' = [claims EXCEPT ![p].token = marks + 1]
          /\ UNCHANGED <<stored, active, failed, verified, call, installed, generation>>
      BY <1>2 DEF MarkPending, Locked, IInv, TypeOK
    <2>2. claims[p] \in Claims /\ stored
      BY <1>1, <2>1 DEF IInv, TypeOK
    <2>3. [claims[p] EXCEPT !.token = marks + 1] \in Claims
      BY <2>1, <2>2 DEF Claims
    <2>4. claims' \in [Products -> Claims \cup {None}]
      BY <2>1, <2>3 DEF IInv, TypeOK
    <2>5. CallIsSound'
      BY <2>1, FreeIsSound DEF CallIsSound
    <2> QED
      BY <2>1, <2>2, <2>4, <2>5 DEF IInv, TypeOK, NothingStored, QuarantineIsKept
  <1>3. CASE \E token \in (1..MaximumMarks) \cup {None} : FinalizeRemoval(p, g, token)
    <2>1. /\ call = Free /\ claims[p] # None
          /\ claims' = [claims EXCEPT ![p] = None]
          /\ call' = Reconciled("finalize", claims', active, failed)
          /\ UNCHANGED <<stored, active, failed, verified, installed, generation, marks>>
      BY <1>3 DEF FinalizeRemoval, Locked, callerVars
    <2>2. claims' \in [Products -> Claims \cup {None}]
      BY <2>1 DEF IInv, TypeOK
    <2>3. CallIsSound'
      BY <2>1, <2>2, ReconciledIsSound DEF CallIsSound, IInv, TypeOK, Operations
    <2>4. call' \in Calls
      BY <2>3 DEF CallIsSound, Sound
    <2> QED
      BY <1>1, <2>1, <2>2, <2>3, <2>4 DEF IInv, TypeOK, NothingStored, QuarantineIsKept
  <1> QED
    BY <1>2, <1>3

LEMMA RetryStep ==
    ASSUME IInv, NEW rs \in SUBSET Revisions, Retry(rs) PROVE IInv'
  <1>1. /\ stored' = TRUE /\ failed' = failed \ rs /\ verified' = verified \ rs
        /\ call' = Reconciled("retry", claims, active, failed')
        /\ UNCHANGED <<claims, active, installed, generation, marks>>
    BY DEF Retry, callerVars
  <1>2. failed' \in SUBSET Revisions
    BY <1>1 DEF IInv, TypeOK
  <1>3. CallIsSound'
    BY <1>1, <1>2, ReconciledIsSound DEF CallIsSound, IInv, TypeOK, Operations
  <1>4. call' \in Calls
    BY <1>3 DEF CallIsSound, Sound
  <1> QED
    BY <1>1, <1>2, <1>3, <1>4 DEF IInv, TypeOK, NothingStored, QuarantineIsKept

-----------------------------------------------------------------------------
(* What is known of a call that is about to do something.                  *)
LEMMA CallAtWork ==
    ASSUME IInv, Locked
    PROVE  /\ stored
           /\ call.operation \in Operations
           /\ Holding("activate") \/ Holding("commit") =>
                  /\ call.revision \in Revisions
                  /\ call \in [operation : Operations, stage : {"activate", "commit"},
                               revision : Revisions]
                  /\ Foremost(call.revision, claims, failed)
                  /\ call.revision # active
           /\ Holding("restore") => Claimants(claims) = {}
  <1>1. stored
    BY DEF IInv, NothingStored, Locked
  <1>2. call \in Calls \ {Free}
    BY DEF IInv, TypeOK, Locked
  <1>3. CASE call \in [operation : Operations, stage : {"activate", "commit"}, revision : Revisions]
    BY <1>1, <1>3 DEF IInv, CallIsSound, Sound, Holding
  <1>4. CASE call \in [operation : Operations, stage : {"restore", "fall_back"}, revision : {None}]
    BY <1>1, <1>4 DEF IInv, CallIsSound, Sound, Holding
  <1> QED
    BY <1>2, <1>3, <1>4 DEF Calls

LEMMA FreeHasNoStage == \A stage \in {"activate", "commit", "restore", "fall_back"} :
                           Holding(stage) => Locked
  BY DEF Holding, Locked, Free

LEMMA ActivationStep ==
    ASSUME IInv, Activation PROVE IInv'
  <1>1. Locked /\ (Holding("activate") \/ Holding("commit"))
    BY FreeHasNoStage DEF Activation, ActivationSucceeds, Commit, ActivationFails
  <1>2. /\ stored /\ call.revision \in Revisions /\ call.operation \in Operations
        /\ call \in [operation : Operations, stage : {"activate", "commit"},
                     revision : Revisions]
        /\ Foremost(call.revision, claims, failed)
        /\ call.revision # active
    BY <1>1, CallAtWork
  <1>3. call.revision \notin failed
    BY <1>2 DEF Foremost, Candidates
  <1>4. CASE ActivationSucceeds
    <2>1. /\ installed' = call.revision
          /\ call' = [call EXCEPT !.stage = "commit"]
          /\ UNCHANGED <<fileVars, callerVars>>
      BY <1>4 DEF ActivationSucceeds
    <2>2. /\ call' \in Calls
          /\ call'.stage = "commit" /\ call'.revision = call.revision
      BY <1>2, <2>1 DEF Calls
    <2>3. CallIsSound'
      BY <1>2, <2>1, <2>2 DEF CallIsSound, Sound, fileVars
    <2> QED
      BY <1>2, <2>1, <2>2, <2>3
      DEF IInv, TypeOK, NothingStored, QuarantineIsKept, fileVars, callerVars
  <1>5. CASE Commit
    <2>1. /\ active' = call.revision
          /\ verified' = verified \cup {call.revision}
          /\ call' = Free
          /\ UNCHANGED <<stored, claims, failed, installed, callerVars>>
      BY <1>5 DEF Commit
    <2>2. CallIsSound' /\ call' \in Calls
      BY <2>1, FreeIsSound DEF CallIsSound, Calls
    <2> QED
      BY <1>2, <1>3, <2>1, <2>2
      DEF IInv, TypeOK, NothingStored, QuarantineIsKept, callerVars
  <1>6. CASE ActivationFails
    <2>1. /\ failed' = failed \cup {call.revision}
          /\ verified' = verified \ {call.revision}
          /\ call' = FallenBack(call.operation, claims, active, failed')
          /\ UNCHANGED <<stored, claims, active, installed, callerVars>>
      BY <1>6 DEF ActivationFails
    <2>2. failed' \in SUBSET Revisions
      BY <1>2, <2>1 DEF IInv, TypeOK
    <2>3. CallIsSound'
      BY <1>2, <2>1, <2>2, FallenBackIsSound DEF CallIsSound, IInv, TypeOK
    <2>4. call' \in Calls
      BY <2>3 DEF CallIsSound, Sound
    <2> QED
      BY <1>2, <2>1, <2>2, <2>3, <2>4
      DEF IInv, TypeOK, NothingStored, QuarantineIsKept, callerVars
  <1> QED
    BY <1>4, <1>5, <1>6 DEF Activation

LEMMA EndStep ==
    ASSUME IInv, Restoration \/ Crash PROVE IInv'
  <1> USE CoordinatorAssumption
  <1>1. /\ Locked /\ call' = Free
        /\ active' \in {None, active}
        /\ UNCHANGED <<stored, claims, failed, verified, installed, generation, marks>>
    BY FreeHasNoStage
    DEF Restoration, RestoreSucceeds, RestoreEnds, Crash, fileVars, callerVars
  <1>2. stored
    BY <1>1 DEF IInv, NothingStored, Locked
  <1>3. CallIsSound' /\ call' \in Calls
    BY <1>1, FreeIsSound DEF CallIsSound, Calls
  <1> QED
    BY <1>1, <1>2, <1>3 DEF IInv, TypeOK, NothingStored, QuarantineIsKept

LEMMA StepIInv == IInv /\ [Next]_coordinatorVars => IInv'
  <1> SUFFICES ASSUME IInv, [Next]_coordinatorVars PROVE IInv'
    OBVIOUS
  <1>1. CASE \E p \in Products : Registration(p) \/ Removal(p)
    BY <1>1, RegistrationStep, RemovalStep
  <1>2. CASE \E rs \in SUBSET Revisions : Retry(rs)
    BY <1>2, RetryStep
  <1>3. CASE Progress
    BY <1>3, ActivationStep, EndStep DEF Progress
  <1>4. CASE Crash
    BY <1>4, EndStep
  <1>5. CASE UNCHANGED coordinatorVars
    BY <1>5 DEF coordinatorVars, fileVars, callerVars, IInv, TypeOK, NothingStored,
                CallIsSound, QuarantineIsKept
  <1> QED
    BY <1>1, <1>2, <1>3, <1>4, <1>5 DEF Next

THEOREM IInvAlways == Spec => []IInv
  BY InitIInv, StepIInv, PTL DEF Spec

(* Every variable keeps its type.                                          *)
THEOREM TypeCorrect == Spec => []TypeOK
  <1>1. IInv => TypeOK
    BY DEF IInv
  <1> QED
    BY <1>1, IInvAlways, PTL

(* No revision that failed to start is active or counted as verified, in   *)
(* whatever order products register, leave, retry and crash                *)
(* (coordinator.py, _activate_or_fallback).                                *)
THEOREM QuarantineAlwaysKept == Spec => []QuarantineIsKept
  <1>1. IInv => QuarantineIsKept
    BY DEF IInv
  <1> QED
    BY <1>1, IInvAlways, PTL

-----------------------------------------------------------------------------
(* What is usable to the coordinator is what the abstract election counts. *)
LEMMA CandidatesAreUsable ==
    ASSUME TypeOK
    PROVE  Candidates(claims, failed) = Election!Usable
  <1>1. ASSUME NEW p \in Products, claims[p] # None
        PROVE  claims[p].revision \in Revisions /\ Claimed[p] = claims[p].revision
    BY <1>1 DEF TypeOK, Claims, Claimed
  <1>2. ASSUME NEW p \in Products, claims[p] = None
        PROVE  Claimed[p] = None
    BY <1>2 DEF Claimed
  <1>3. Candidates(claims, failed) \subseteq Election!Usable
    BY <1>1 DEF Candidates, Claimants, Election!Usable
  <1>4. ASSUME NEW r \in Election!Usable PROVE r \in Candidates(claims, failed)
    <2>1. PICK p \in Products : Claimed[p] = r
      BY <1>4 DEF Election!Usable
    <2>2. r \in Revisions \ failed /\ r # None
      BY CoordinatorAssumption DEF Election!Usable
    <2>3. claims[p] # None /\ claims[p].revision = r
      BY <1>1, <1>2, <2>1, <2>2
    <2> QED
      BY <2>2, <2>3 DEF Candidates, Claimants
  <1> QED
    BY <1>3, <1>4

(* The revision a call is at work on is the newest of the election.        *)
LEMMA ForemostIsNewest ==
    ASSUME TypeOK, NEW r, Foremost(r, claims, failed)
    PROVE  Election!Newest(r)
  BY CandidatesAreUsable DEF Foremost, Election!Newest

(* A change of one claim changes one proposal.                             *)
LEMMA OneProposalChanges ==
    ASSUME TypeOK, NEW p \in Products, NEW c, claims' = [claims EXCEPT ![p] = c]
    PROVE  Claimed' = [Claimed EXCEPT ![p] = IF c = None THEN None ELSE c.revision]
  BY DEF TypeOK, Claimed

LEMMA InitImplements == Init => Election!Init
  <1> SUFFICES ASSUME Init PROVE Election!Init
    OBVIOUS
  <1>1. Claimed = [p \in Products |-> None]
    BY DEF Init, Claimed
  <1>2. Adopted \in Revisions \cup {None}
    BY DEF Init, Adopted
  <1> QED
    BY <1>1, <1>2 DEF Init, Election!Init

LEMMA RegistrationImplements ==
    ASSUME IInv, NEW p \in Products, Registration(p)
    PROVE  [Election!Next]_Election!election
  <1> PICK r \in Revisions :
        \/ RegisterOlder(p, r)
        \/ RegisterOlderThanAdopted(p, r)
        \/ RegisterUnavailable(p, r)
        \/ Register(p, r)
    BY DEF Registration
  <1> USE CoordinatorAssumption
  <1>1. CASE \/ RegisterOlder(p, r)
             \/ RegisterOlderThanAdopted(p, r)
             \/ RegisterUnavailable(p, r)
    <2>1. UNCHANGED <<claims, failed>> /\ Adopted' = Adopted
      BY <1>1 DEF RegisterOlder, RegisterOlderThanAdopted, RegisterUnavailable,
                  Arrive, Adopted, fileVars
    <2> QED
      BY <2>1 DEF Claimed, Election!election
  <1>2. CASE Register(p, r)
    <2> DEFINE c == Claim(r, generation + 1)
    <2>1. /\ claims' = [claims EXCEPT ![p] = c]
          /\ failed' = failed /\ Adopted' = Adopted /\ ~Older(p, r)
      BY <1>2 DEF Register, Adopted
    <2>2. c # None /\ c.revision = r
      <3>1. generation + 1 \in 1..MaximumGenerations
        BY <1>2 DEF Register, Arrive, IInv, TypeOK
      <3>2. claims[p] \in Claims \cup {None}
        BY DEF IInv, TypeOK
      <3> QED
        BY <3>1, ClaimType, NoneIsNoClaim DEF Claim
    <2>3. Claimed' = [Claimed EXCEPT ![p] = r]
      BY <2>1, <2>2, OneProposalChanges DEF IInv
    <2>4. Claimed[p] # None => Version[Claimed[p]] <= Version[r]
      <3>1. CASE claims[p] = None
        BY <3>1 DEF Claimed
      <3>2. CASE claims[p] # None
        <4>1. claims[p].revision \in Revisions /\ Claimed[p] = claims[p].revision
          BY <3>2 DEF IInv, TypeOK, Claims, Claimed
        <4>2. ~(Version[r] < Version[claims[p].revision])
          BY <2>1, <3>2 DEF Older
        <4>3. Version[r] \in Nat /\ Version[claims[p].revision] \in Nat
          BY <4>1
        <4> QED
          BY <4>1, <4>2, <4>3
      <3> QED
        BY <3>1, <3>2
    <2>5. Election!Propose(p, r)
      BY <2>1, <2>3, <2>4 DEF Election!Propose
    <2> QED
      BY <2>5 DEF Election!Next
  <1> QED
    BY <1>1, <1>2

LEMMA RemovalImplements ==
    ASSUME IInv, NEW p \in Products, Removal(p)
    PROVE  [Election!Next]_Election!election
  <1> PICK g \in 1..MaximumGenerations :
        \/ MarkPending(p, g)
        \/ \E token \in (1..MaximumMarks) \cup {None} : FinalizeRemoval(p, g, token)
    BY DEF Removal
  <1>1. CASE MarkPending(p, g)
    <2>1. /\ claims' = [claims EXCEPT ![p].token = marks + 1] /\ claims[p] # None
          /\ UNCHANGED <<stored, active, failed, installed>>
      BY <1>1 DEF MarkPending
    <2> DEFINE c == [claims[p] EXCEPT !.token = marks + 1]
    <2>2. claims[p] \in Claims
      BY <2>1 DEF IInv, TypeOK
    <2>3. marks + 1 \in 1..MaximumMarks
      BY <1>1, CoordinatorAssumption DEF MarkPending, IInv, TypeOK
    <2>4. c \in Claims /\ c.revision = claims[p].revision
      BY <2>2, <2>3 DEF Claims
    <2>5. claims' = [claims EXCEPT ![p] = c] /\ c # None
      BY <2>1, <2>4, NoneIsNoClaim
    <2> HIDE DEF c
    <2>6. Claimed' = [Claimed EXCEPT ![p] = c.revision]
      BY <2>5, OneProposalChanges DEF IInv
    <2>7. Claimed' = Claimed
      BY <2>1, <2>4, <2>6 DEF Claimed
    <2> QED
      BY <2>1, <2>7 DEF Adopted, Election!election
  <1>2. CASE \E token \in (1..MaximumMarks) \cup {None} : FinalizeRemoval(p, g, token)
    <2>1. /\ claims' = [claims EXCEPT ![p] = None] /\ claims[p] # None
          /\ UNCHANGED <<stored, active, failed, installed>>
      BY <1>2 DEF FinalizeRemoval
    <2>2. Claimed' = [Claimed EXCEPT ![p] = None]
      BY <2>1, OneProposalChanges DEF IInv
    <2>3. Claimed[p] # None
      <3>1. claims[p] \in Claims
        BY <2>1 DEF IInv, TypeOK
      <3> QED
        BY <2>1, <3>1, CoordinatorAssumption DEF Claims, Claimed
    <2>4. Adopted' = Adopted /\ failed' = failed
      BY <2>1 DEF Adopted
    <2> QED
      BY <2>2, <2>3, <2>4 DEF Election!Withdraw, Election!Next
  <1> QED
    BY <1>1, <1>2

(* A retry before the first registration writes a file that says nothing   *)
(* is active: what was installed is then given up, as nothing is put up.   *)
LEMMA RetryImplements ==
    ASSUME IInv, NEW rs \in SUBSET Revisions, Retry(rs)
    PROVE  [Election!Next]_Election!election
  <1>1. /\ stored' = TRUE /\ failed' = failed \ rs
        /\ UNCHANGED <<claims, active, installed>>
    BY DEF Retry
  <1>2. Claimed' = Claimed
    BY <1>1 DEF Claimed
  <1>3. CASE stored
    <2>1. Adopted' = Adopted
      BY <1>1, <1>3 DEF Adopted
    <2> QED
      BY <1>1, <1>2, <2>1 DEF Election!Pardon, Election!Next
  <1>4. CASE ~stored
    <2>1. Adopted' = None /\ failed' = failed
      BY <1>1, <1>4 DEF Adopted, IInv, NothingStored
    <2>2. \A p \in Products : Claimed[p] = None
      BY <1>4 DEF IInv, NothingStored, Claimed
    <2> QED
      BY <1>2, <2>1, <2>2 DEF Election!Retire, Election!Next
  <1> QED
    BY <1>3, <1>4

LEMMA ActivationImplements ==
    ASSUME IInv, Activation PROVE [Election!Next]_Election!election
  <1>1. Locked /\ (Holding("activate") \/ Holding("commit"))
    BY FreeHasNoStage DEF Activation, ActivationSucceeds, Commit, ActivationFails
  <1>2. /\ stored /\ call.revision \in Revisions /\ call.revision # active
        /\ Foremost(call.revision, claims, failed)
    BY <1>1, CallAtWork
  <1>3. Election!Newest(call.revision)
    BY <1>2, ForemostIsNewest DEF IInv
  <1>4. Adopted = active
    BY <1>2 DEF Adopted
  <1>5. CASE ActivationSucceeds
    <2>1. UNCHANGED <<claims, failed>> /\ Adopted' = Adopted
      BY <1>2, <1>5 DEF ActivationSucceeds, Adopted, fileVars
    <2> QED
      BY <2>1 DEF Claimed, Election!election
  <1>6. CASE Commit
    <2>1. UNCHANGED <<claims, failed>> /\ Adopted' = call.revision
      BY <1>2, <1>6 DEF Commit, Adopted
    <2>2. Claimed' = Claimed
      BY <2>1 DEF Claimed
    <2> QED
      BY <1>2, <1>3, <2>1, <2>2 DEF Election!Elect, Election!Next
  <1>7. CASE ActivationFails
    <2>1. /\ claims' = claims /\ Adopted' = Adopted
          /\ failed' = failed \cup {call.revision}
      BY <1>2, <1>7 DEF ActivationFails, Adopted
    <2>2. Claimed' = Claimed
      BY <2>1 DEF Claimed
    <2> QED
      BY <1>2, <1>3, <1>4, <2>1, <2>2 DEF Election!Quarantine, Election!Next
  <1> QED
    BY <1>5, <1>6, <1>7 DEF Activation

LEMMA EndImplements ==
    ASSUME IInv, Restoration \/ Crash PROVE [Election!Next]_Election!election
  <1>1. Locked
    BY FreeHasNoStage DEF Restoration, RestoreSucceeds, RestoreEnds, Crash
  <1>2. stored
    BY <1>1, CallAtWork
  <1>3. UNCHANGED <<stored, claims, failed>> /\ Claimed' = Claimed
    BY DEF Restoration, RestoreSucceeds, RestoreEnds, Crash, fileVars, Claimed
  <1>4. CASE RestoreSucceeds
    <2>1. Claimants(claims) = {} /\ active' = None
      BY <1>1, <1>4, CallAtWork DEF RestoreSucceeds
    <2>2. \A p \in Products : Claimed[p] = None
      BY <2>1 DEF Claimants, Claimed
    <2>3. Adopted' = None
      BY <1>2, <1>3, <2>1 DEF Adopted
    <2> QED
      BY <1>3, <2>2, <2>3 DEF Election!Retire, Election!Next
  <1>5. CASE RestoreEnds \/ Crash
    <2>1. Adopted' = Adopted
      BY <1>5 DEF RestoreEnds, Crash, fileVars, Adopted
    <2> QED
      BY <1>3, <2>1 DEF Election!election
  <1> QED
    BY <1>4, <1>5 DEF Restoration

LEMMA StepImplements ==
    IInv /\ [Next]_coordinatorVars => [Election!Next]_Election!election
  <1> SUFFICES ASSUME IInv, [Next]_coordinatorVars
               PROVE  [Election!Next]_Election!election
    OBVIOUS
  <1>1. CASE \E p \in Products : Registration(p) \/ Removal(p)
    BY <1>1, RegistrationImplements, RemovalImplements
  <1>2. CASE \E rs \in SUBSET Revisions : Retry(rs)
    BY <1>2, RetryImplements
  <1>3. CASE Progress
    BY <1>3, ActivationImplements, EndImplements DEF Progress
  <1>4. CASE Crash
    BY <1>4, EndImplements
  <1>5. CASE UNCHANGED coordinatorVars
    <2>1. UNCHANGED <<stored, claims, active, failed, installed>>
      BY <1>5 DEF coordinatorVars, fileVars
    <2> QED
      BY <2>1 DEF Claimed, Adopted, Election!election
  <1> QED
    BY <1>1, <1>2, <1>3, <1>4, <1>5 DEF Next

(* The coordinator elects as CoreElection says: the pointer only moves to  *)
(* the newest revision that is put up and not quarantined, and goes only   *)
(* when no product is left, with retries, fallbacks, crashes and the       *)
(* adoption of an older installation (coordinator.py, register to          *)
(* _activate_or_fallback).                                                 *)
THEOREM CoordinatorElects == Spec => ImplementsElection
  <1> USE DEF ImplementsElection, Election!Spec
  <1>1. Spec => []IInv
    BY IInvAlways
  <1> QED
    BY <1>1, InitImplements, StepImplements, PTL DEF Spec

-----------------------------------------------------------------------------
(* The lifecycle manager.                                                  *)

(* An activation under way belongs to a call, has its record, and names    *)
(* its core in install.json from the third step on.                        *)
TrialIsRecorded ==
    trial # "none" =>
        /\ Holding("activate")
        /\ transaction # None
        /\ trial \in {"switched", "restarted"} => install = call.revision

LInv == IInv /\ LifecycleTypeOK /\ TrialIsRecorded /\ TrialsAreUndone

-----------------------------------------------------------------------------
(* Every step of the system is one of the coordinator's, or none of its    *)
(* business.                                                               *)
LEMMA StepIsCoordinators == LifecycleNext => [Next]_coordinatorVars
  <1> SUFFICES ASSUME LifecycleNext PROVE [Next]_coordinatorVars
    OBVIOUS
  <1>1. CASE \/ Begin \/ InstallUnits \/ WriteState \/ RestartServices
             \/ Recovery \/ Session
    <2>1. UNCHANGED coordinatorVars
      BY <1>1 DEF Begin, InstallUnits, WriteState, RestartServices, Recovery, Recover,
                  RecoverBreaks, Session, Launch, RendererExits, StartSession
    <2> QED
      BY <2>1
  <1>2. CASE Complete \/ Undo \/ UndoBreaks \/ FailVerification \/ Commit
    <2>1. Activation
      BY <1>2 DEF Activation, Complete, Undo, UndoBreaks, FailVerification
    <2> QED
      BY <2>1 DEF Next, Progress
  <1>3. CASE Restore \/ EndRestore
    <2>1. Restoration
      BY <1>3 DEF Restoration, Restore, EndRestore
    <2> QED
      BY <2>1 DEF Next, Progress
  <1>4. CASE Elsewhere \/ Die
    BY <1>4 DEF Elsewhere, Die, Next
  <1> QED
    BY <1>1, <1>2, <1>3, <1>4 DEF LifecycleNext, InCall

(* The system implements Coordinator: what is proved of the coordinator    *)
(* with outcomes in the place of operations holds of it with the           *)
(* operations, their failures and the recoveries                           *)
(* (lifecycle.py, activate_prepared_runtime; coordinator.py).              *)
THEOREM LifecycleCoordinates == LifecycleSpec => Spec
  <1>1. LifecycleInit => Init
    BY DEF LifecycleInit
  <1>2. [LifecycleNext]_systemVars => [Next]_coordinatorVars
    BY StepIsCoordinators DEF systemVars
  <1> QED
    BY <1>1, <1>2, PTL DEF LifecycleSpec, Spec

-----------------------------------------------------------------------------
LEMMA InitLInv == LifecycleInit => LInv
  <1> SUFFICES ASSUME LifecycleInit PROVE LInv
    OBVIOUS
  <1>1. IInv
    BY InitIInv DEF LifecycleInit
  <1>2. install \in Revisions \cup {None} /\ linked \in BOOLEAN
    BY <1>1 DEF LifecycleInit, IInv, TypeOK
  <1>3. renderer \in Revisions \cup {System, Launching}
    BY DEF LifecycleInit, Started
  <1>4. LifecycleTypeOK
    BY <1>1, <1>2, <1>3 DEF LifecycleInit, LifecycleTypeOK, IInv, Stages
  <1> QED
    BY <1>1, <1>4 DEF LInv, LifecycleInit, TrialIsRecorded, TrialsAreUndone

(* An activation holds the lock, so nothing that needs it free happens.    *)
LEMMA NoTrialWhenFree ==
    ASSUME LInv, ~Holding("activate") PROVE trial = "none"
  BY DEF LInv, TrialIsRecorded

(* The steps of an activation up to its last.                              *)
LEMMA TrialStep ==
    ASSUME LInv, IInv', Begin \/ InstallUnits \/ WriteState \/ RestartServices
    PROVE  LInv'
  <1>1. UNCHANGED coordinatorVars /\ TypeOK'
    BY DEF Begin, InstallUnits, WriteState, RestartServices, IInv
  <1>2. UNCHANGED <<call, installed>>
    BY <1>1 DEF coordinatorVars
  <1>3. CASE Begin
    <2>1. /\ Holding("activate") /\ transaction = None
          /\ transaction' = [prior |-> install, linked |-> linked]
          /\ trial' = "recorded"
          /\ UNCHANGED <<install, linked, renderer>>
      BY <1>3 DEF Begin, Proceeds
    <2>2. transaction' \in Transactions
      BY <2>1 DEF LInv, LifecycleTypeOK, Transactions
    <2>3. transaction' # None /\ transaction'.prior = install
      BY <2>1, <2>2, LifecycleAssumption
    <2>4. install = installed
      BY <2>1 DEF LInv, TrialsAreUndone
    <2>5. Holding("activate")'
      BY <1>2, <2>1 DEF Holding
    <2> QED
      BY <1>1, <1>2, <2>1, <2>2, <2>3, <2>4, <2>5
      DEF LInv, LifecycleTypeOK, TrialIsRecorded, TrialsAreUndone, Stages
  <1>4. CASE InstallUnits \/ WriteState \/ RestartServices
    <2>1. /\ trial # "none" /\ Holding("activate") /\ transaction # None
          /\ transaction' = transaction
      BY <1>4 DEF InstallUnits, WriteState, RestartServices, Trying, LInv, TrialIsRecorded
    <2>2. call.revision \in Revisions
      BY <2>1, CallAtWork, FreeHasNoStage DEF LInv
    <2>3. trial' \in Stages /\ install' \in Revisions \cup {None} /\ linked' \in BOOLEAN
      BY <1>4, <2>2 DEF InstallUnits, WriteState, RestartServices, Proceeds, Stages,
                        LInv, LifecycleTypeOK
    <2>4. renderer' \in Revisions \cup {System, Launching}
      BY <1>4 DEF InstallUnits, WriteState, RestartServices, Started, LInv, LifecycleTypeOK
    <2>5. trial' \in {"switched", "restarted"} => install' = call.revision
      BY <1>4 DEF InstallUnits, WriteState, RestartServices, Trying, Proceeds,
                  LInv, TrialIsRecorded
    <2>6. Holding("activate")'
      BY <1>2, <2>1 DEF Holding
    <2> QED
      BY <1>1, <1>2, <2>1, <2>3, <2>4, <2>5, <2>6
      DEF LInv, LifecycleTypeOK, TrialIsRecorded, TrialsAreUndone
  <1> QED
    BY <1>3, <1>4

(* The last step, and what undoes the others.                              *)
LEMMA OutcomeStep ==
    ASSUME LInv, IInv', Complete \/ Undo \/ UndoBreaks \/ FailVerification
    PROVE  LInv'
  <1>1. Holding("activate") /\ TypeOK'
    BY DEF Complete, Undo, UndoBreaks, FailVerification, ActivationSucceeds,
           ActivationFails, IInv
  <1>2. trial' = "none"
    BY DEF Complete, Undo, UndoBreaks, FailVerification, Trying, Proceeds, lifecycleVars
  <1>3. TrialIsRecorded' /\ trial' \in Stages
    BY <1>2 DEF TrialIsRecorded, Stages
  <1>4. CASE Complete
    <2>1. /\ install = call.revision /\ installed' = call.revision
          /\ transaction' = None
          /\ UNCHANGED <<install, linked, renderer>>
      BY <1>4 DEF Complete, ActivationSucceeds, Trying, LInv, TrialIsRecorded
    <2> QED
      BY <1>1, <1>3, <2>1 DEF LInv, LifecycleTypeOK, TrialsAreUndone
  <1>5. CASE Undo \/ UndoBreaks
    <2>1. /\ transaction \in Transactions /\ transaction # None
          /\ transaction.prior = installed /\ installed' = installed
          /\ install' = transaction.prior
          /\ transaction' \in {None, transaction}
      BY <1>5 DEF Undo, UndoBreaks, ActivationFails, Trying, LInv, LifecycleTypeOK,
                  TrialIsRecorded, TrialsAreUndone
    <2>2. linked' \in BOOLEAN /\ install' \in Revisions \cup {None}
      BY <1>5, <2>1 DEF Undo, UndoBreaks, LInv, LifecycleTypeOK, Transactions
    <2>3. renderer' \in Revisions \cup {System, Launching}
      BY <1>5 DEF Undo, UndoBreaks, Started, LInv, LifecycleTypeOK
    <2> QED
      BY <1>1, <1>3, <2>1, <2>2, <2>3 DEF LInv, LifecycleTypeOK, TrialsAreUndone
  <1>6. CASE FailVerification
    <2>1. installed' = installed /\ UNCHANGED <<install, linked, transaction, renderer>>
      BY <1>6 DEF FailVerification, ActivationFails, lifecycleVars
    <2> QED
      BY <1>1, <1>3, <2>1 DEF LInv, LifecycleTypeOK, TrialsAreUndone
  <1> QED
    BY <1>4, <1>5, <1>6

LEMMA RecoveryStep ==
    ASSUME LInv, IInv', Recovery PROVE LInv'
  <1>1. /\ transaction \in Transactions /\ transaction.prior = installed
        /\ install' = transaction.prior
        /\ transaction' \in {None, transaction}
        /\ trial = "none" /\ trial' = "none"
        /\ UNCHANGED coordinatorVars
    BY DEF Recovery, Recover, RecoverBreaks, Trying, LInv, LifecycleTypeOK, TrialsAreUndone
  <1>2. installed' = installed /\ TypeOK'
    BY <1>1 DEF coordinatorVars, IInv
  <1>3. linked' \in BOOLEAN /\ install' \in Revisions \cup {None}
    BY <1>1 DEF Recovery, Recover, RecoverBreaks, LInv, LifecycleTypeOK, Transactions
  <1>4. renderer' \in Revisions \cup {System, Launching}
    BY DEF Recovery, Recover, RecoverBreaks, Started, LInv, LifecycleTypeOK
  <1> QED
    BY <1>1, <1>2, <1>3, <1>4
    DEF LInv, LifecycleTypeOK, TrialIsRecorded, TrialsAreUndone, Stages

LEMMA SessionStep ==
    ASSUME LInv, IInv', Session PROVE LInv'
  <1>1. UNCHANGED <<coordinatorVars, lifecycleVars>> /\ TypeOK'
    BY DEF Session, Launch, RendererExits, StartSession, IInv
  <1>2. renderer' \in Revisions \cup {System, Launching}
    BY DEF Session, Launch, RendererExits, StartSession, Started, ActiveRuntime,
           LInv, LifecycleTypeOK, TypeOK
  <1> QED
    BY <1>1, <1>2
    DEF LInv, LifecycleTypeOK, TrialIsRecorded, TrialsAreUndone, Holding,
        coordinatorVars, lifecycleVars

(* What the coordinator does when no activation is under way.              *)
LEMMA CoordinatorStep ==
    ASSUME LInv, IInv',
           \/ Commit /\ UNCHANGED <<lifecycleVars, renderer>>
           \/ Restore
           \/ EndRestore
           \/ Elsewhere
    PROVE  LInv'
  <1>1. ~Holding("activate") /\ installed' = installed /\ TypeOK'
    <2>1. CASE Commit \/ Restore \/ EndRestore
      BY <2>1 DEF Commit, Restore, EndRestore, RestoreSucceeds, RestoreEnds, Holding, IInv
    <2>2. CASE Elsewhere
      <3>1. call = Free /\ installed' = installed
        BY <2>2 DEF Elsewhere, Registration, RegisterOlder, RegisterOlderThanAdopted,
                    RegisterUnavailable, Register, Arrive, Removal, MarkPending,
                    FinalizeRemoval, Retry, Locked
      <3> QED
        BY <3>1 DEF Holding, Free, IInv
    <2> QED
      BY <2>1, <2>2
  <1>2. /\ trial = "none"
        /\ UNCHANGED <<install, transaction, trial>>
        /\ linked' \in BOOLEAN
        /\ renderer' \in Revisions \cup {System, Launching}
    BY <1>1, NoTrialWhenFree
    DEF Restore, EndRestore, BackToSystem, Elsewhere, lifecycleVars, LInv, LifecycleTypeOK
  <1> QED
    BY <1>1, <1>2 DEF LInv, LifecycleTypeOK, TrialIsRecorded, TrialsAreUndone

LEMMA DieStep ==
    ASSUME LInv, IInv', Die PROVE LInv'
  <1>1. /\ installed' = installed /\ trial' = "none"
        /\ UNCHANGED <<install, linked, transaction, renderer>> /\ TypeOK'
    BY DEF Die, Crash, Proceeds, IInv
  <1> QED
    BY <1>1 DEF LInv, LifecycleTypeOK, TrialIsRecorded, TrialsAreUndone, Stages

LEMMA StepLInv == LInv /\ [LifecycleNext]_systemVars => LInv'
  <1> SUFFICES ASSUME LInv, [LifecycleNext]_systemVars PROVE LInv'
    OBVIOUS
  <1>1. CASE LifecycleNext
    <2>1. IInv'
      BY <1>1, StepIsCoordinators, StepIInv DEF LInv
    <2> QED
      BY <1>1, <2>1, TrialStep, OutcomeStep, RecoveryStep, SessionStep, CoordinatorStep,
         DieStep
      DEF LifecycleNext, InCall
  <1>2. CASE UNCHANGED systemVars
    <2>1. UNCHANGED coordinatorVars /\ UNCHANGED <<install, linked, transaction, trial, renderer>>
      BY <1>2 DEF systemVars, lifecycleVars
    <2>2. IInv'
      BY <2>1, StepIInv DEF LInv
    <2>3. UNCHANGED <<call, installed>> /\ TypeOK'
      BY <2>1, <2>2 DEF coordinatorVars, IInv
    <2> QED
      BY <2>1, <2>2, <2>3
      DEF LInv, LifecycleTypeOK, TrialIsRecorded, TrialsAreUndone, Holding
  <1> QED
    BY <1>1, <1>2

THEOREM LInvAlways == LifecycleSpec => []LInv
  BY InitLInv, StepLInv, PTL DEF LifecycleSpec

(* Every variable of the system keeps its type.                            *)
THEOREM LifecycleTypeCorrect == LifecycleSpec => []LifecycleTypeOK
  <1>1. LInv => LifecycleTypeOK
    BY DEF LInv
  <1> QED
    BY <1>1, LInvAlways, PTL

(* What the last completed activation installed is named by install.json   *)
(* or by the record, after any sequence of failures, deaths and recoveries *)
(* that break off (lifecycle.py, _activate_prepared_locked).               *)
THEOREM InstallationIsNeverLost == LifecycleSpec => []TrialsAreUndone
  <1>1. LInv => TrialsAreUndone
    BY DEF LInv
  <1> QED
    BY <1>1, LInvAlways, PTL

-----------------------------------------------------------------------------
(* MangoApp is never started as a core that is quarantined                 *)
(* (launcher.py, active_runtime).                                          *)
THEOREM QuarantinedIsNotStarted == LifecycleSpec => QuarantinedNeverStarts
  <1>1. LInv /\ [LifecycleNext]_systemVars
        => [renderer' # renderer => renderer' \notin failed]_systemVars
    <2> SUFFICES ASSUME LInv, LifecycleNext, renderer' # renderer
                 PROVE  renderer' \notin failed
      OBVIOUS
    <2>1. /\ failed \subseteq Revisions /\ active \notin failed
          /\ ~stored => failed = {}
      BY DEF LInv, IInv, TypeOK, QuarantineIsKept, NothingStored
    <2>2. System \notin failed /\ Launching \notin failed
      BY <2>1, LifecycleAssumption
    <2>3. CASE Launch
      BY <2>1, <2>2, <2>3 DEF Launch, ActiveRuntime
    <2>4. CASE ~Launch
      <3>1. renderer' \in {System, Launching}
        BY <2>4 DEF LifecycleNext, InCall, Begin, InstallUnits, WriteState,
                    RestartServices, Complete, Undo, UndoBreaks, FailVerification,
                    Restore, EndRestore, BackToSystem, Recovery, Recover, RecoverBreaks,
                    Session, RendererExits, StartSession, Elsewhere, Die, Started
      <3> QED
        BY <2>2, <3>1
    <2> QED
      BY <2>3, <2>4
  <1> QED
    BY <1>1, LInvAlways, PTL DEF LifecycleSpec, QuarantinedNeverStarts
=============================================================================
