---------------------------- MODULE Coordinator -----------------------------
(***************************************************************************)
(* The coordinator of the shared core                                      *)
(* (plugin/py_modules/mango_overlay_decky/coordinator.py).  Every call     *)
(* holds one file lock from its first read to its last write, so one call  *)
(* is in progress at a time; the writes are atomic renames, and the        *)
(* process may die between any two of them.  What the operations do, which *)
(* take seconds between two writes, is their outcome here.                 *)
(***************************************************************************)
EXTENDS Integers, FiniteSets

CONSTANTS
    Products,
    Revisions,          \* content revisions; one has one core version
    Version,            \* revision -> its core version
    None,
    MaximumGenerations, \* bounds of the model: backends that start, and
    MaximumMarks        \*   removals that are announced

ASSUME CoordinatorAssumption ==
    /\ Version \in [Revisions -> Nat]
    /\ None \notin Revisions \cup Nat
    /\ MaximumGenerations \in Nat
    /\ MaximumMarks \in Nat

VARIABLES
    stored,         \* whether state.json exists
    claims,         \* product -> its claim, or None
    active,         \* active_revision (known_good_revision goes with it)
    failed,         \* failed_revisions
    verified,       \* verified_revisions
    call,           \* the call that holds the lock, between two writes
    installed,      \* the runtime install.json names, see RuntimeOperations
    generation,     \* how many backends there were
    marks           \* how many pending tokens were given out

fileVars == <<stored, claims, active, failed, verified>>
callerVars == <<generation, marks>>
coordinatorVars == <<fileVars, call, installed, callerVars>>

-----------------------------------------------------------------------------
(* The lock and the call that holds it.                                    *)

Free == [operation |-> "none", stage |-> "none", revision |-> None]
Operations == {"register", "finalize", "retry"}
Calls ==
    {Free}
    \cup [operation : Operations, stage : {"activate", "commit"}, revision : Revisions]
    \cup [operation : Operations, stage : {"restore", "fall_back"}, revision : {None}]

Locked == call # Free
Holding(stage) == call.stage = stage

-----------------------------------------------------------------------------
(* select_candidate                                                        *)

Claim(r, g) == [revision |-> r, generation |-> g, token |-> None]
Claims ==
    [revision : Revisions, generation : 1..MaximumGenerations,
     token : (1..MaximumMarks) \cup {None}]

ASSUME NoneIsNoClaim == None \notin Claims

Claimants(cs) == {p \in Products : cs[p] # None}
Candidates(cs, quarantine) == {cs[p].revision : p \in Claimants(cs)} \ quarantine

(* The candidates no other is newer than.                                  *)
Highest(cs, quarantine) ==
    {r \in Candidates(cs, quarantine) :
        \A s \in Candidates(cs, quarantine) : Version[s] <= Version[r]}

Selected(cs, quarantine) ==
    CHOOSE r \in Revisions : Highest(cs, quarantine) = {r}

(* Two contents of one version: nobody can say which is newer.             *)
Conflict(cs, quarantine) ==
    /\ Candidates(cs, quarantine) # {}
    /\ \A r \in Revisions : Highest(cs, quarantine) # {r}

-----------------------------------------------------------------------------
(* _reconcile and the end of _activate_or_fallback: what the call does     *)
(* after the claims, the pointer or the quarantine have changed.           *)

Proceed(stage, operation, r) ==
    [operation |-> operation, stage |-> stage, revision |-> r]

(* Mutant: the system is restored although somebody still claims.          *)
RestoredEarly(operation, cs, pointer, quarantine) ==
    CASE Candidates(cs, quarantine) = {} ->
            IF pointer # None THEN Proceed("restore", operation, None) ELSE Free
      [] Conflict(cs, quarantine) -> Free
      [] OTHER ->
            IF Selected(cs, quarantine) = pointer
                THEN Free ELSE Proceed("activate", operation, Selected(cs, quarantine))

Reconciled(operation, cs, pointer, quarantine) ==
    CASE Candidates(cs, quarantine) = {} ->
            IF Claimants(cs) = {} /\ pointer # None
                THEN Proceed("restore", operation, None) ELSE Free
      [] Conflict(cs, quarantine) -> Free
      [] OTHER ->
            IF Selected(cs, quarantine) = pointer
                THEN Free ELSE Proceed("activate", operation, Selected(cs, quarantine))

(* Mutant: the pointer is gone back to without a look whether there is one. *)
BackToPointer(operation, cs, pointer, quarantine) ==
    CASE Conflict(cs, quarantine) -> Free
      [] OTHER ->
            Proceed("activate", operation,
                    IF Candidates(cs, quarantine) # {}
                        THEN Selected(cs, quarantine) ELSE pointer)

FallenBack(operation, cs, pointer, quarantine) ==
    CASE Conflict(cs, quarantine) -> Free
      [] /\ Candidates(cs, quarantine) # {}
         /\ ~Conflict(cs, quarantine)
         /\ Selected(cs, quarantine) # pointer ->
            Proceed("activate", operation, Selected(cs, quarantine))
      [] OTHER ->
            IF pointer # None THEN Free ELSE Proceed("fall_back", operation, None)

-----------------------------------------------------------------------------
Init ==
    /\ stored = FALSE
    /\ claims = [p \in Products |-> None]
    /\ active = None
    /\ failed = {}
    /\ verified = {}
    /\ call = Free
    /\ installed \in Revisions \cup {None}
    /\ generation = 0
    /\ marks = 0

(* register: a new backend of p, with a generation nobody had, puts up the *)
(* revision it ships.  The first call ever adopts what an installation     *)
(* without a coordinator runs.                                             *)
Adopted == IF stored THEN active ELSE installed

Arrive ==
    /\ ~Locked
    /\ generation < MaximumGenerations
    /\ generation' = generation + 1
    /\ UNCHANGED <<marks, installed>>

Older(p, r) == claims[p] # None /\ Version[r] < Version[claims[p].revision]
OlderThanAdopted(r) == ~stored /\ installed # None /\ Version[r] < Version[installed]

RegisterOlder(p, r) ==
    /\ Arrive
    /\ Older(p, r)
    /\ UNCHANGED <<fileVars, call>>

(* Refused without a trace, so that the next call adopts again; only when  *)
(* the manifest of what is installed could be read.                        *)
RegisterOlderThanAdopted(p, r) ==
    /\ Arrive
    /\ OlderThanAdopted(r)
    /\ UNCHANGED <<fileVars, call>>

(* ensure_candidate finds the runtime damaged.                             *)
RegisterUnavailable(p, r) ==
    /\ Arrive
    /\ ~Older(p, r)
    /\ stored' = TRUE
    /\ active' = Adopted
    /\ UNCHANGED <<claims, failed, verified, call>>

Register(p, r) ==
    /\ Arrive
    /\ ~Older(p, r)
    /\ stored' = TRUE
    /\ active' = Adopted
    /\ claims' = [claims EXCEPT ![p] = Claim(r, generation + 1)]
    /\ call' = Reconciled("register", claims', Adopted, failed)
    /\ UNCHANGED <<failed, verified>>

(* mark_pending_removal: the claim counts until its removal is confirmed.  *)
MarkPending(p, g) ==
    /\ ~Locked
    /\ claims[p] # None
    /\ claims[p].generation = g
    /\ marks < MaximumMarks
    /\ marks' = marks + 1
    /\ claims' = [claims EXCEPT ![p].token = marks + 1]
    /\ UNCHANGED <<stored, active, failed, verified, call, installed, generation>>

(* finalize_removal with the token of the announcement, or with none; the  *)
(* caller saw that the plugin is gone.                                     *)
FinalizeRemoval(p, g, token) ==
    /\ ~Locked
    /\ claims[p] # None
    /\ claims[p].generation = g
    /\ claims[p].token # None
    /\ token # None => claims[p].token = token
    /\ claims' = [claims EXCEPT ![p] = None]
    /\ call' = Reconciled("finalize", claims', active, failed)
    /\ UNCHANGED <<stored, active, failed, verified, installed, callerVars>>

(* retry: one revision, or all that failed, may be tried again.            *)
Retry(rs) ==
    /\ ~Locked
    /\ rs = failed \/ \E r \in Revisions : rs = {r}
    /\ stored' = TRUE
    /\ failed' = failed \ rs
    /\ verified' = verified \ rs
    /\ call' = Reconciled("retry", claims, active, failed')
    /\ UNCHANGED <<claims, active, installed, callerVars>>

-----------------------------------------------------------------------------
(* _activate_or_fallback                                                   *)

(* verify_candidate, unless it passed before, and activate succeed; the    *)
(* state file does not say so yet.                                         *)
ActivationSucceeds ==
    /\ Holding("activate")
    /\ installed' = call.revision
    /\ call' = [call EXCEPT !.stage = "commit"]
    /\ UNCHANGED <<fileVars, callerVars>>

Commit ==
    /\ Holding("commit")
    /\ active' = call.revision
    /\ verified' = verified \cup {call.revision}
    /\ call' = Free
    /\ UNCHANGED <<stored, claims, failed, installed, callerVars>>

(* Mutant: a revision that failed stays verified.                          *)
FailsVerified ==
    /\ Holding("activate")
    /\ failed' = failed \cup {call.revision}
    /\ call' = FallenBack(call.operation, claims, active, failed')
    /\ UNCHANGED <<stored, claims, active, verified, installed, callerVars>>

(* Mutant: only the last revision that failed is remembered.               *)
FailsForgetting ==
    /\ Holding("activate")
    /\ failed' = {call.revision}
    /\ verified' = verified \ {call.revision}
    /\ call' = FallenBack(call.operation, claims, active, failed')
    /\ UNCHANGED <<stored, claims, active, installed, callerVars>>

(* One of them fails, and activate undoes what it did.                     *)
ActivationFails ==
    /\ Holding("activate")
    /\ failed' = failed \cup {call.revision}
    /\ verified' = verified \ {call.revision}
    /\ call' = FallenBack(call.operation, claims, active, failed')
    /\ UNCHANGED <<stored, claims, active, installed, callerVars>>

(* restore_system; the pointer goes only when it worked.                   *)
RestoreSucceeds ==
    /\ Holding("restore")
    /\ active' = None
    /\ call' = Free
    /\ UNCHANGED <<stored, claims, failed, verified, installed, callerVars>>

RestoreEnds ==
    /\ Holding("restore") \/ Holding("fall_back")
    /\ call' = Free
    /\ UNCHANGED <<fileVars, installed, callerVars>>

(* The process that holds the lock dies; the kernel drops the lock.        *)
Crash ==
    /\ Locked
    /\ call' = Free
    /\ UNCHANGED <<fileVars, installed, callerVars>>

-----------------------------------------------------------------------------
Activation == ActivationSucceeds \/ Commit \/ ActivationFails
Restoration == RestoreSucceeds \/ RestoreEnds
Progress == Activation \/ Restoration

Registration(p) ==
    \E r \in Revisions :
        \/ RegisterOlder(p, r)
        \/ RegisterOlderThanAdopted(p, r)
        \/ RegisterUnavailable(p, r)
        \/ Register(p, r)

Removal(p) ==
    \E g \in 1..MaximumGenerations :
        \/ MarkPending(p, g)
        \/ \E token \in (1..MaximumMarks) \cup {None} : FinalizeRemoval(p, g, token)

Next ==
    \/ \E p \in Products : Registration(p) \/ Removal(p)
    \/ \E rs \in SUBSET Revisions : Retry(rs)
    \/ Progress
    \/ Crash

Spec == Init /\ [][Next]_coordinatorVars

(* A call that has the lock goes on: it runs in a thread or process of its *)
(* own and every operation has a timeout.                                  *)
FairSpec == Spec /\ WF_coordinatorVars(Progress)

-----------------------------------------------------------------------------
TypeOK ==
    /\ stored \in BOOLEAN
    /\ claims \in [Products -> Claims \cup {None}]
    /\ active \in Revisions \cup {None}
    /\ failed \in SUBSET Revisions
    /\ verified \in SUBSET Revisions
    /\ call \in Calls
    /\ installed \in Revisions \cup {None}
    /\ generation \in 0..MaximumGenerations
    /\ marks \in 0..MaximumMarks

(* A revision that failed to start is neither active nor counted among the *)
(* verified, wherever a call was cut off: a switch that went wrong after   *)
(* the pointer moved, or a pardon that kept a verdict, would leave one     *)
(* (coordinator.py, _activate_or_fallback and retry).                      *)
QuarantineIsKept == active \notin failed /\ failed \cap verified = {}

Claimed == [p \in Products |-> IF claims[p] = None THEN None ELSE claims[p].revision]

Election == INSTANCE CoreElection
    WITH claimed <- Claimed, quarantined <- failed, active <- Adopted

(* The coordinator implements CoreElection: across retries, fallbacks,     *)
(* crashes and the adoption of an old installation, the pointer moves only *)
(* to the newest revision that is put up and not quarantined, and is       *)
(* cleared only when nothing is put up.                                    *)
ImplementsElection == Election!Spec

(* However many candidates fail, a call gives the lock back                *)
(* (_activate_or_fallback descends and never tries one twice).             *)
CallsEnd == Locked ~> ~Locked

=============================================================================
