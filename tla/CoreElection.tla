---------------------------- MODULE CoreElection ----------------------------
(***************************************************************************)
(* What the coordinator of the shared core promises the products that ship *)
(* one: the active core is put up by a product, is newer than every other  *)
(* that may run, never one that is quarantined, and goes away only with    *)
(* the last product.  Coordinator is shown to implement this module.       *)
(***************************************************************************)
EXTENDS Integers

CONSTANTS
    Products,
    Revisions,          \* content revisions of the core
    Version,            \* revision -> its core version
    None

VARIABLES
    claimed,            \* product -> the revision it puts up, or None
    quarantined,        \* revisions that failed to start
    active              \* the revision that runs, or None for the system's

election == <<claimed, quarantined, active>>

Usable == {r \in Revisions \ quarantined : \E p \in Products : claimed[p] = r}

Newest(r) ==
    /\ r \in Usable
    /\ \A s \in Usable \ {r} : Version[s] < Version[r]

Init ==
    /\ claimed = [p \in Products |-> None]
    /\ quarantined = {}
    /\ active \in Revisions \cup {None}

(* A product puts up a revision; never one older than its last.            *)
Propose(p, r) ==
    /\ claimed[p] # None => Version[claimed[p]] <= Version[r]
    /\ claimed' = [claimed EXCEPT ![p] = r]
    /\ UNCHANGED <<quarantined, active>>

Withdraw(p) ==
    /\ claimed[p] # None
    /\ claimed' = [claimed EXCEPT ![p] = None]
    /\ UNCHANGED <<quarantined, active>>

(* The newest revision failed to start.                                    *)
Quarantine(r) ==
    /\ Newest(r)
    /\ r # active
    /\ quarantined' = quarantined \cup {r}
    /\ UNCHANGED <<claimed, active>>

Pardon(rs) ==
    /\ quarantined' = quarantined \ rs
    /\ UNCHANGED <<claimed, active>>

Elect(r) ==
    /\ Newest(r)
    /\ active' = r
    /\ UNCHANGED <<claimed, quarantined>>

Retire ==
    /\ \A p \in Products : claimed[p] = None
    /\ active' = None
    /\ UNCHANGED <<claimed, quarantined>>

Next ==
    \/ \E rs \in SUBSET Revisions : Pardon(rs)
    \/ \E p \in Products : Withdraw(p) \/ \E r \in Revisions : Propose(p, r)
    \/ \E r \in Revisions : Quarantine(r) \/ Elect(r)
    \/ Retire

Spec == Init /\ [][Next]_election

=============================================================================
