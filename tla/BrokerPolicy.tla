---------------------------- MODULE BrokerPolicy ----------------------------
(***************************************************************************)
(* Controllers change the policy and the broker saves it before it takes   *)
(* effect (broker/src/controller_session.cpp, policy_file.cpp, the commit  *)
(* callback and the start in main.cpp).  Every controller has a thread; a  *)
(* change holds the store's mutex from the comparison to the assignment,   *)
(* the disk included.  The process may be killed, and the machine may lose *)
(* power, between any two steps.                                           *)
(***************************************************************************)
EXTENDS Policy

CONSTANTS
    Controllers,
    Changes,                    \* the requests a controller may send
    TestApplication,            \* "dev.mango-overlay.test"
    MaximumPolicyApplications,  \* maximum_policy_applications
    MaximumSavedApplications,   \* how many fit maximum_policy_bytes
    MaximumWriteErrors,         \* bounds of the model on failing disk calls
    MaximumSyncErrors,          \*   before the rename, and after it
    MaximumStops                \* bound of the model on kills and power losses

ChangeType ==
    [kind : {"enabled", "require_approval"}, value : BOOLEAN]
    \cup [kind : {"application"}, application : Applications, policy : Policies]
    \cup [kind : {"position"}, application : Applications, position : Nat]

ASSUME BrokerAssumption ==
    /\ TestApplication \in Applications
    /\ Changes \subseteq ChangeType
    /\ \A change \in Changes :
           change.kind = "application" => change.policy.order <= MaximumOrder
    /\ {MaximumPolicyApplications, MaximumSavedApplications,
        MaximumWriteErrors, MaximumSyncErrors, MaximumStops} \subseteq Nat
    /\ None \notin OverlayPolicies \cup Controllers \cup Changes

VARIABLES
    live,           \* the store's policy, None while no broker runs
    next_order,
    holder,         \* the controller that holds the store's mutex, or None
    session,        \* controller -> [step, change, candidate]
    answer,         \* controller -> its last answer
    file,           \* the policy file: what a new broker process reads
    durable,        \* the policy file that a power loss may bring back
    write_errors,
    sync_errors,
    stops,
    acknowledged,   \* history: the file of the last change that succeeded
    attempted       \* history: the files renamed into place since then

diskVars == <<file, durable, acknowledged, attempted>>
boundVars == <<write_errors, sync_errors, stops>>
vars == <<live, next_order, holder, session, answer, diskVars, boundVars>>

-----------------------------------------------------------------------------
(* What a change makes of the policy.                                      *)

Running == live # None
Known == Present(live.applications)

IdleSession == [step |-> "idle", change |-> None, candidate |-> None]

(* The application is there and the position in range.                     *)
Applicable(change) ==
    /\ change.kind \in {"application", "position"} => change.application \in Known
    /\ change.kind = "position" => change.position < Cardinality(Known)

NoChange(change) ==
    CASE change.kind = "enabled" -> live.enabled = change.value
      [] change.kind = "require_approval" -> live.require_approval = change.value
      [] change.kind = "application" ->
             live.applications[change.application] = change.policy
      [] change.kind = "position" ->
             Position(live.applications, change.application, Known) = change.position

Candidate(change) ==
    CASE change.kind = "enabled" -> [live EXCEPT !.enabled = change.value]
      [] change.kind = "require_approval" ->
             [live EXCEPT !.require_approval = change.value]
      [] change.kind = "application" ->
             [live EXCEPT !.applications[change.application] = change.policy]
      [] change.kind = "position" ->
             [live EXCEPT !.applications =
                 Renumbered(@, change.application, change.position)]

NextOrder(change) ==
    CASE change.kind = "application" ->
             Max({next_order, next_policy_order(change.policy.order)})
      [] change.kind = "position" -> Cardinality(Known)
      [] OTHER -> next_order

-----------------------------------------------------------------------------
(* A controller's request (ControllerSession::process).                    *)

(* The session reads the policy under the mutex to refuse an unknown       *)
(* application or a position out of range, and lets the mutex go.          *)
Request(c, change) ==
    /\ Running
    /\ session[c].step = "idle"
    /\ change.kind \in {"application", "position"} => holder = None
    /\ IF Applicable(change)
       THEN /\ session' = [session EXCEPT ![c] =
                   [step |-> "checked", change |-> change, candidate |-> None]]
            /\ answer' = [answer EXCEPT ![c] = "none"]
       ELSE /\ answer' = [answer EXCEPT ![c] = "refused"]
            /\ UNCHANGED session
    /\ UNCHANGED <<live, next_order, holder, diskVars, boundVars>>

(* An operation that returned false: "The policy could not be saved".      *)
(* The third rejection closes the connection and with it the session; the  *)
(* controller may connect again, and is idle either way: no count is kept. *)
Fail(c) ==
    /\ answer' = [answer EXCEPT ![c] = "operation_failed"]
    /\ session' = [session EXCEPT ![c] = IdleSession]
    /\ holder' = None
    /\ UNCHANGED <<live, next_order>>

(* Mutant: the store takes the policy over before it is saved.             *)
SetEarly(c) ==
    LET change == session[c].change
        candidate == Candidate(change)
    IN  /\ session[c].step = "checked"
        /\ holder = None
        /\ \/ /\ ~Applicable(change)
              /\ Fail(c)
           \/ /\ Applicable(change) /\ NoChange(change)
              /\ session' = [session EXCEPT ![c].step = "applied"]
              /\ UNCHANGED <<live, next_order, holder, answer>>
           \/ /\ Applicable(change) /\ ~NoChange(change)
              /\ session' = [session EXCEPT ![c].step = "saving",
                                            ![c].candidate = candidate]
              /\ holder' = c
              /\ live' = candidate
              /\ UNCHANGED <<next_order, answer>>
        /\ UNCHANGED <<diskVars, boundVars>>

(* The store takes its mutex, looks again, and hands the policy it would   *)
(* have to the commit callback; a policy too large to save fails at once.  *)
Set(c) ==
    LET change == session[c].change
        candidate == Candidate(change)
    IN  /\ session[c].step = "checked"
        /\ holder = None
        /\ \/ /\ ~Applicable(change)
              /\ Fail(c)
           \/ /\ Applicable(change) /\ NoChange(change)
              /\ session' = [session EXCEPT ![c].step = "applied"]
              /\ UNCHANGED <<live, next_order, holder, answer>>
           \/ /\ Applicable(change) /\ ~NoChange(change)
              /\ Cardinality(Known) > MaximumSavedApplications
              /\ Fail(c)
           \/ /\ Applicable(change) /\ ~NoChange(change)
              /\ Cardinality(Known) <= MaximumSavedApplications
              /\ session' = [session EXCEPT ![c].step = "saving",
                                            ![c].candidate = candidate]
              /\ holder' = c
              /\ UNCHANGED <<live, next_order, answer>>
        /\ UNCHANGED <<diskVars, boundVars>>

(* save_policy_file: the directory, the temporary file, its contents and   *)
(* its fsync.  Nothing that fails here leaves more than a temporary file.  *)
WriteTemporary(c) ==
    /\ session[c].step = "saving"
    /\ session' = [session EXCEPT ![c].step = "written"]
    /\ UNCHANGED <<live, next_order, holder, answer, diskVars, boundVars>>

FailToWrite(c) ==
    /\ session[c].step \in {"saving", "written"}
    /\ write_errors < MaximumWriteErrors
    /\ write_errors' = write_errors + 1
    /\ Fail(c)
    /\ UNCHANGED <<diskVars, sync_errors, stops>>

Rename(c) ==
    /\ session[c].step = "written"
    /\ file' = session[c].candidate
    /\ attempted' = attempted \cup {file'}
    /\ session' = [session EXCEPT ![c].step = "renamed"]
    /\ UNCHANGED <<live, next_order, holder, answer, durable, acknowledged, boundVars>>

(* Mutant: the policy is in force once the file has its name.              *)
CommitUnsynced(c) ==
    /\ session[c].step = "renamed"
    /\ acknowledged' = file
    /\ attempted' = {}
    /\ live' = session[c].candidate
    /\ next_order' = NextOrder(session[c].change)
    /\ holder' = None
    /\ session' = [session EXCEPT ![c].step = "applied"]
    /\ UNCHANGED <<answer, file, durable, boundVars>>

(* The directory is synced; the callback returns true and the store's      *)
(* policy becomes the saved one.                                           *)
Commit(c) ==
    /\ session[c].step = "renamed"
    /\ durable' = file
    /\ acknowledged' = file
    /\ attempted' = {}
    /\ live' = session[c].candidate
    /\ next_order' = NextOrder(session[c].change)
    /\ holder' = None
    /\ session' = [session EXCEPT ![c].step = "applied"]
    /\ UNCHANGED <<answer, file, boundVars>>

(* The directory cannot be opened or synced: the callback returns false,   *)
(* and the file keeps the new policy.                                      *)
FailToSync(c) ==
    /\ session[c].step = "renamed"
    /\ sync_errors < MaximumSyncErrors
    /\ sync_errors' = sync_errors + 1
    /\ Fail(c)
    /\ UNCHANGED <<diskVars, write_errors, stops>>

(* The answer carries the policy, read under the mutex once more.          *)
Reply(c) ==
    /\ session[c].step = "applied"
    /\ holder = None
    /\ answer' = [answer EXCEPT ![c] = "status"]
    /\ session' = [session EXCEPT ![c] = IdleSession]
    /\ UNCHANGED <<live, next_order, holder, diskVars, boundVars>>

-----------------------------------------------------------------------------
(* Mutant: an application is forgotten with its last connection.           *)
Forget(a) ==
    /\ Running
    /\ holder = None
    /\ live' = IF a \in Known
               THEN [live EXCEPT !.applications[a] = None]
               ELSE [live EXCEPT !.applications[a] =
                        [approved |-> ~live.require_approval, visible |-> TRUE,
                         order |-> next_order]]
    /\ next_order' = IF a \in Known THEN next_order ELSE next_policy_order(next_order)
    /\ UNCHANGED <<holder, session, answer, diskVars, boundVars>>

(* A provider of an application never seen registers; nothing is saved.    *)
Register(a) ==
    /\ Running
    /\ holder = None
    /\ a \notin Known
    /\ live' = [live EXCEPT !.applications[a] =
           [approved |-> ~live.require_approval, visible |-> TRUE, order |-> next_order]]
    /\ next_order' = next_policy_order(next_order)
    /\ UNCHANGED <<holder, session, answer, diskVars, boundVars>>

-----------------------------------------------------------------------------
(* Stopping and starting.                                                  *)

Down ==
    /\ live' = None
    /\ next_order' = 0
    /\ holder' = None
    /\ session' = [c \in Controllers |-> IdleSession]
    /\ answer' = [c \in Controllers |-> "none"]
    /\ stops' = stops + 1
    /\ UNCHANGED <<acknowledged, attempted, write_errors, sync_errors>>

Kill ==
    /\ Running
    /\ stops < MaximumStops
    /\ Down
    /\ UNCHANGED <<file, durable>>

PowerLoss ==
    /\ stops < MaximumStops
    /\ Down
    /\ file' \in {file, durable}
    /\ durable' = file'

DefaultPolicy ==
    [enabled |-> TRUE, require_approval |-> FALSE,
     applications |-> [a \in Applications |-> None]]

(* load_policy_file: no file is the default policy.                        *)
Loadable(saved) ==
    saved # None => Cardinality(Present(saved.applications)) <= MaximumPolicyApplications
Loaded(saved) == IF saved = None THEN DefaultPolicy ELSE saved

(* main adds the application of the test program when there is room.       *)
WithTestApplication(policy) ==
    LET size == Cardinality(Present(policy.applications))
    IN  IF TestApplication \in Present(policy.applications)
           \/ size >= MaximumPolicyApplications
        THEN policy
        ELSE [policy EXCEPT !.applications[TestApplication] =
                 [approved |-> TRUE, visible |-> TRUE, order |-> size]]

(* A file that cannot be loaded ends the process (exit status 78).         *)
Start ==
    /\ ~Running
    /\ Loadable(file)
    /\ live' = WithTestApplication(Loaded(file))
    /\ next_order' = LoadedOrder(live'.applications)
    /\ UNCHANGED <<holder, session, answer, diskVars, boundVars>>

Init ==
    /\ live = None
    /\ next_order = 0
    /\ holder = None
    /\ session = [c \in Controllers |-> IdleSession]
    /\ answer = [c \in Controllers |-> "none"]
    /\ file = None /\ durable = None
    /\ write_errors = 0 /\ sync_errors = 0 /\ stops = 0
    /\ acknowledged = None
    /\ attempted = {}

Serve(c) ==
    \/ \E change \in Changes : Request(c, change)
    \/ Set(c)
    \/ WriteTemporary(c)
    \/ FailToWrite(c)
    \/ Rename(c)
    \/ Commit(c)
    \/ FailToSync(c)
    \/ Reply(c)

Next ==
    \/ \E c \in Controllers : Serve(c)
    \/ \E a \in Applications : Register(a)
    \/ Kill
    \/ PowerLoss
    \/ Start

Spec == Init /\ [][Next]_vars

-----------------------------------------------------------------------------
(* Properties.                                                             *)

Steps == {"idle", "checked", "saving", "written", "renamed", "applied"}
Saving == {"saving", "written", "renamed"}

Sessions ==
    [step : Steps, change : Changes \cup {None}, candidate : OverlayPolicies \cup {None}]

(* Every variable keeps its type.                                          *)
TypeOK ==
    /\ live \in OverlayPolicies \cup {None}
    /\ next_order \in 0..MaximumOrder
    /\ holder \in Controllers \cup {None}
    /\ session \in [Controllers -> Sessions]
    /\ answer \in [Controllers -> {"none", "status", "refused", "operation_failed"}]
    /\ {file, durable, acknowledged} \cup attempted \subseteq OverlayPolicies \cup {None}
    /\ {write_errors, sync_errors, stops} \subseteq Nat

(* Two policies agree on all the user decided when the saved one was       *)
(* written: what was registered since is in the live one alone.            *)
AgreesWithLive(saved) ==
    LET policy == Loaded(saved)
    IN  /\ live.enabled = policy.enabled
        /\ live.require_approval = policy.require_approval
        /\ \A a \in Present(policy.applications) :
               live.applications[a] = policy.applications[a]

(* Whenever no change is being saved, a broker that restarts finds the     *)
(* policy in force: no order of two controllers' requests, registrations,  *)
(* disk errors before the rename, kills and power losses makes the live    *)
(* policy and the file differ.  Once the directory could not be synced     *)
(* this is certain again after the next change that succeeds.              *)
RestartKeepsSettings ==
    (Running /\ holder = None /\ (sync_errors = 0 \/ attempted = {}))
        => AgreesWithLive(file)

(* What a power loss brings back is the file of the last change that       *)
(* succeeded or one that a later change put in place: never an older one.  *)
PowerLossKeepsAcknowledged ==
    {file, durable} \subseteq {acknowledged} \cup attempted

(* What the step a controller's session is at says of everything else.     *)
Consistent(c) ==
    LET step == session[c].step
        change == session[c].change
        candidate == session[c].candidate
    IN  /\ step # "idle" => Running /\ change \in Changes /\ Applicable(change)
        /\ step \in Saving <=> holder = c
        /\ step \in Saving =>
               /\ candidate \in OverlayPolicies
               /\ Present(candidate.applications) = Known
        /\ step = "renamed" => file = candidate /\ file \in attempted

SessionsConsistent == \A c \in Controllers : Consistent(c)

(* RestartKeepsSettings, for the steps that hold the mutex as well.        *)
FileFollowsLive ==
    (/\ Running
     /\ sync_errors = 0 \/ attempted = {}
     /\ \A c \in Controllers : session[c].step # "renamed")
        => AgreesWithLive(file)

(* A controller is told that the policy could not be saved only when the   *)
(* disk failed or the policy is too large: between the check that finds    *)
(* the application and the operation that needs it, it never vanishes.     *)
OnlyDiskFails ==
    (\E c \in Controllers : answer[c] = "operation_failed") =>
        \/ write_errors + sync_errors > 0
        \/ Running /\ Cardinality(Known) > MaximumSavedApplications

(* controller_session.cpp:166 "The policy could not be saved": after that  *)
(* answer, and with no change under way, a restart does not load it.       *)
RefusedIsNotSaved ==
    (Running /\ holder = None /\ \E c \in Controllers : answer[c] = "operation_failed")
        => AgreesWithLive(file)

(* broker/tests/controller_process_test.py:86: a restart restores the     *)
(* policy that was saved.  The broker can start from what it wrote.        *)
RestartRestoresPolicy == Loadable(file)

=============================================================================
