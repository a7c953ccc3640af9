---------------------------- MODULE ProfileSync ----------------------------
(***************************************************************************)
(* The link of one merchant to its FBR merchant and the copy of its Google  *)
(* Business Profiles: api/app/merchant_profiles.py, with the loop of        *)
(* api/app/scheduler.py that keeps the copy fresh.                          *)
(*                                                                         *)
(* A sync claims the link row, asks FBR for the locations and their         *)
(* profiles outside any transaction, and replaces the copy if its claim     *)
(* still stands: the row was not written since, and neither the binding nor *)
(* the merchant's lifecycle has moved.  A claim that is fifteen minutes old *)
(* may be taken over.  Meanwhile operators link, relink, archive and        *)
(* restore.                                                                 *)
(*                                                                         *)
(* What else a process does between two syncs is PerformanceSync's: a loop  *)
(* takes its turns in the order stage gives them.  A deployment starts a    *)
(* new process while the old one still finishes its turn.                   *)
(***************************************************************************)
EXTENDS Integers, FiniteSets, Sequences

CONSTANTS
    Loops,           \* processes that run fbr_scheduler_loop
    Clients,         \* HTTP requests in progress
    Fbrs,            \* FBR merchant ids
    OwnedElsewhere,  \* those bound to other merchants
    Locations,       \* GBP location ids
    Answers,         \* location lists FBR can answer with
    Commands,        \* request ids of relink commands
    MaxBindings,     \* bound: binding events of the merchant
    MaxGeneration,   \* bound: lifecycle events of the merchant
    MaxVersion,      \* bound: states of FBR's data that are told apart
    MaxIncidents     \* bound: crashes, deployments, hours, operators' steps, changes and errors of FBR

Processes == Loops \cup Clients

\* A row of merchant_gbp_profiles: with a place id, or without one.
Contents == [Locations -> {"absent", "placed", "unplaced"}]
Empty    == [l \in Locations |-> "absent"]
Listed(c) == {l \in Locations : c[l] # "absent"}

ASSUME ProcessesAssumption == Loops # {} /\ Loops \cap Clients = {}
ASSUME FbrAssumption == OwnedElsewhere \subseteq Fbrs /\ Answers \subseteq Contents
ASSUME ProfileBounds ==
    /\ MaxBindings \in Nat \ {0} /\ MaxGeneration \in Nat \ {0} /\ MaxVersion \in Nat \ {0}
    /\ MaxIncidents \in Nat

VARIABLES
    active,      \* merchants.status = 'active'
    generation,  \* generation of the newest merchant_status_events row
    binding,     \* merchant_fbr_binding_events: the FBR ids in turn, the last one current
    link,        \* merchant_fbr_link_state
    known,       \* processes whose remembered updated_at is still that of the link row
    profiles,    \* merchant_gbp_profiles
    version,     \* state of FBR's data
    command,     \* operator_command_ledger
    sync,        \* sync_gbp_profile_once in each process
    stage,       \* what each loop does in this turn
    current,     \* the loop of the last deployment
    incidents    \* how many of those that MaxIncidents bounds have happened

linkVars    == <<active, generation, binding, link, known, profiles, command>>
profileVars == <<active, generation, binding, link, known, profiles, version, command, sync,
                 stage, current, incidents>>

-----------------------------------------------------------------------------
(* Rows.                                                                    *)

\* overdue: the interval or lease that gbp_sync_due compares with has passed.
LinkRow == [status : {"absent", "not_synced", "syncing", "synced", "failed"}, overdue : BOOLEAN]
NoLink  == [status |-> "absent", overdue |-> FALSE]

\* for is the binding whose FBR id the rows carry, at the state of FBR's data they copy.
ProfileRows == [for : 0..MaxBindings, version : 0..MaxVersion, rows : Contents]
NoProfiles  == [for |-> 0, version |-> 0, rows |-> Empty]

\* GbpSyncClaim, and what the process has read since.
SyncState == [at : {"idle", "claiming", "reading", "storing", "failing"},
              binding : 0..MaxBindings, generation : 0..MaxGeneration,
              version : 0..MaxVersion, rows : Contents]
NoSync == [at |-> "idle", binding |-> 0, generation |-> 0, version |-> 0, rows |-> Empty]

Incident == incidents < MaxIncidents /\ incidents' = incidents + 1

\* What a client asks for is an operator's step.
Asked(p) == IF p \in Clients THEN Incident ELSE UNCHANGED incidents

Due == link.status = "not_synced" \/ link.overdue

\* A write of the link row gives it a new updated_at, which only the writer may know.
Writes(status, who) ==
    /\ link' = [status |-> status, overdue |-> FALSE]
    /\ known' = who

-----------------------------------------------------------------------------
(* Operators.                                                               *)

\* Work on the merchant outside this module is an input, busy.
MayBeClosed(busy) == link.status # "syncing" /\ ~busy

Archive(busy) ==
    /\ active /\ MayBeClosed(busy) /\ generation < MaxGeneration
    /\ active' = FALSE /\ generation' = generation + 1
    /\ Incident
    /\ UNCHANGED <<binding, link, known, profiles, version, command, sync, stage, current>>

Restore ==
    /\ ~active /\ generation < MaxGeneration
    /\ active' = TRUE /\ generation' = generation + 1
    /\ UNCHANGED <<binding, link, known, profiles, version, command, sync, stage, current, incidents>>

PutLink(f) ==
    /\ active /\ link.status = "absent" /\ f \notin OwnedElsewhere
    /\ binding' = <<f>>
    /\ Writes("not_synced", {})
    /\ profiles' = NoProfiles
    /\ UNCHANGED <<active, generation, version, command, sync, stage, current, incidents>>

\* Relinking to f; seen is the binding of the page the operator relinks from.
Relinkable(f, seen, busy) ==
    /\ active /\ MayBeClosed(busy)
    /\ binding # <<>> /\ seen = Len(binding)
    /\ f # binding[Len(binding)] /\ f \notin OwnedElsewhere

\* A command is decided once; its replay answers from the ledger.
Relink(c, f, seen, busy) ==
    /\ command[c] = "new"
    /\ seen <= Len(binding) /\ Len(binding) < MaxBindings
    /\ \/ /\ Relinkable(f, seen, busy)
          /\ command' = [command EXCEPT ![c] = "accepted"]
          /\ binding' = Append(binding, f)
          /\ Writes("not_synced", {})
          /\ profiles' = NoProfiles
       \/ /\ ~Relinkable(f, seen, busy)
          /\ command' = [command EXCEPT ![c] = "rejected"]
          /\ UNCHANGED <<binding, link, known, profiles>>
    /\ Incident
    /\ UNCHANGED <<active, generation, version, sync, stage, current>>

-----------------------------------------------------------------------------
(* A sync.                                                                  *)

Becomes(p, s) == sync' = [sync EXCEPT ![p] = s]

\* A loop syncs its merchants, plans and processes the performance jobs, and begins
\* anew, unless a later deployment has replaced it.
NextTurn(p, s) ==
    stage' = IF p \notin Loops THEN stage
             ELSE [stage EXCEPT ![p] = IF s = "sync" /\ p # current THEN "off" ELSE s]

Ends(p) == Becomes(p, NoSync) /\ NextTurn(p, "plan")

\* A loop syncs what is due, a request forces it; neither touches a live lease.
Wanted(p) == link.status # "absent" /\ (Due \/ (p \in Clients /\ link.status # "syncing"))

Claim(p) ==
    /\ sync[p].at = "idle" /\ (p \in Loops => stage[p] = "sync")
    /\ active /\ Wanted(p)
    /\ Becomes(p, [NoSync EXCEPT !.at = "claiming", !.binding = Len(binding), !.generation = generation])
    /\ known' = known \cup {p}
    /\ Asked(p)
    /\ UNCHANGED <<active, generation, binding, link, profiles, version, command, stage, current>>

NothingDue(p) ==
    /\ p \in Loops /\ stage[p] = "sync" /\ sync[p].at = "idle"
    /\ ~(active /\ Wanted(p))
    /\ NextTurn(p, "plan")
    /\ UNCHANGED <<linkVars, version, sync, current, incidents>>

\* What a claim and every later write of the sync require.
Stands(p) ==
    /\ p \in known
    /\ sync[p].binding = Len(binding)
    /\ active /\ sync[p].generation = generation

\* Variant: a sync is fenced by the binding and the lifecycle it was made for alone.
FencedByBinding(p) == sync[p].binding = Len(binding) /\ active /\ sync[p].generation = generation

Fenced(p) == link.status = "syncing" /\ Stands(p)

CompareAndSet(p) ==
    /\ sync[p].at = "claiming"
    /\ IF Stands(p)
         THEN /\ Writes("syncing", {p})
              /\ Becomes(p, [sync[p] EXCEPT !.at = "reading"])
              /\ UNCHANGED stage
         ELSE /\ Ends(p)
              /\ known' = known \ {p}
              /\ UNCHANGED link
    /\ UNCHANGED <<active, generation, binding, profiles, version, command, current, incidents>>

\* A list that lacks a location of the copy is an error, and keeps the copy.
Complete(answer) == Listed(profiles.rows) \subseteq Listed(answer)

\* A location that the list gives no place id keeps the one of its copy.
Merged(answer) ==
    [l \in Locations |-> IF answer[l] = "unplaced" /\ profiles.rows[l] = "placed" THEN "placed" ELSE answer[l]]

\* The list, and each location's profile, a request each.
Read(p, answer) ==
    /\ sync[p].at = "reading"
    /\ Becomes(p, IF Complete(answer)
                    THEN [sync[p] EXCEPT !.at = "storing", !.version = version, !.rows = Merged(answer)]
                    ELSE [sync[p] EXCEPT !.at = "failing"])
    /\ UNCHANGED <<linkVars, version, stage, current, incidents>>

FbrFails(p) ==
    /\ sync[p].at = "reading"
    /\ Becomes(p, [sync[p] EXCEPT !.at = "failing"])
    /\ Incident
    /\ UNCHANGED <<linkVars, version, stage, current>>

Store(p) ==
    /\ sync[p].at = "storing"
    /\ IF Fenced(p)
         THEN /\ profiles' = [for |-> sync[p].binding, version |-> sync[p].version, rows |-> sync[p].rows]
              /\ Writes("synced", {})
         ELSE /\ known' = known \ {p}
              /\ UNCHANGED <<profiles, link>>
    /\ Ends(p)
    /\ UNCHANGED <<active, generation, binding, version, command, current, incidents>>

Fail(p) ==
    /\ sync[p].at = "failing"
    /\ IF Fenced(p)
         THEN Writes("failed", {})
         ELSE known' = known \ {p} /\ UNCHANGED link
    /\ Ends(p)
    /\ UNCHANGED <<active, generation, binding, profiles, version, command, current, incidents>>

-----------------------------------------------------------------------------
(* Surroundings.                                                            *)

\* Fifteen minutes after a claim.
LeaseExpires ==
    /\ link.status = "syncing" /\ ~link.overdue
    /\ link' = [link EXCEPT !.overdue = TRUE]
    /\ UNCHANGED <<active, generation, binding, known, profiles, version, command, sync, stage, current, incidents>>

\* An hour after a sync.
HourPasses ==
    /\ link.status \in {"synced", "failed"} /\ ~link.overdue
    /\ link' = [link EXCEPT !.overdue = TRUE]
    /\ Incident
    /\ UNCHANGED <<active, generation, binding, known, profiles, version, command, sync, stage, current>>

Deploy(w) ==
    /\ stage[w] = "off"
    /\ current' = w /\ stage' = [stage EXCEPT ![w] = "sync"]
    /\ Incident
    /\ UNCHANGED <<linkVars, version, sync>>

FbrChanges ==
    /\ version < MaxVersion
    /\ version' = version + 1
    /\ Incident
    /\ UNCHANGED <<linkVars, sync, stage, current>>

ProfileInit ==
    /\ active = TRUE /\ generation = 1
    /\ binding = <<>> /\ link = NoLink /\ known = {}
    /\ profiles = NoProfiles /\ version = 1
    /\ command = [c \in Commands |-> "new"]
    /\ sync = [p \in Processes |-> NoSync]
    /\ current = CHOOSE w \in Loops : TRUE
    /\ stage = [w \in Loops |-> IF w = current THEN "sync" ELSE "off"]
    /\ incidents = 0

OperatorStep ==
    \/ \E busy \in BOOLEAN : Archive(busy)
    \/ Restore
    \/ \E f \in Fbrs : PutLink(f)
    \/ \E c \in Commands, f \in Fbrs, seen \in 1..MaxBindings, busy \in BOOLEAN : Relink(c, f, seen, busy)

SyncStep(p) ==
    Claim(p) \/ NothingDue(p) \/ CompareAndSet(p)
    \/ (\E answer \in Answers : Read(p, answer)) \/ FbrFails(p) \/ Store(p) \/ Fail(p)

ProfileNext == OperatorStep \/ (\E p \in Processes : SyncStep(p)) \/ LeaseExpires \/ HourPasses \/ FbrChanges \/ (\E w \in Loops : Deploy(w))
=============================================================================
