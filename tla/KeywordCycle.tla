---------------------------- MODULE KeywordCycle ----------------------------
(***************************************************************************)
(* The keyword versions of one merchant: the first half of                  *)
(* api/app/seo_targets.py.                                                  *)
(*                                                                         *)
(* An operator imports the keywords FBR holds (refresh) or has a Core AI    *)
(* Agent generate a scored set (regenerate).  Each claims a KEYWORD_SET     *)
(* artifact, talks to the network outside any transaction, and records the  *)
(* answer if the claim still stands.  The scheduler gives up claims that    *)
(* nobody answered, reads the results back, and makes a verified result the *)
(* active version of its place, unless another became active meanwhile.     *)
(* A cycle that an earlier release started goes on to an audit and a        *)
(* ranking report.                                                          *)
(*                                                                         *)
(* The paid scans that hang on the active version are FalconScan's: the     *)
(* actions here that must not overlap with one take the parameter free.     *)
(***************************************************************************)
EXTENDS Integers, FiniteSets

CONSTANTS
    Places,          \* Google place ids
    NoPlace,         \* no unambiguous GBP location is selected
    NumKeywords,     \* local keywords of a set, by position
    Limit,           \* LOCAL_FALCON_KEYWORD_LIMIT
    Payloads,        \* keyword sets that FBR or the Agent can answer with
    NoPayload,       \* payload_json IS NULL
    Malformed,       \* an answer that does not parse
    MaxArtifacts,    \* bound: rows of merchant_seo_artifacts
    MaxRuns,         \* bound: provider runs
    MaxGeneration,   \* bound: lifecycle events of the merchant
    MaxMoves,        \* bound: changes of the selected location
    MaxCrashes       \* bound: process restarts

Positions == 1..NumKeywords
Artifacts == 1..MaxArtifacts
Runs      == 1..MaxRuns

\* score is the local keywords' scores, -1 for NULL; rest says whether every
\* other keyword of the set has a numeric score.
KeywordSet == [score : [Positions -> Int], rest : BOOLEAN]

ASSUME PlacesAssumption == Places # {} /\ NoPlace \notin Places
ASSUME PayloadsAssumption ==
    /\ NumKeywords \in Nat \ {0} /\ Limit \in Nat \ {0}
    /\ Payloads \subseteq KeywordSet
    /\ NoPayload \notin Payloads /\ Malformed \notin Payloads
ASSUME CycleBounds ==
    /\ MaxArtifacts \in Nat \ {0} /\ MaxRuns \in Nat \ {0}
    /\ MaxGeneration \in Nat \ {0} /\ MaxMoves \in Nat /\ MaxCrashes \in Nat

VARIABLES
    active,        \* merchants.status = 'active'
    generation,    \* generation of the newest merchant_status_events row
    place,         \* Place ID of the selected GBP location
    moves,         \* how often the selected location changed
    artifact,      \* merchant_seo_artifacts
    head,          \* merchant_keyword_heads
    request,       \* the refresh or regenerate request that holds a claim
    run,           \* Core AI's runs
    poll,          \* poll_seo_targets_once
    crashes

cycleVars == <<active, generation, place, moves, artifact, head, request, run, poll, crashes>>

-----------------------------------------------------------------------------
(* Rows.                                                                    *)

Kinds == {"KEYWORD_SET", "AUDIT_REPORT", "RANKING_REPORT"}

\* by is the generation method; expects the version that was active when a
\* regeneration was claimed, 0 for none; proven a VERIFIED provenance_json;
\* waits abstracts verification_started_at, compared with 30 seconds, and age
\* dispatch_started_at, compared with 10 minutes.
Row == [kind     : Kinds \cup {"absent"},
        status   : {"running", "ready", "failed"},
        by       : {"FBR", "SKILL", "LEGACY"},
        dispatch : {"none", "pending", "dispatching", "dispatched", "unknown", "not_required"},
        run      : 0..MaxRuns,
        place    : Places \cup {NoPlace},
        expects  : 0..MaxArtifacts,
        cycle    : Artifacts,
        payload  : Payloads \cup {NoPayload},
        proven   : BOOLEAN,
        waits    : {"no", "started", "over"},
        age      : {"fresh", "stale"}]

NoRow(a) == [kind |-> "absent", status |-> "failed", by |-> "LEGACY", dispatch |-> "none",
             run |-> 0, place |-> NoPlace, expects |-> 0, cycle |-> a, payload |-> NoPayload,
             proven |-> FALSE, waits |-> "no", age |-> "fresh"]

HeadRow == [row    : BOOLEAN,
            active : 0..MaxArtifacts,
            reason : {"NONE", "SYSTEM_BOOTSTRAP", "SKILL_GENERATION", "RESTORE_SKILL", "ADOPT_FBR"}]

NoHead == [row |-> FALSE, active |-> 0, reason |-> "NONE"]

RequestState == [at : {"none", "claimed", "marked", "uncertain", "answered"}, run : 0..MaxRuns]
NoRequest == [at |-> "none", run |-> 0]

\* What Core AI shows of a run.  The trace of a completed run can be read some
\* time after its result, and shows the two Skills loaded once each, in order, or not.
RunRow == [kind : Kinds \cup {"absent"}, state : {"RUNNING", "COMPLETED", "FAILED"},
           output : Payloads \cup {Malformed}, trace : {"pending", "good", "bad"}]
NoRun == [kind |-> "absent", state |-> "RUNNING", output |-> Malformed, trace |-> "pending"]

PollState == [row : 0..MaxArtifacts, verdict : {"none", "failed", "wait", "ready"}]
IdlePoll == [row |-> 0, verdict |-> "none"]

CycleTypeOK ==
    /\ active \in BOOLEAN
    /\ generation \in 1..MaxGeneration
    /\ place \in Places \cup {NoPlace}
    /\ moves \in 0..MaxMoves
    /\ artifact \in [Artifacts -> Row]
    /\ head \in [Places -> HeadRow]
    /\ request \in [Artifacts -> RequestState]
    /\ run \in [Runs -> RunRow]
    /\ poll \in PollState
    /\ crashes \in 0..MaxCrashes

-----------------------------------------------------------------------------
(* A keyword set: ranks, the cohort, and what makes it trustworthy.  An     *)
(* operator whose comment begins with "Variant" is a mistake the next       *)
(* definition could have made, kept to show which property would notice it. *)

Numeric(s) == s \in 0..200

EveryLocalScored(p) == \A i \in Positions : Numeric(p.score[i])
EveryKeywordScored(p) == EveryLocalScored(p) /\ p.rest

\* _rank_keyword_scores: by descending score, equal scores by position.
Rank(p, i) ==
    Cardinality({j \in Positions : p.score[j] > p.score[i]
                                   \/ (p.score[j] = p.score[i] /\ j <= i)})

\* _local_falcon_cohort: nothing is selected unless every local keyword has a score.
Cohort(p) == IF EveryLocalScored(p) THEN {i \in Positions : Rank(p, i) <= Limit} ELSE {}

IsReadySet(a) == artifact[a].kind = "KEYWORD_SET" /\ artifact[a].status = "ready"

Eligible(row) ==
    \/ row.by = "FBR" /\ EveryLocalScored(row.payload)
    \/ row.by = "SKILL" /\ row.proven /\ EveryKeywordScored(row.payload)

\* _trusted_keyword_artifact_source, from the row and never from the payload alone.
TrustedSource(row) ==
    IF row.by = "FBR" THEN "FBR"
    ELSE IF row.by = "SKILL" /\ Eligible(row) THEN "SKILL" ELSE "LEGACY"

ReasonsFor(source) ==
    CASE source = "FBR"   -> {"ADOPT_FBR", "SYSTEM_BOOTSTRAP"}
      [] source = "SKILL" -> {"SKILL_GENERATION", "RESTORE_SKILL", "SYSTEM_BOOTSTRAP"}
      [] OTHER            -> {}

-----------------------------------------------------------------------------
(* The head of a place: its active version.                                 *)

\* Variant: a version of another place will do.
AnyPlaceCandidates(p, source) ==
    {a \in Artifacts : IsReadySet(a) /\ TrustedSource(artifact[a]) = source}

\* _ready_keyword_artifact_candidates.
Candidates(p, source) ==
    {a \in Artifacts : IsReadySet(a) /\ artifact[a].place = p /\ TrustedSource(artifact[a]) = source}
Newest(S) == IF S = {} THEN 0 ELSE CHOOSE a \in S : \A b \in S : b <= a
Bootstrap(p) ==
    IF Candidates(p, "SKILL") # {} THEN Newest(Candidates(p, "SKILL")) ELSE Newest(Candidates(p, "FBR"))

\* _ensure_keyword_head.
Ensured(p) ==
    IF head[p].row THEN head
    ELSE [head EXCEPT ![p] =
            [row |-> TRUE, active |-> Bootstrap(p),
             reason |-> IF Bootstrap(p) = 0 THEN "NONE" ELSE "SYSTEM_BOOTSTRAP"]]

\* _move_keyword_head: compare and set.
Moved(p, a, expected, reason) ==
    IF head[p].row /\ head[p].active = expected
      THEN [head EXCEPT ![p] = [row |-> TRUE, active |-> a, reason |-> reason]]
      ELSE head

\* _active_ready_keyword_artifact answers 409 when this is false.
HeadValid(p) ==
    LET h == head[p] IN
    h.active = 0 \/ /\ IsReadySet(h.active)
                    /\ artifact[h.active].place = p
                    /\ h.reason \in ReasonsFor(TrustedSource(artifact[h.active]))

Unused    == {a \in Artifacts : artifact[a].kind = "absent"}
NewRuns   == {r \in Runs : run[r].kind = "absent"}
First(S)  == CHOOSE a \in S : \A b \in S : a <= b
Running   == {a \in Artifacts : artifact[a].kind # "absent" /\ artifact[a].status = "running"}
RunningKeywords == {a \in Running : artifact[a].kind = "KEYWORD_SET"}

-----------------------------------------------------------------------------
(* The world: the selected location, time, Core AI, and the process.        *)

\* A profile sync or an edit changes the location that stands for the merchant.
PlaceChanges(p) ==
    /\ p # place /\ moves < MaxMoves
    /\ place' = p /\ moves' = moves + 1
    /\ UNCHANGED <<active, generation, artifact, head, request, run, poll, crashes>>

Archive(free) ==
    /\ active /\ free /\ Running = {}
    /\ generation < MaxGeneration
    /\ active' = FALSE /\ generation' = generation + 1
    /\ UNCHANGED <<place, moves, artifact, head, request, run, poll, crashes>>

Restore ==
    /\ ~active /\ generation < MaxGeneration
    /\ active' = TRUE /\ generation' = generation + 1
    /\ UNCHANGED <<place, moves, artifact, head, request, run, poll, crashes>>

Undispatched(a) ==
    /\ a \in RunningKeywords /\ artifact[a].run = 0
    /\ artifact[a].dispatch \in {"pending", "dispatching"}

DispatchAges(a) ==
    /\ Undispatched(a) /\ artifact[a].age = "fresh"
    /\ artifact' = [artifact EXCEPT ![a].age = "stale"]
    /\ UNCHANGED <<active, generation, place, moves, head, request, run, poll, crashes>>

WaitEnds(a) ==
    /\ a \in Running /\ artifact[a].waits = "started"
    /\ artifact' = [artifact EXCEPT ![a].waits = "over"]
    /\ UNCHANGED <<active, generation, place, moves, head, request, run, poll, crashes>>

\* Nobody asks about a run that no row and no request names, so it need not end.
Named(r) == (\E a \in Running : artifact[a].run = r) \/ (\E a \in Artifacts : request[a].run = r)

\* What a report says is all the same.
Outputs(kind) == IF kind = "KEYWORD_SET" THEN Payloads ELSE {CHOOSE p \in Payloads : TRUE}

RunEnds(r, state, output) ==
    /\ Named(r) /\ run[r].state = "RUNNING"
    /\ output \in Outputs(run[r].kind) \cup {Malformed}
    /\ state = "FAILED" => output = Malformed
    /\ run' = [run EXCEPT ![r].state = state, ![r].output = output]
    /\ UNCHANGED <<active, generation, place, moves, artifact, head, request, poll, crashes>>

TraceSettles(r, verdict) ==
    /\ Named(r) /\ run[r].kind = "KEYWORD_SET" /\ run[r].state = "COMPLETED" /\ run[r].trace = "pending"
    /\ run' = [run EXCEPT ![r].trace = verdict]
    /\ UNCHANGED <<active, generation, place, moves, artifact, head, request, poll, crashes>>

\* The requests and the poller are gone; FalconScan's workers go with them.
CrashCycle ==
    /\ crashes < MaxCrashes /\ crashes' = crashes + 1
    /\ request' = [a \in Artifacts |-> NoRequest]
    /\ poll' = IdlePoll
    /\ UNCHANGED <<active, generation, place, moves, artifact, head, run>>

-----------------------------------------------------------------------------
(* Claiming a cycle, and the import from FBR.                               *)

\* get_seo_targets: _state creates the head of the current place.
ReadState ==
    /\ place # NoPlace /\ ~head[place].row
    /\ head' = Ensured(place)
    /\ UNCHANGED <<active, generation, place, moves, artifact, request, run, poll, crashes>>

\* _claim_keyword_cycle.
Claim(by, free) ==
    /\ active /\ free /\ Running = {} /\ place # NoPlace /\ Unused # {}
    /\ head' = Ensured(place)
    /\ LET a == First(Unused) IN
        /\ artifact' = [artifact EXCEPT ![a] =
             [NoRow(a) EXCEPT !.kind = "KEYWORD_SET", !.status = "running", !.by = by,
                              !.dispatch = "pending", !.place = place,
                              !.expects = IF by = "SKILL" THEN head'[place].active ELSE 0]]
        /\ request' = [request EXCEPT ![a].at = "claimed"]
    /\ UNCHANGED <<active, generation, place, moves, run, poll, crashes>>

\* Once a row has ended, how old its timestamps are is never asked again.
Ended(row, status) == [row EXCEPT !.status = status, !.waits = "no", !.age = "fresh"]

\* What every later step of the request writes is conditional on the claim.
EndRequest(a) == request' = [request EXCEPT ![a] = NoRequest]

\* _persist_fbr_keyword_set, once the answer of FBR is parsed and ranked.
PersistFbr(a, p) ==
    /\ request[a].at = "claimed" /\ artifact[a].by = "FBR"
    /\ EndRequest(a)
    /\ artifact' = IF artifact[a].status = "running"
                     THEN [artifact EXCEPT ![a] = [Ended(@, "ready") EXCEPT
                              !.payload = p, !.dispatch = "not_required"]]
                     ELSE artifact
    /\ UNCHANGED <<active, generation, place, moves, head, run, poll, crashes>>

\* _fail_keyword_claim: FBR, or the Agent and its two Skills, cannot be read or
\* are not configured as they should be.
FailClaim(a) ==
    /\ request[a].at = "claimed"
    /\ EndRequest(a)
    /\ artifact' = IF artifact[a].status = "running"
                     THEN [artifact EXCEPT ![a] = Ended(@, "failed")] ELSE artifact
    /\ UNCHANGED <<active, generation, place, moves, head, run, poll, crashes>>

-----------------------------------------------------------------------------
(* _start_keyword_skill_cycle.                                              *)

StillClaimed(a, dispatch) ==
    artifact[a].status = "running" /\ artifact[a].run = 0 /\ artifact[a].dispatch = dispatch

\* The request that is sent names the location selected now; the version to
\* replace is the one of the claim.
MarkDispatching(a) ==
    /\ request[a].at = "claimed" /\ artifact[a].by = "SKILL"
    /\ place # NoPlace /\ StillClaimed(a, "pending")
    /\ request' = [request EXCEPT ![a].at = "marked"]
    /\ artifact' = [artifact EXCEPT ![a].dispatch = "dispatching", ![a].place = place,
                                    ![a].age = "fresh"]
    /\ UNCHANGED <<active, generation, place, moves, head, run, poll, crashes>>

\* The claim is gone, or no location is selected: the request ends, and a claim
\* that still stands is left to the scheduler.
MarkRefused(a) ==
    /\ request[a].at = "claimed" /\ artifact[a].by = "SKILL"
    /\ place = NoPlace \/ ~StillClaimed(a, "pending")
    /\ EndRequest(a)
    /\ UNCHANGED <<active, generation, place, moves, artifact, head, run, poll, crashes>>

StartedRun(kind) ==
    [run EXCEPT ![First(NewRuns)] = [NoRun EXCEPT !.kind = kind]]

\* client.trigger: Core AI starts the run and answers; it starts the run and the
\* answer is lost; or it does not start one.
TriggerAnswered(a) ==
    /\ request[a].at = "marked" /\ NewRuns # {}
    /\ run' = StartedRun("KEYWORD_SET")
    /\ request' = [request EXCEPT ![a] = [at |-> "answered", run |-> First(NewRuns)]]
    /\ UNCHANGED <<active, generation, place, moves, artifact, head, poll, crashes>>

TriggerLost(a) ==
    /\ request[a].at = "marked" /\ NewRuns # {}
    /\ run' = StartedRun("KEYWORD_SET")
    /\ request' = [request EXCEPT ![a].at = "uncertain"]
    /\ UNCHANGED <<active, generation, place, moves, artifact, head, poll, crashes>>

TriggerRejected(a) ==
    /\ request[a].at = "marked"
    /\ request' = [request EXCEPT ![a].at = "uncertain"]
    /\ UNCHANGED <<active, generation, place, moves, artifact, head, run, poll, crashes>>

\* _fail_keyword_dispatch_unknown: an error never proves that no run was started.
FailDispatchUnknown(a) ==
    /\ request[a].at = "uncertain"
    /\ EndRequest(a)
    /\ artifact' = IF artifact[a].status = "running" /\ artifact[a].run = 0
                     THEN [artifact EXCEPT ![a] = [Ended(@, "failed") EXCEPT !.dispatch = "unknown"]]
                     ELSE artifact
    /\ UNCHANGED <<active, generation, place, moves, head, run, poll, crashes>>

RecordDispatched(a) ==
    /\ request[a].at = "answered"
    /\ EndRequest(a)
    /\ artifact' = IF StillClaimed(a, "dispatching")
                     THEN [artifact EXCEPT ![a].dispatch = "dispatched", ![a].run = request[a].run,
                                           ![a].age = "fresh"]
                     ELSE artifact
    /\ UNCHANGED <<active, generation, place, moves, head, run, poll, crashes>>

\* _mark_stale_keyword_dispatches_unknown, of every pass.
GiveUpStaleDispatch(a) ==
    /\ Undispatched(a) /\ artifact[a].age = "stale"
    /\ artifact' = [artifact EXCEPT ![a] = [Ended(@, "failed") EXCEPT !.dispatch = "unknown"]]
    /\ UNCHANGED <<active, generation, place, moves, head, request, run, poll, crashes>>

-----------------------------------------------------------------------------
(* activate_keyword_version: an operator restores or adopts a version.      *)

Activate(a, free) ==
    /\ active /\ free /\ place # NoPlace
    /\ IsReadySet(a) /\ artifact[a].place = place
    /\ artifact[a].by # "LEGACY" /\ TrustedSource(artifact[a]) = artifact[a].by
    /\ head' = [Ensured(place) EXCEPT ![place] =
                  [row |-> TRUE, active |-> a,
                   reason |-> IF artifact[a].by = "SKILL" THEN "RESTORE_SKILL" ELSE "ADOPT_FBR"]]
    /\ UNCHANGED <<active, generation, place, moves, artifact, request, run, poll, crashes>>

-----------------------------------------------------------------------------
(* poll_seo_targets_once.                                                   *)

\* What the pass makes of a row and of the answers about its run, including
\* _verify_keyword_skill_provenance for what the Skills generated.
Verdict(row, r) ==
    IF r.state = "FAILED" \/ r.output = Malformed THEN "failed"
    ELSE IF row.by # "SKILL" \/ row.kind # "KEYWORD_SET" THEN "ready"
    ELSE CASE r.trace = "pending" -> IF row.waits = "over" THEN "failed" ELSE "wait"
           [] r.trace = "bad"     -> "failed"
           [] OTHER               -> IF EveryKeywordScored(r.output) THEN "ready" ELSE "failed"

\* The row and the answers of Core AI, read outside any transaction.
PollReads(a) ==
    /\ poll = IdlePoll
    /\ a \in Running /\ artifact[a].run # 0
    /\ LET r == run[artifact[a].run] IN
        /\ r.state # "RUNNING"
        /\ poll' = [row |-> a, verdict |-> Verdict(artifact[a], r)]
    /\ UNCHANGED <<active, generation, place, moves, artifact, head, request, run, crashes>>

PollFails ==
    /\ poll.verdict = "failed"
    /\ poll' = IdlePoll
    /\ artifact' = [artifact EXCEPT ![poll.row] = Ended(@, "failed")]
    /\ UNCHANGED <<active, generation, place, moves, head, request, run, crashes>>

PollWaits ==
    /\ poll.verdict = "wait"
    /\ poll' = IdlePoll
    /\ artifact' = IF artifact[poll.row].waits = "no"
                     THEN [artifact EXCEPT ![poll.row].waits = "started"] ELSE artifact
    /\ UNCHANGED <<active, generation, place, moves, head, request, run, crashes>>

Readied(a) ==
    [artifact EXCEPT ![a] = [Ended(@, "ready") EXCEPT
        !.payload = IF artifact[a].kind = "KEYWORD_SET" THEN run[artifact[a].run].output ELSE NoPayload,
        !.proven = (artifact[a].by = "SKILL")]]

\* A verified regeneration is kept, and made active in the same transaction
\* unless another version became active since it was claimed.
PollActivates ==
    LET a == poll.row IN
    /\ poll.verdict = "ready" /\ artifact[a].by = "SKILL"
    /\ poll' = IdlePoll
    /\ IF artifact[a].status = "running"
         THEN /\ artifact' = Readied(a)
              /\ head' = Moved(artifact[a].place, a, artifact[a].expects, "SKILL_GENERATION")
         ELSE UNCHANGED <<artifact, head>>
    /\ UNCHANGED <<active, generation, place, moves, request, run, crashes>>

\* The last stage of an earlier release's cycle.
PollAcceptsRanking ==
    LET a == poll.row IN
    /\ poll.verdict = "ready" /\ artifact[a].kind = "RANKING_REPORT"
    /\ poll' = IdlePoll
    /\ artifact' = Readied(a)
    /\ UNCHANGED <<active, generation, place, moves, head, request, run, crashes>>

NextKind(kind) == IF kind = "KEYWORD_SET" THEN "AUDIT_REPORT" ELSE "RANKING_REPORT"

HasReadyKeywords(a) ==
    artifact[a].kind = "KEYWORD_SET"
    \/ \E b \in Artifacts : IsReadySet(b) /\ artifact[b].cycle = artifact[a].cycle

NeedsNextStage ==
    /\ poll.verdict = "ready" /\ artifact[poll.row].by = "LEGACY"
    /\ artifact[poll.row].kind # "RANKING_REPORT"

\* An audit without its keyword set ends the cycle.
PollMissesKeywords ==
    /\ NeedsNextStage /\ ~HasReadyKeywords(poll.row)
    /\ poll' = IdlePoll
    /\ artifact' = [Readied(poll.row) EXCEPT ![poll.row].status = "failed"]
    /\ UNCHANGED <<active, generation, place, moves, head, request, run, crashes>>

\* The trigger of the next stage is called with the transaction open: this row
\* and the next are committed together, or neither is.
NextStage(status, r) ==
    LET a == poll.row
        b == First(Unused) IN
    [Readied(a) EXCEPT ![b] =
        [NoRow(b) EXCEPT !.kind = NextKind(artifact[a].kind), !.status = status, !.run = r,
                         !.cycle = artifact[a].cycle, !.place = place]]

PollTriggersNext ==
    /\ NeedsNextStage /\ HasReadyKeywords(poll.row) /\ place # NoPlace
    /\ Unused # {} /\ NewRuns # {}
    /\ poll' = IdlePoll
    /\ artifact' = NextStage("running", First(NewRuns))
    /\ run' = StartedRun(NextKind(artifact[poll.row].kind))
    /\ UNCHANGED <<active, generation, place, moves, head, request, crashes>>

\* No Agent is configured, or the trigger fails, perhaps after it started a run.
PollCannotTrigger ==
    /\ NeedsNextStage /\ HasReadyKeywords(poll.row) /\ place # NoPlace /\ Unused # {}
    /\ poll' = IdlePoll
    /\ artifact' = NextStage("failed", 0)
    /\ run' \in {run} \cup {StartedRun(kind) :
                kind \in {k \in {NextKind(artifact[poll.row].kind)} : NewRuns # {}}}
    /\ UNCHANGED <<active, generation, place, moves, head, request, crashes>>

\* The process dies between the answer and the commit: Core AI has a run that no
\* row names, and the next pass asks for another.
PollDiesTriggering ==
    /\ NeedsNextStage /\ HasReadyKeywords(poll.row) /\ place # NoPlace /\ NewRuns # {}
    /\ crashes < MaxCrashes /\ crashes' = crashes + 1
    /\ poll' = IdlePoll
    /\ request' = [a \in Artifacts |-> NoRequest]
    /\ run' = StartedRun(NextKind(artifact[poll.row].kind))
    /\ UNCHANGED <<active, generation, place, moves, artifact, head>>

\* Without a selected location the next request cannot be built: the exception
\* ends the pass and takes the open transaction with it.
PollAborts ==
    /\ NeedsNextStage /\ HasReadyKeywords(poll.row) /\ place = NoPlace
    /\ poll' = IdlePoll
    /\ UNCHANGED <<active, generation, place, moves, artifact, head, request, run, crashes>>

-----------------------------------------------------------------------------
(* A merchant without keyword versions, one whose active version FBR or the *)
(* Skills made, or one whose cycle an earlier release left running.         *)

KeptSet(by, p, q) ==
    [NoRow(1) EXCEPT !.kind = "KEYWORD_SET", !.status = "ready", !.by = by, !.place = p,
                     !.payload = q, !.proven = (by = "SKILL"),
                     !.dispatch = IF by = "FBR" THEN "not_required" ELSE "dispatched"]

LeftRunning(kind, p) ==
    [NoRow(1) EXCEPT !.kind = kind, !.status = "running", !.run = 1, !.place = p]

Beginnings(p) ==
    {<<NoRow(1), NoRun>>}
    \cup {<<KeptSet("FBR", p, q), NoRun>> : q \in Payloads}
    \cup {<<KeptSet("SKILL", p, q), NoRun>> : q \in {x \in Payloads : EveryKeywordScored(x)}}
    \cup {<<LeftRunning(kind, p), [NoRun EXCEPT !.kind = kind]>> :
            kind \in {"KEYWORD_SET", "AUDIT_REPORT"}}

CycleInit ==
    /\ active = TRUE /\ generation = 1 /\ place \in Places /\ moves = 0
    /\ \E first \in Beginnings(place) :
         /\ artifact = [a \in Artifacts |-> IF a = 1 THEN first[1] ELSE NoRow(a)]
         /\ run = [r \in Runs |-> IF r = 1 THEN first[2] ELSE NoRun]
    /\ head = [p \in Places |-> NoHead]
    /\ request = [a \in Artifacts |-> NoRequest]
    /\ poll = IdlePoll /\ crashes = 0

\* Everything but the two ways to die.
CycleNext(free) ==
    \/ \E p \in Places \cup {NoPlace} : PlaceChanges(p)
    \/ Archive(free) \/ Restore \/ ReadState
    \/ \E by \in {"FBR", "SKILL"} : Claim(by, free)
    \/ \E a \in Artifacts :
         \/ DispatchAges(a) \/ WaitEnds(a) \/ GiveUpStaleDispatch(a)
         \/ \E p \in Payloads : PersistFbr(a, p)
         \/ FailClaim(a) \/ MarkDispatching(a) \/ MarkRefused(a)
         \/ TriggerAnswered(a) \/ TriggerLost(a) \/ TriggerRejected(a)
         \/ FailDispatchUnknown(a) \/ RecordDispatched(a)
         \/ Activate(a, free) \/ PollReads(a)
    \/ \E r \in Runs :
         \/ \E o \in Payloads \cup {Malformed} : RunEnds(r, "COMPLETED", o)
         \/ RunEnds(r, "FAILED", Malformed)
         \/ \E t \in {"good", "bad"} : TraceSettles(r, t)
    \/ PollFails \/ PollWaits \/ PollActivates \/ PollAcceptsRanking \/ PollMissesKeywords
    \/ PollTriggersNext \/ PollCannotTrigger \/ PollAborts
=============================================================================
