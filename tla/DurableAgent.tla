---------------------------- MODULE DurableAgent ----------------------------
(***************************************************************************)
(* DurableIncidentAgentService (incident_guard/durable_incident_agent.py):  *)
(* the commands `ig agent investigate, resume, approve, reject, status'     *)
(* around the durable runtime (EventRuntime), each in a process of its own. *)
(*                                                                         *)
(* Besides its stream a run has a metadata file with its scenario, from     *)
(* which every resume takes the policy of the tools.  The file is written   *)
(* before the run starts, in place: it is empty for a moment.               *)
(*                                                                         *)
(* Every command ends with a summary, for which both projectors read the    *)
(* stream: RunProjection's and IncidentState's.                             *)
(*                                                                         *)
(* Two investigations may be given the same run id; there is one driver     *)
(* afterwards (see EventRuntime).  The approval commands are EventRuntime's  *)
(* operators, in processes of their own: a run gives SharedLoop the value   *)
(* FALSE (nothing that is proved needs it).                                 *)
(***************************************************************************)
EXTENDS EventRuntime, IncidentState

CONSTANTS Investigators,      \* processes that run `ig agent investigate'
          Scenarios,
          RecoveryCalls,      \* per scenario, the calls its policy allows
          MaxInvestigations   \* bound: investigations of the run

ASSUME AgentAssumption ==
    /\ RecoveryCalls \in [Scenarios -> SUBSET Mutations]
    /\ MaxInvestigations \in Nat

VARIABLES metadata,        \* the metadata file of the run
          investigator,    \* per process, its point in investigate
          policy,          \* the scenario of the driver's policy and tools
          incident,        \* IncidentState of the stream
          investigations,
          begunAs,         \* history: the scenario the run was started with
          raced            \* history: two investigations overlapped

agentVars == <<vars, metadata, investigator, policy, incident, investigations,
               begunAs, raced>>

NoScenario == "none"
Away == [at |-> "away"]

AgentInit ==
    /\ Init
    /\ metadata = "absent"
    /\ investigator = [i \in Investigators |-> Away]
    /\ policy = NoScenario
    /\ incident = NoIncident
    /\ investigations = 0
    /\ begunAs = NoScenario
    /\ raced = FALSE

\* What only investigate changes.
files == <<metadata, investigator, investigations, begunAs, raced>>

-----------------------------------------------------------------------------
(* investigate                                                             *)

Moves(i, from, to) ==
    /\ investigator[i].at = from
    /\ investigator' = [investigator EXCEPT ![i].at = to]

\* Mutant: a run that exists is investigated again.
InvestigateBegins_NoReplay(i, s) ==
    /\ investigator[i] = Away /\ investigations < MaxInvestigations
    /\ investigations' = investigations + 1
    /\ investigator' = [investigator EXCEPT ![i] = [at |-> "new", scenario |-> s]]
    /\ raced' = (raced \/ \E j \in Investigators : investigator[j] # Away)
    /\ UNCHANGED <<vars, metadata, policy, incident, begunAs>>

\* The scenario is an argument, or that of lab-state.json.
InvestigateBegins(i, s) ==
    /\ investigator[i] = Away /\ investigations < MaxInvestigations
    /\ run = Empty
    /\ investigations' = investigations + 1
    /\ investigator' = [investigator EXCEPT ![i] = [at |-> "new", scenario |-> s]]
    /\ raced' = (raced \/ \E j \in Investigators : investigator[j] # Away)
    /\ UNCHANGED <<vars, metadata, policy, incident, begunAs>>

\* write_text opens the file, which empties it ...
MetadataEmptied(i) ==
    /\ Moves(i, "new", "writing")
    /\ metadata' = "torn"
    /\ UNCHANGED <<vars, policy, incident, investigations, begunAs, raced>>

\* ... and writes it.
MetadataWritten(i) ==
    /\ Moves(i, "writing", "executing")
    /\ metadata' = investigator[i].scenario
    /\ UNCHANGED <<vars, policy, incident, investigations, begunAs, raced>>

\* _execute: the tools are there, and run() has found no events.
RunChecks(i) ==
    /\ Moves(i, "executing", "starting")
    /\ run = Empty
    /\ UNCHANGED <<vars, metadata, policy, incident, investigations, begunAs, raced>>

\* run() appends its first events and drives the run.
InvestigateStarts(i) ==
    /\ investigator[i].at = "starting"
    /\ Start
    /\ investigator' = [investigator EXCEPT ![i] = Away]
    /\ policy' = investigator[i].scenario
    /\ begunAs' = investigator[i].scenario
    /\ UNCHANGED <<metadata, incident, investigations, raced>>

\* Another investigation was faster: its run.started is there already.
InvestigateCollides(i) ==
    /\ investigator[i].at = "starting" /\ run # Empty
    /\ run' = TurnStarted(RunStarted(run), 1)
    /\ investigator' = [investigator EXCEPT ![i] = Away]
    /\ UNCHANGED <<pc, next, resp, op, attempts, crashes, metadata, policy,
                   incident, investigations, begunAs, raced>>

\* The provider is not configured, the server does not start, run() finds
\* events, or the process is killed.
InvestigateEnds(i) ==
    /\ investigator[i] # Away
    /\ investigator' = [investigator EXCEPT ![i] = Away]
    /\ UNCHANGED <<vars, metadata, policy, incident, investigations, begunAs, raced>>

-----------------------------------------------------------------------------
(* resume, approve and reject: all read the metadata first.                *)

MetadataReadable == metadata \in Scenarios

\* Mutant: the policy is that of the scenario in the lab now.
AgentResumes_CurrentScenario ==
    /\ MetadataReadable
    /\ Resume
    /\ policy' \in Scenarios
    /\ UNCHANGED <<files, incident>>

AgentResumes ==
    /\ MetadataReadable
    /\ Resume
    /\ policy' = metadata
    /\ UNCHANGED <<files, incident>>

AgentDecides(o) ==
    /\ MetadataReadable
    /\ \E c \in CallIds, d \in {"approved", "rejected"} : Decide(o, c, d)
    /\ UNCHANGED <<files, policy, incident>>

AgentDecideCommits(o) ==
    /\ DecideCommits(o)
    /\ incident' = DecisionSeen(incident, op[o].call, op[o].decision)
    /\ UNCHANGED <<files, policy>>

AgentDecisionEnds(o) ==
    /\ RejectCommits(o) \/ OperatorStops(o)
    /\ UNCHANGED <<files, policy, incident>>

-----------------------------------------------------------------------------
(* The driver, with IncidentScenarioPolicy.                                *)

\* The verdicts on a call; "deny" also for arguments that are refused.
Judgement(c) ==
    {"deny"} \cup (IF c \notin Mutations THEN {"allow"}
                   ELSE IF c \in RecoveryCalls[policy] THEN {"ask"} ELSE {})

PolicyEvaluates ==
    /\ pc \in {"preflight", "dispatch"}
    /\ \/ \E verdict \in Judgement(Call) : Preflight(verdict) \/ Dispatch(verdict)
       \/ PreflightFails \/ DispatchFails \/ Raise
    /\ UNCHANGED <<files, policy, incident>>

AgentAsks ==
    /\ AskApproval
    /\ incident' = RequestSeen(incident, Call)
    /\ UNCHANGED <<files, policy>>

AgentDrives ==
    /\ pc \notin {"preflight", "dispatch", "ask"}
    /\ Driver
    /\ UNCHANGED <<files, policy, incident>>

AgentCrashes == Crash /\ UNCHANGED <<files, policy, incident>>

-----------------------------------------------------------------------------

AgentNext ==
    \/ \E i \in Investigators :
        \/ \E s \in Scenarios : InvestigateBegins(i, s)
        \/ MetadataEmptied(i) \/ MetadataWritten(i) \/ RunChecks(i)
        \/ InvestigateStarts(i) \/ InvestigateCollides(i) \/ InvestigateEnds(i)
    \/ AgentResumes
    \/ \E o \in Operators :
        AgentDecides(o) \/ AgentDecideCommits(o) \/ AgentDecisionEnds(o)
    \/ PolicyEvaluates \/ AgentAsks \/ AgentDrives \/ AgentCrashes

AgentSpec == AgentInit /\ [][AgentNext]_agentVars

-----------------------------------------------------------------------------
(* Properties.                                                             *)

\* test_durable_agent_pauses_and_resumes_across_service_processes: a run that
\* has events can be resumed and decided on by other processes, whatever was
\* killed and however often the investigation was tried, and always under the
\* scenario it was started with; only two investigations at the same time,
\* under the same id, may spoil the metadata of each other's run.
RunAddressable == run # Empty /\ ~raced => metadata = begunAs

\* IncidentScenarioPolicy ("only the recovery mutation justified by the
\* scenario"), over the whole run: no mutation is executed by any of its
\* drivers but those of the scenario it was investigated under.
ScenarioMutationOnly ==
    ~raced => \A c \in Mutations : attempts[c] > 0 => c \in RecoveryCalls[begunAs]

\* README: "Copy the model-generated call_id, approve the action": while a
\* run waits and its summary can be made, the summary lists exactly one
\* pending approval, and it is the call that the run cannot go on without.
PendingShown ==
    run.ok /\ incident.ok /\ run.status = "waiting_approval" =>
        \E c \in CallIds :
            /\ PendingApprovals(incident) = {c}
            /\ InOpenStep(run, c) /\ run.tools[c].state = "requested"
            /\ DurableApproval(c) = "none"

\* decide_durable_approval: "Persist an operator decision bound to one pending
\* tool call": whenever the runtime can read a run, the agent's commands can
\* show it.
SummaryReadable == run.ok => incident.ok
=============================================================================
