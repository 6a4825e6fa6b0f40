------------------------------ MODULE Approval ------------------------------
(***************************************************************************)
(* The approval workflow of the end-of-day pipeline: an operator's session *)
(* loads a sweep result, validates it, writes a candidate config and a     *)
(* report, asks for the approval phrases, writes an approved config or a   *)
(* rejection record, hands an approved config to the sender, and leaves a  *)
(* final report and a pointer to the latest run (approval/workflow.py).    *)
(*                                                                         *)
(* A session is one run of the command; sessions may overlap, be killed    *)
(* between any two steps, and fail wherever the code can raise.  Each has  *)
(* its own run directory, named by the time it started; all share the      *)
(* sweep result, which another program may rewrite, and latest_run.json.   *)
(* pc[s] is <<stage, step>>.  A file is absent (None) or has its content;  *)
(* files of a run directory are replaced in one step, and latest_run.json, *)
(* which sessions share, is modelled down to its inodes.                   *)
(***************************************************************************)
EXTENDS Integers, Sequences, SequencesExt, FiniteSets

CONSTANTS
  Sessions,      (* runs of the command                                    *)
  RunIds,        (* BOUND: the start times a session may read              *)
  Results,       (* what the sweep result file may hold                    *)
  MaxRewrites,   (* BOUND: how often run_sweep rewrites that file          *)
  Phrases,       (* what the operator may type, "empty" and "EOF" included *)
  SenderOptions, (* whether a session has a sender: TRUE, FALSE or either  *)
  None,          (* no such file, no such run                              *)
  Torn           (* a file opened for writing and not yet written          *)

SelectionStatus == {"OPTIMIZED", "NOT_OPTIMIZED"}
Result == [name : STRING, selection_status : SelectionStatus,
           has_warnings : BOOLEAN, valid : BOOLEAN]

ASSUME ResultAssumption == /\ Results \subseteq Result
                           /\ \A r \in Results :
                                r.selection_status = "NOT_OPTIMIZED" => r.has_warnings
ASSUME BoundAssumption  == /\ MaxRewrites \in Nat
                           /\ SenderOptions \subseteq BOOLEAN

VARIABLES
  pc,              (* [Sessions -> <<stage, step>>]                        *)
  run,             (* [Sessions -> RunIds \cup {None}]: its run directory  *)
  result,          (* [Sessions -> Results \cup {None}]: what it loaded    *)
  hash,            (* [Sessions -> Results \cup {None}]: what it hashed    *)
  status,          (* [Sessions -> approval status]                        *)
  dispatch,        (* [Sessions -> dispatch status]                        *)
  answers,         (* history: what the operator typed at the gates        *)
  sweep_file,      (* the sweep result file                                *)
  rewrites,        (* how often it was rewritten                           *)
  directories,     (* run directories that exist                           *)
  overlapped,      (* history: a session started while another was running *)
  candidate, report_json, report_md, approved, rejection,  (* their files  *)
  stage_log,       (* their stage_log.jsonl                                *)
  inode,           (* content of the inodes latest_run.json ever had       *)
  tmp_name, latest_name,   (* the inodes of .latest_run.json.tmp and       *)
                           (* latest_run.json, or None                     *)
  handle,          (* [Sessions -> the inode it has open]                  *)
  sent             (* history: what the sender delivered                   *)

memory    == <<result, hash, status, dispatch, answers>>
artifacts == <<candidate, report_json, report_md, approved, rejection>>
pointer   == <<inode, tmp_name, latest_name, handle>>
sweep     == <<sweep_file, rewrites>>
starts    == <<directories, overlapped>>
vars == <<pc, run, memory, sweep, starts, artifacts, stage_log, pointer,
          sent>>

Verdicts == {"APPROVED", "REJECTED", "NO_APPROVAL"}

At(s, stage, step)    == pc[s] = <<stage, step>>
GoTo(s, stage, step)  == pc' = [pc EXCEPT ![s] = <<stage, step>>]
Stopped(s)            == pc[s][1] = "stopped"

\* Variant: the log is opened for writing, not for appending.
LogAfresh(s, stage, what) ==
  stage_log' = [stage_log EXCEPT ![run[s]] = <<<<stage, what>>>>]
\* StageLogger._write
Log(s, stage, what) ==
  stage_log' = [stage_log EXCEPT ![run[s]] = Append(@, <<stage, what>>)]

Init == /\ pc = [s \in Sessions |-> <<"start", "mkdir">>]
        /\ run = [s \in Sessions |-> None]
        /\ result = [s \in Sessions |-> None]
        /\ hash = [s \in Sessions |-> None]
        /\ status = [s \in Sessions |-> "PENDING"]
        /\ dispatch = [s \in Sessions |-> "NOT_ATTEMPTED"]
        /\ answers = [s \in Sessions |-> <<>>]
        /\ sweep_file \in Results
        /\ rewrites = 0
        /\ directories = {}
        /\ overlapped = FALSE
        /\ candidate = [i \in RunIds |-> None]
        /\ report_json = [i \in RunIds |-> None]
        /\ report_md = [i \in RunIds |-> None]
        /\ approved = [i \in RunIds |-> None]
        /\ rejection = [i \in RunIds |-> None]
        /\ stage_log = [i \in RunIds |-> <<>>]
        /\ inode = <<>>
        /\ tmp_name = None /\ latest_name = None
        /\ handle = [s \in Sessions |-> None]
        /\ sent = {}

----------------------------------------------------------------------------
(* The world around a session.                                             *)

\* run_sweep writes a new result over the old one.
RewriteSweep == /\ rewrites < MaxRewrites
                /\ sweep_file' \in Results \ {sweep_file}
                /\ rewrites' = rewrites + 1
                /\ UNCHANGED <<pc, run, memory, starts, artifacts,
                               stage_log, pointer, sent>>

\* The session ends without a word: power, or Ctrl-C, which `except
\* Exception` does not catch.
Kill(s) == /\ ~Stopped(s)
           /\ GoTo(s, "stopped", "killed")
           /\ UNCHANGED <<run, memory, sweep, starts, artifacts,
                          stage_log, pointer, sent>>

\* The steps at which the code can raise, inside a stage and outside one.
RaisesInStage == {<<"load", "read">>, <<"load", "hash">>,
                  <<"candidate", "write">>, <<"report", "json">>,
                  <<"report", "md">>}
RaisesOutside == {<<"verdict", "write">>, <<"final", "json">>, <<"final", "md">>}

\* An exception inside a stage is logged and ends the session.
FailStage(s) == /\ pc[s] \in RaisesInStage
                /\ Log(s, pc[s][1], "FAILED")
                /\ GoTo(s, "stopped", "failed")
                /\ UNCHANGED <<run, memory, sweep, starts, artifacts,
                               pointer, sent>>

\* One between two stages only ends it.
FailOutside(s) == /\ pc[s] \in RaisesOutside
                  /\ GoTo(s, "stopped", "failed")
                  /\ UNCHANGED <<run, memory, sweep, starts, artifacts,
                                 stage_log, pointer, sent>>

----------------------------------------------------------------------------
(* run_approval_workflow, from the run directory to the report             *)

Running(s) == ~Stopped(s) /\ ~At(s, "start", "mkdir")

\* Variant: mkdir(exist_ok=True).
MakeDirectoryAnyway(s, id) ==
  /\ directories' = directories \cup {id}
  /\ run' = [run EXCEPT ![s] = id]
  /\ GoTo(s, "load", "enter")
\* run_directory.mkdir() raises when another run has the same start time.
MakeDirectory(s, id) ==
  \/ /\ id \notin directories
     /\ directories' = directories \cup {id}
     /\ run' = [run EXCEPT ![s] = id]
     /\ GoTo(s, "load", "enter")
  \/ /\ id \in directories
     /\ GoTo(s, "stopped", "failed")
     /\ UNCHANGED <<directories, run>>

Start(s, id) == /\ At(s, "start", "mkdir")
                /\ MakeDirectory(s, id)
                /\ overlapped' = (overlapped \/ \E t \in Sessions \ {s} : Running(t))
                /\ UNCHANGED <<memory, sweep, artifacts, stage_log, pointer, sent>>

\* The first step of a stage's body.
Body == [load |-> "read", validate |-> "check", candidate |-> "write",
         report |-> "json", approval |-> "gate", dispatch |-> "send"]

EnterStage(s) == /\ pc[s][2] = "enter"
                 /\ Log(s, pc[s][1], "ENTERED")
                 /\ GoTo(s, pc[s][1], Body[pc[s][1]])
                 /\ UNCHANGED <<run, memory, sweep, starts, artifacts,
                                pointer, sent>>

\* load: the result is read, and the file is read again for its hash.
LoadResult(s) == /\ At(s, "load", "read")
                 /\ result' = [result EXCEPT ![s] = sweep_file]
                 /\ GoTo(s, "load", "hash")
                 /\ UNCHANGED <<run, hash, status, dispatch, answers, sweep,
                                starts, artifacts, stage_log, pointer, sent>>

HashResult(s) == /\ At(s, "load", "hash")
                 /\ hash' = [hash EXCEPT ![s] = sweep_file]
                 /\ Log(s, "load", "SUCCEEDED")
                 /\ GoTo(s, "validate", "enter")
                 /\ UNCHANGED <<run, result, status, dispatch, answers, sweep,
                                starts, artifacts, pointer, sent>>

\* validate_sweep_result raises unless the result is sound and was made with
\* these settings.
Validate(s) == /\ At(s, "validate", "check")
               /\ \/ /\ result[s].valid
                     /\ Log(s, "validate", "SUCCEEDED")
                     /\ GoTo(s, "candidate", "enter")
                  \/ /\ ~result[s].valid
                     /\ Log(s, "validate", "FAILED")
                     /\ GoTo(s, "stopped", "failed")
               /\ UNCHANGED <<run, memory, sweep, starts, artifacts,
                              pointer, sent>>

Candidate(s) == [winner |-> result[s], sweep_hash |-> hash[s]]

WriteCandidate(s) ==
  /\ At(s, "candidate", "write")
  /\ candidate' = [candidate EXCEPT ![run[s]] = Candidate(s)]
  /\ Log(s, "candidate", "SUCCEEDED")
  /\ GoTo(s, "report", "enter")
  /\ UNCHANGED <<run, memory, sweep, starts, report_json, report_md,
                 approved, rejection, pointer, sent>>

\* build_approval_report
Report(s) == [winner |-> result[s], status |-> status[s], dispatch |-> dispatch[s]]

\* The PENDING report, shown to the operator too; written twice, as JSON and
\* as markdown.
WriteReport(s) ==
  \/ /\ At(s, "report", "json")
     /\ report_json' = [report_json EXCEPT ![run[s]] = Report(s)]
     /\ GoTo(s, "report", "md")
     /\ UNCHANGED <<run, memory, sweep, starts, candidate, report_md,
                    approved, rejection, stage_log, pointer, sent>>
  \/ /\ At(s, "report", "md")
     /\ report_md' = [report_md EXCEPT ![run[s]] = Report(s)]
     /\ Log(s, "report", "SUCCEEDED")
     /\ GoTo(s, "approval", "enter")
     /\ UNCHANGED <<run, memory, sweep, starts, candidate, report_json,
                    approved, rejection, pointer, sent>>

----------------------------------------------------------------------------
(* _approval_decision: the gates                                           *)

\* The gate that comes before APPROVE: an override, an acknowledgement, none.
Demand(r) == IF r.selection_status = "NOT_OPTIMIZED" THEN <<"OVERRIDE NOT_OPTIMIZED">>
             ELSE IF r.has_warnings THEN <<"ACKNOWLEDGE WARNINGS">>
             ELSE <<>>

Decide(s, verdict) == /\ status' = [status EXCEPT ![s] = verdict]
                      /\ Log(s, "approval", "SUCCEEDED")
                      /\ GoTo(s, "verdict", "write")

KeepAsking(s, step) == /\ GoTo(s, "approval", step)
                       /\ UNCHANGED <<status, stage_log>>

Answer(s, phrase) == answers' = [answers EXCEPT ![s] = Append(@, phrase)]

\* Variant: any answer but REJECT passes the first gate.
FirstGateLenient(s, phrase) ==
  IF phrase = "REJECT" THEN KeepAsking(s, "reason") ELSE KeepAsking(s, "approve")
\* What the first gate makes of an answer.
FirstGate(s, phrase) ==
  IF phrase = "REJECT" THEN KeepAsking(s, "reason")
  ELSE IF <<phrase>> = Demand(result[s]) THEN KeepAsking(s, "approve")
  ELSE Decide(s, "NO_APPROVAL")

SecondGate(s, phrase) ==
  IF phrase = "REJECT" THEN KeepAsking(s, "reason")
  ELSE IF phrase = "APPROVE" THEN Decide(s, "APPROVED")
  ELSE Decide(s, "NO_APPROVAL")

\* A result that demands nothing is asked for APPROVE at once.
AskGate(s, phrase) ==
  /\ At(s, "approval", "gate")
  /\ Answer(s, phrase)
  /\ IF Demand(result[s]) = <<>> THEN SecondGate(s, phrase) ELSE FirstGate(s, phrase)
  /\ UNCHANGED <<run, result, hash, dispatch, sweep, starts, artifacts,
                 pointer, sent>>

AskApprove(s, phrase) ==
  /\ At(s, "approval", "approve")
  /\ Answer(s, phrase)
  /\ SecondGate(s, phrase)
  /\ UNCHANGED <<run, result, hash, dispatch, sweep, starts, artifacts,
                 pointer, sent>>

\* _rejection_reason: a blank line is asked again, the end of input is no
\* approval, anything else is the reason.
AskReason(s, reason) ==
  /\ At(s, "approval", "reason")
  /\ reason # "empty"
  /\ Decide(s, IF reason = "EOF" THEN "NO_APPROVAL" ELSE "REJECTED")
  /\ UNCHANGED <<run, result, hash, dispatch, answers, sweep, starts,
                 artifacts, pointer, sent>>

----------------------------------------------------------------------------
(* The verdict, the dispatch and the final report                          *)

\* Variant: a record is written beside the approved config, too.
WriteVerdictBoth(s) ==
  /\ At(s, "verdict", "write")
  /\ approved' = [approved EXCEPT ![run[s]] =
                    IF status[s] = "APPROVED" THEN Candidate(s) ELSE @]
  /\ rejection' = [rejection EXCEPT ![run[s]] = status[s]]
  /\ GoTo(s, "dispatch", "enter")
  /\ UNCHANGED <<run, memory, sweep, starts, candidate, report_json,
                 report_md, stage_log, pointer, sent>>
\* approved_config() or the rejection record, outside any stage.
WriteVerdict(s) ==
  /\ At(s, "verdict", "write")
  /\ \/ /\ status[s] = "APPROVED"
        /\ approved' = [approved EXCEPT ![run[s]] = Candidate(s)]
        /\ UNCHANGED rejection
     \/ /\ status[s] # "APPROVED"
        /\ rejection' = [rejection EXCEPT ![run[s]] = status[s]]
        /\ UNCHANGED approved
  /\ GoTo(s, "dispatch", "enter")
  /\ UNCHANGED <<run, memory, sweep, starts, candidate, report_json,
                 report_md, stage_log, pointer, sent>>

\* Variant: an approved config is reported as sent.
DispatchedHopeful(s, outcome) ==
  /\ dispatch' = [dispatch EXCEPT ![s] = IF status[s] = "APPROVED" THEN "SENT" ELSE outcome]
  /\ Log(s, "dispatch", "SUCCEEDED")
  /\ GoTo(s, "final", "json")
Dispatched(s, outcome) ==
  /\ dispatch' = [dispatch EXCEPT ![s] = outcome]
  /\ Log(s, "dispatch", "SUCCEEDED")
  /\ GoTo(s, "final", "json")

\* sender.send() reads the approved file and delivers it, or raises before or
\* after it has delivered it.
Deliver(s) ==
  sent' = sent \cup {[run |-> run[s], config |-> approved[run[s]]]}

Send(s) ==
  /\ At(s, "dispatch", "send")
  /\ TRUE \in SenderOptions
  /\ status[s] = "APPROVED"
  /\ \/ Deliver(s) /\ Dispatched(s, "SENT")
     \/ /\ Deliver(s) \/ UNCHANGED sent
        /\ Log(s, "dispatch", "FAILED")
        /\ GoTo(s, "stopped", "failed")
        /\ UNCHANGED dispatch
  /\ UNCHANGED <<run, result, hash, status, answers, sweep, starts,
                 artifacts, pointer>>

DoNotSend(s) ==
  /\ At(s, "dispatch", "send")
  /\ status[s] = "APPROVED" => FALSE \in SenderOptions
  /\ Dispatched(s, IF status[s] = "APPROVED" THEN "LOCAL_ONLY" ELSE "SKIPPED_NOT_APPROVED")
  /\ UNCHANGED <<run, result, hash, status, answers, sweep, starts,
                 artifacts, pointer, sent>>

\* Variant: latest_run.json is written before the final report.
WriteFinalLatestFirst(s) ==
  /\ At(s, "final", "json")
  /\ GoTo(s, "latest", "open")
  /\ UNCHANGED <<report_json, report_md>>
\* The PENDING report is replaced by the final one, JSON first.
WriteFinal(s) ==
  \/ /\ At(s, "final", "json")
     /\ report_json' = [report_json EXCEPT ![run[s]] = Report(s)]
     /\ GoTo(s, "final", "md")
     /\ UNCHANGED report_md
  \/ /\ At(s, "final", "md")
     /\ report_md' = [report_md EXCEPT ![run[s]] = Report(s)]
     /\ GoTo(s, "latest", "open")
     /\ UNCHANGED report_json

FinalReport(s) == /\ WriteFinal(s)
                  /\ UNCHANGED <<run, memory, sweep, starts, candidate,
                                 approved, rejection, stage_log, pointer, sent>>

\* _atomic_write_text(latest_run.json): write_text opens the temporary file,
\* empty, and then writes it; replace() gives it the final name and raises
\* when the temporary name is gone.
OpenLatest(s) ==
  /\ At(s, "latest", "open")
  /\ IF tmp_name = None
     THEN /\ inode' = Append(inode, Torn)
          /\ tmp_name' = Len(inode) + 1
     ELSE /\ inode' = [inode EXCEPT ![tmp_name] = Torn]
          /\ UNCHANGED tmp_name
  /\ handle' = [handle EXCEPT ![s] = tmp_name']
  /\ GoTo(s, "latest", "write")
  /\ UNCHANGED <<run, memory, sweep, starts, artifacts, stage_log,
                 latest_name, sent>>

Latest(s) == [run |-> run[s], status |-> status[s], dispatch |-> dispatch[s]]

WriteLatest(s) ==
  /\ At(s, "latest", "write")
  /\ inode' = [inode EXCEPT ![handle[s]] = Latest(s)]
  /\ GoTo(s, "latest", "replace")
  /\ UNCHANGED <<run, memory, sweep, starts, artifacts, stage_log,
                 tmp_name, latest_name, handle, sent>>

ReplaceLatest(s) ==
  /\ At(s, "latest", "replace")
  /\ \/ /\ tmp_name # None
        /\ latest_name' = tmp_name
        /\ tmp_name' = None
        /\ GoTo(s, "stopped", "done")
     \/ /\ tmp_name = None
        /\ GoTo(s, "stopped", "failed")
        /\ UNCHANGED <<latest_name, tmp_name>>
  /\ UNCHANGED <<run, memory, sweep, starts, artifacts, stage_log, inode,
                 handle, sent>>

Step(s) == \/ \E id \in RunIds : Start(s, id)
           \/ EnterStage(s)
           \/ LoadResult(s) \/ HashResult(s) \/ Validate(s)
           \/ WriteCandidate(s) \/ WriteReport(s)
           \/ \E phrase \in Phrases : \/ AskGate(s, phrase)
                                      \/ AskApprove(s, phrase)
                                      \/ AskReason(s, phrase)
           \/ WriteVerdict(s)
           \/ Send(s) \/ DoNotSend(s)
           \/ FinalReport(s)
           \/ OpenLatest(s) \/ WriteLatest(s) \/ ReplaceLatest(s)
           \/ FailStage(s) \/ FailOutside(s)
           \/ Kill(s)

Next == RewriteSweep \/ \E s \in Sessions : Step(s)

Spec == Init /\ [][Next]_vars

----------------------------------------------------------------------------
(* Type correctness.                                                       *)
Maybe(S)     == S \cup {None}
Statuses     == Verdicts \cup {"PENDING"}
Dispatches   == {"NOT_ATTEMPTED", "SENT", "LOCAL_ONLY", "SKIPPED_NOT_APPROVED"}
Config       == [winner : Results, sweep_hash : Results]
ReportType   == [winner : Results, status : Statuses, dispatch : Dispatches]
LatestType   == [run : RunIds, status : Statuses, dispatch : Dispatches]
Entry        == {"load", "validate", "candidate", "report", "approval", "dispatch"}
                  \X {"ENTERED", "SUCCEEDED", "FAILED"}
PcValues     == ({"start"} \X {"mkdir"})
                  \cup ({"load"} \X {"enter", "read", "hash"})
                  \cup ({"validate"} \X {"enter", "check"})
                  \cup ({"candidate"} \X {"enter", "write"})
                  \cup ({"report"} \X {"enter", "json", "md"})
                  \cup ({"approval"} \X {"enter", "gate", "approve", "reason"})
                  \cup ({"verdict"} \X {"write"})
                  \cup ({"dispatch"} \X {"enter", "send"})
                  \cup ({"final"} \X {"json", "md"})
                  \cup ({"latest"} \X {"open", "write", "replace"})
                  \cup ({"stopped"} \X {"killed", "failed", "done"})

\* No file, no run and a torn file are not to be confused with anything else.
ASSUME NoneAssumption == /\ None \notin RunIds
                         /\ None \notin Config
                         /\ None \notin ReportType
                         /\ None \notin Verdicts
                         /\ None \notin Nat
                         /\ Torn \notin LatestType

TypeOK == /\ pc \in [Sessions -> PcValues]
          /\ run \in [Sessions -> Maybe(RunIds)]
          /\ result \in [Sessions -> Maybe(Results)]
          /\ hash \in [Sessions -> Maybe(Results)]
          /\ status \in [Sessions -> Statuses]
          /\ dispatch \in [Sessions -> Dispatches]
          /\ answers \in [Sessions -> Seq(Phrases)]
          /\ sweep_file \in Results /\ rewrites \in 0 .. MaxRewrites
          /\ directories \subseteq RunIds /\ overlapped \in BOOLEAN
          /\ candidate \in [RunIds -> Maybe(Config)]
          /\ approved \in [RunIds -> Maybe(Config)]
          /\ report_json \in [RunIds -> Maybe(ReportType)]
          /\ report_md \in [RunIds -> Maybe(ReportType)]
          /\ rejection \in [RunIds -> Maybe(Verdicts \ {"APPROVED"})]
          /\ stage_log \in [RunIds -> Seq(Entry)]
          /\ inode \in Seq(LatestType \cup {Torn})
          /\ tmp_name \in Maybe(1 .. Len(inode))
          /\ latest_name \in Maybe(1 .. Len(inode))
          /\ handle \in [Sessions -> Maybe(1 .. Len(inode))]
          /\ sent \subseteq [run : RunIds, config : Config]

\* What README's approval rules ask the operator to type.
RequiredAnswers(r) ==
  CASE r.selection_status = "NOT_OPTIMIZED" -> <<"OVERRIDE NOT_OPTIMIZED", "APPROVE">>
    [] r.selection_status = "OPTIMIZED" /\ r.has_warnings -> <<"ACKNOWLEDGE WARNINGS", "APPROVE">>
    [] OTHER -> <<"APPROVE">>

\* Whatever was delivered had been validated, shown to the operator in the
\* report and approved with every phrase its state required, in order; a
\* rewrite of the sweep result on the way changes nothing.
SentWasApproved ==
  \A m \in sent : \E s \in Sessions :
    /\ run[s] = m.run
    /\ m.config.winner.valid
    /\ answers[s] = RequiredAnswers(m.config.winner)
    /\ report_json[m.run].winner = m.config.winner
    /\ approved[m.run] = m.config

\* A report that is no longer PENDING agrees with the files beside it and with
\* what was delivered.
FinalReportAgrees ==
  \A i \in RunIds :
    (report_json[i] # None /\ report_json[i].status # "PENDING") =>
      LET r == report_json[i] IN
        /\ r.status = "APPROVED" <=> approved[i] # None
        /\ r.status # "APPROVED" <=> rejection[i] # None
        /\ r.dispatch = "SENT" <=> \E m \in sent : m.run = i
        /\ r.dispatch = "LOCAL_ONLY" => r.status = "APPROVED"

\* latest_run.json is never half-written, and names a run whose two reports are
\* final and say what it says, wherever sessions have been killed; for sessions
\* that follow one another (two at once share its temporary name).
LatestTruthful ==
  (~overlapped /\ latest_name # None) =>
    LET l == inode[latest_name] IN
      /\ l # Torn
      /\ \A report \in {report_json[l.run], report_md[l.run]} :
           report # None /\ report.status = l.status /\ report.dispatch = l.dispatch

\* The files of a run directory tell of one session: of one sweep result, with
\* one verdict at most, also when two sessions read the same start time.
RunIsOneStory ==
  \A i \in RunIds :
    /\ approved[i] # None => candidate[i] = approved[i] /\ rejection[i] = None
    /\ report_json[i] # None => report_json[i].winner = candidate[i].winner
    /\ report_md[i] # None => report_md[i].winner = candidate[i].winner

\* The log of a completed run: every stage entered and succeeded, in order.
FullLog == << <<"load",      "ENTERED">>, <<"load",      "SUCCEEDED">>,
              <<"validate",  "ENTERED">>, <<"validate",  "SUCCEEDED">>,
              <<"candidate", "ENTERED">>, <<"candidate", "SUCCEEDED">>,
              <<"report",    "ENTERED">>, <<"report",    "SUCCEEDED">>,
              <<"approval",  "ENTERED">>, <<"approval",  "SUCCEEDED">>,
              <<"dispatch",  "ENTERED">>, <<"dispatch",  "SUCCEEDED">> >>

\* A log is the beginning of the full log, but for a FAILED at its end.
LogIsPrefix(log) ==
  /\ Len(log) <= Len(FullLog)
  /\ \A k \in DOMAIN log :
       \/ log[k] = FullLog[k]
       \/ k = Len(log) /\ log[k] = <<FullLog[k][1], "FAILED">>
                       /\ FullLog[k][2] = "SUCCEEDED"

\* Every run's log is such a beginning;
\* a verdict file means approval succeeded; latest_run.json names complete logs.
LogFollowsStages ==
  \A i \in RunIds :
    LET log == stage_log[i] IN
      /\ LogIsPrefix(log)
      /\ approved[i] # None \/ rejection[i] # None =>
           Contains(log, <<"approval", "SUCCEEDED">>)
      /\ report_md[i] # None /\ report_md[i].status # "PENDING" => log = FullLog

\* The files a run leaves behind agree with each other and with its log.
FilesAgree == FinalReportAgrees /\ LogFollowsStages
============================================================================
