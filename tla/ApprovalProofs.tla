--------------------------- MODULE ApprovalProofs ---------------------------
(***************************************************************************)
(* Proofs about the approval workflow, for any number of sessions that     *)
(* overlap, fail and are killed at any step, any start times, any sweep    *)
(* results and rewrites of the result file.                                *)
(***************************************************************************)
EXTENDS Approval, SequenceTheorems, TLAPS

----------------------------------------------------------------------------
(* The inductive invariant.                                                *)

Active(s)    == pc[s][1] \notin {"start", "stopped"}
Sent(i)      == \E m \in sent : m.run = i
Ratified(log) == Contains(log, <<"approval", "SUCCEEDED">>)

\* A run directory belongs to the session that made it; a start time nobody
\* has used yet has left nothing.
Untouched(i) == /\ candidate[i] = None /\ report_json[i] = None
                /\ report_md[i] = None /\ approved[i] = None
                /\ rejection[i] = None /\ stage_log[i] = <<>> /\ ~Sent(i)
Ownership == /\ \A s, t \in Sessions : run[s] = run[t] /\ run[s] # None => s = t
             /\ \A s \in Sessions : run[s] # None => run[s] \in directories
             /\ \A i \in RunIds : (\A s \in Sessions : run[s] # i) => Untouched(i)

\* The verdict file is the one the status asks for.
VerdictFiled(s) == IF status[s] = "APPROVED" THEN approved[run[s]] # None
                                             ELSE rejection[run[s]] # None
\* The dispatch is over, with the outcome the session remembers.
Concluded(s) == /\ status[s] # "PENDING" /\ dispatch[s] # "NOT_ATTEMPTED"
                /\ VerdictFiled(s)
                /\ dispatch[s] = "SENT" <=> Sent(run[s])
                /\ dispatch[s] = "LOCAL_ONLY" => status[s] = "APPROVED"

\* What the files of a session's run directory say of it, wherever it stopped.
Story(s) ==
  LET i == run[s] IN
    /\ candidate[i] # None =>
         candidate[i] = Candidate(s) /\ result[s].valid
    /\ report_json[i] # None =>
         /\ candidate[i] # None /\ report_json[i].winner = result[s]
         /\ report_json[i].status # "PENDING" =>
              report_json[i] = Report(s) /\ Concluded(s)
    /\ report_md[i] # None =>
         /\ candidate[i] # None /\ report_md[i].winner = result[s]
         /\ report_md[i].status # "PENDING" => stage_log[i] = FullLog
    /\ approved[i] # None =>
         /\ approved[i] = Candidate(s) /\ candidate[i] # None
         /\ status[s] = "APPROVED" /\ rejection[i] = None
         /\ answers[s] = RequiredAnswers(result[s])
         /\ report_json[i] # None /\ Ratified(stage_log[i])
    /\ rejection[i] # None =>
         status[s] \in Verdicts \ {"APPROVED"} /\ Ratified(stage_log[i])
    /\ \A m \in sent : m.run = i => approved[i] # None /\ m.config = approved[i]
    /\ LogIsPrefix(stage_log[i])

\* How many entries of the full log have been written.
Logged(s) ==
  CASE pc[s][1] = "load"      -> IF pc[s][2] = "enter" THEN 0 ELSE 1
    [] pc[s][1] = "validate"  -> IF pc[s][2] = "enter" THEN 2 ELSE 3
    [] pc[s][1] = "candidate" -> IF pc[s][2] = "enter" THEN 4 ELSE 5
    [] pc[s][1] = "report"    -> IF pc[s][2] = "enter" THEN 6 ELSE 7
    [] pc[s][1] = "approval"  -> IF pc[s][2] = "enter" THEN 8 ELSE 9
    [] pc[s][1] = "verdict"   -> 10
    [] pc[s][1] = "dispatch"  -> IF pc[s][2] = "enter" THEN 10 ELSE 11
    [] OTHER                  -> 12

Begins(log, n) == Len(log) = n /\ \A k \in 1 .. n : log[k] = FullLog[k]

IsPending(report) == report # None /\ report.status = "PENDING"

\* What a session that goes on has done, by the stage it is in.
Progress(s) ==
  LET i == run[s]  stage == pc[s][1]  step == pc[s][2] IN
    /\ i \in RunIds
    /\ Begins(stage_log[i], Logged(s))
    /\ pc[s] \notin {<<"load", "enter">>, <<"load", "read">>} => result[s] \in Results
    /\ stage # "load" => hash[s] \in Results
    /\ stage \notin {"load", "validate"} => result[s].valid
    /\ candidate[i] = None <=> stage \in {"load", "validate", "candidate"}
    /\ stage = "report" /\ step # "md" => report_json[i] = None
    /\ stage = "report" => report_md[i] = None
    /\ stage \in {"approval", "verdict", "dispatch"} => IsPending(report_json[i])
    /\ pc[s] \in {<<"report", "md">>, <<"final", "json">>} => IsPending(report_json[i])
    /\ stage \in {"approval", "verdict", "dispatch", "final"} =>
         IsPending(report_md[i])
    /\ stage \in {"load", "validate", "candidate", "report", "approval"} =>
         status[s] = "PENDING"
    /\ stage \in {"load", "validate", "candidate", "report"} => answers[s] = <<>>
    /\ stage = "approval" /\ step \in {"enter", "gate"} => answers[s] = <<>>
    /\ stage = "approval" /\ step = "approve" =>
         Demand(result[s]) # <<>> /\ answers[s] = Demand(result[s])
    /\ stage \in {"verdict", "dispatch", "final", "latest"} =>
         /\ status[s] \in Verdicts
         /\ status[s] = "APPROVED" => answers[s] = RequiredAnswers(result[s])
    /\ stage \in {"load", "validate", "candidate", "report", "approval", "verdict"} =>
         approved[i] = None /\ rejection[i] = None
    /\ stage \notin {"final", "latest"} =>
         dispatch[s] = "NOT_ATTEMPTED" /\ ~Sent(i)
    /\ stage = "dispatch" => VerdictFiled(s)
    /\ stage \in {"final", "latest"} => Concluded(s)
    /\ pc[s] = <<"final", "md">> => report_json[i] = Report(s)
    /\ stage = "latest" => report_json[i] = Report(s) /\ report_md[i] = Report(s)

SessionInv(s) == /\ pc[s][1] = "start" => /\ run[s] = None /\ answers[s] = <<>>
                                          /\ status[s] = "PENDING"
                                          /\ dispatch[s] = "NOT_ATTEMPTED"
                 /\ run[s] # None => Story(s)
                 /\ Active(s) => Progress(s)

\* latest_run.json is the pointer a finished session wrote, and the temporary
\* file is another one; for sessions that follow one another it is that of the
\* session at work.
Pointed(s) == /\ pc[s] = <<"stopped", "done">>
              /\ run[s] \in RunIds /\ result[s] \in Results
              /\ report_json[run[s]] = Report(s) /\ report_md[run[s]] = Report(s)
PointerInv ==
  /\ latest_name # None => tmp_name # latest_name
  /\ ~overlapped =>
       /\ \A s, t \in Sessions : Running(s) /\ Running(t) => s = t
       /\ \A s \in Sessions :
            /\ pc[s] \in {<<"latest", "write">>, <<"latest", "replace">>} =>
                 tmp_name # None /\ handle[s] = tmp_name
            /\ pc[s] = <<"latest", "replace">> => inode[tmp_name] = Latest(s)
       /\ latest_name # None =>
            \E s \in Sessions : Pointed(s) /\ inode[latest_name] = Latest(s)

ApprovalInv == /\ Ownership
               /\ \A s \in Sessions : SessionInv(s)
               /\ PointerInv
IInv == TypeOK /\ ApprovalInv

----------------------------------------------------------------------------
(* A step of one session leaves the others, and their directories, alone.  *)

\* What a step of s leaves as it was.
SameSession(t) == /\ pc'[t] = pc[t] /\ run'[t] = run[t]
                  /\ result'[t] = result[t] /\ hash'[t] = hash[t]
                  /\ status'[t] = status[t] /\ dispatch'[t] = dispatch[t]
                  /\ answers'[t] = answers[t]
SameFiles(i) == /\ candidate'[i] = candidate[i] /\ approved'[i] = approved[i]
                /\ report_json'[i] = report_json[i] /\ report_md'[i] = report_md[i]
                /\ rejection'[i] = rejection[i] /\ stage_log'[i] = stage_log[i]
                /\ \A m : m.run = i => (m \in sent' <=> m \in sent)
OnlyOwn(s) == /\ \A t \in Sessions \ {s} : SameSession(t)
              /\ \A i \in RunIds \ {run'[s]} : SameFiles(i)

LEMMA StepOnlyOwn ==
  ASSUME TypeOK, NEW s \in Sessions, Step(s)
  PROVE  OnlyOwn(s)
<1>. USE DEF TypeOK, OnlyOwn, SameSession, SameFiles, memory, artifacts,
             pointer, sweep, starts, GoTo, At, Log
<1>1. CASE \E id \in RunIds : Start(s, id)
  BY <1>1 DEF Start, MakeDirectory
<1>2. CASE EnterStage(s)
  BY <1>2 DEF EnterStage
<1>3. CASE LoadResult(s)
  BY <1>3 DEF LoadResult
<1>4. CASE HashResult(s)
  BY <1>4 DEF HashResult
<1>5. CASE Validate(s)
  BY <1>5 DEF Validate
<1>6. CASE WriteCandidate(s)
  BY <1>6 DEF WriteCandidate
<1>7. CASE WriteReport(s)
  BY <1>7 DEF WriteReport
<1>8. CASE \E phrase \in Phrases : AskGate(s, phrase)
  BY <1>8 DEF AskGate, FirstGate, SecondGate, KeepAsking, Decide, Answer
<1>9. CASE \E phrase \in Phrases : AskApprove(s, phrase)
  BY <1>9 DEF AskApprove, SecondGate, KeepAsking, Decide, Answer
<1>10. CASE \E phrase \in Phrases : AskReason(s, phrase)
  BY <1>10 DEF AskReason, Decide
<1>11. CASE WriteVerdict(s)
  BY <1>11 DEF WriteVerdict
<1>12. CASE Send(s)
  BY <1>12 DEF Send, Deliver, Dispatched
<1>13. CASE DoNotSend(s)
  BY <1>13 DEF DoNotSend, Dispatched
<1>14. CASE FinalReport(s)
  BY <1>14 DEF FinalReport, WriteFinal
<1>15. CASE OpenLatest(s) \/ WriteLatest(s) \/ ReplaceLatest(s)
  BY <1>15 DEF OpenLatest, WriteLatest, ReplaceLatest
<1>16. CASE FailStage(s) \/ FailOutside(s) \/ Kill(s)
  BY <1>16 DEF FailStage, FailOutside, Kill
<1>. QED
  BY <1>1, <1>2, <1>3, <1>4, <1>5, <1>6, <1>7, <1>8, <1>9, <1>10, <1>11,
     <1>12, <1>13, <1>14, <1>15, <1>16 DEF Step

\* Then the others are where they were.
LEMMA OthersKeep ==
  ASSUME TypeOK, NEW t \in Sessions, SessionInv(t), SameSession(t),
         run[t] # None => SameFiles(run[t])
  PROVE  SessionInv(t)'
<1>. USE DEF SameSession, SameFiles
<1>1. run[t] # None => Story(t)'
  BY DEF SessionInv, Story, Candidate, Report, Concluded, VerdictFiled, Sent, Ratified
<1>2. Active(t) => Progress(t)'
  <2>1. SUFFICES ASSUME Active(t)  PROVE Progress(t)'
    OBVIOUS
  <2>2. Progress(t) /\ run[t] # None
    BY <2>1, NoneAssumption DEF SessionInv, Progress
  <2>3. Logged(t)' = Logged(t)
    BY DEF Logged
  <2>4. Concluded(t)' <=> Concluded(t)
    BY <2>2 DEF Concluded, VerdictFiled, Sent
  <2>5. Sent(run[t])' <=> Sent(run[t])
    BY <2>2 DEF Sent
  <2>. QED
    BY <2>2, <2>3, <2>4, <2>5 DEF Progress, Candidate, Report, VerdictFiled
<1>. QED
  BY <1>1, <1>2 DEF SessionInv, Active

----------------------------------------------------------------------------
(* The log.                                                                *)

LEMMA FullLogFacts ==
  /\ FullLog \in Seq(Entry) /\ Len(FullLog) = 12
  /\ FullLog[1] = <<"load", "ENTERED">> /\ FullLog[2] = <<"load", "SUCCEEDED">>
  /\ FullLog[3] = <<"validate", "ENTERED">>
  /\ FullLog[4] = <<"validate", "SUCCEEDED">>
  /\ FullLog[5] = <<"candidate", "ENTERED">>
  /\ FullLog[6] = <<"candidate", "SUCCEEDED">>
  /\ FullLog[7] = <<"report", "ENTERED">>
  /\ FullLog[8] = <<"report", "SUCCEEDED">>
  /\ FullLog[9] = <<"approval", "ENTERED">>
  /\ FullLog[10] = <<"approval", "SUCCEEDED">>
  /\ FullLog[11] = <<"dispatch", "ENTERED">>
  /\ FullLog[12] = <<"dispatch", "SUCCEEDED">>
BY DEF FullLog, Entry

LEMMA FullLogEntry ==
  ASSUME NEW n \in 0 .. 11
  PROVE  n + 1 <= Len(FullLog) /\ FullLog[n + 1] \in Entry
<1>1. FullLog \in Seq(Entry) /\ n + 1 \in 1 .. 12 /\ Len(FullLog) = 12
  BY FullLogFacts
<1>2. ASSUME NEW S, NEW f \in Seq(S), NEW k \in 1 .. Len(f)  PROVE f[k] \in S
  OBVIOUS
<1>3. n + 1 \in 1 .. Len(FullLog)
  BY <1>1
<1>4. FullLog[n + 1] \in Entry
  BY <1>1, <1>2, <1>3, Zenon
<1>. QED
  BY <1>3, <1>4

\* An entry is added to a log.
Appended(log, grown, n, e) ==
  /\ Len(grown) = n + 1 /\ DOMAIN grown = 1 .. n + 1
  /\ grown[n + 1] = e
  /\ \A k \in 1 .. n : grown[k] = FullLog[k]
  /\ Ratified(log) => Ratified(grown)
LEMMA LogAppended ==
  ASSUME TypeOK, NEW s \in Sessions, run[s] \in RunIds, NEW n \in 0 .. 11,
         Begins(stage_log[run[s]], n), NEW stage, NEW what, Log(s, stage, what),
         <<stage, what>> \in Entry
  PROVE  Appended(stage_log[run[s]], stage_log'[run[s]], n, <<stage, what>>)
<1>. DEFINE log == stage_log[run[s]]
            e == <<stage, what>>
<1>1. log \in Seq(Entry) /\ stage_log'[run[s]] = Append(log, e) /\ e \in Entry
  BY DEF TypeOK, Log
<1>2. Len(log) = n /\ \A k \in 1 .. n : log[k] = FullLog[k]
  BY DEF Begins
<1>. HIDE DEF log, e
<1>3. /\ Append(log, e) \in Seq(Entry) /\ Len(Append(log, e)) = n + 1
      /\ DOMAIN Append(log, e) = 1 .. n + 1 /\ Append(log, e)[n + 1] = e
      /\ \A k \in 1 .. n : Append(log, e)[k] = log[k]
  BY <1>1, <1>2
<1>4. Ratified(log) => Ratified(Append(log, e))
  BY <1>2, <1>3 DEF Ratified, Contains
<1>. QED
  BY <1>1, <1>2, <1>3, <1>4 DEF log, e, Appended

\* The next entry of the full log is written.
LEMMA LogGrows ==
  ASSUME TypeOK, NEW s \in Sessions, run[s] \in RunIds, NEW n \in 0 .. 11,
         Begins(stage_log[run[s]], n), NEW stage, NEW what, Log(s, stage, what),
         FullLog[n + 1] = <<stage, what>>
  PROVE  /\ Begins(stage_log'[run[s]], n + 1)
         /\ LogIsPrefix(stage_log'[run[s]])
         /\ Ratified(stage_log[run[s]]) => Ratified(stage_log'[run[s]])
         /\ n = 9 => Ratified(stage_log'[run[s]])
<1>. DEFINE grown == stage_log'[run[s]]
<1>1. n + 1 <= Len(FullLog) /\ <<stage, what>> \in Entry
  BY FullLogEntry
<1>2. Appended(stage_log[run[s]], grown, n, FullLog[n + 1])
  BY <1>1, LogAppended
<1>. HIDE DEF grown
<1>3. \A k \in 1 .. n + 1 : grown[k] = FullLog[k]
  BY <1>2 DEF Appended
<1>4. Begins(grown, n + 1) /\ LogIsPrefix(grown)
  BY <1>1, <1>2, <1>3 DEF Begins, LogIsPrefix, Appended
<1>5. n = 9 => Ratified(grown)
  <2>1. SUFFICES ASSUME n = 9  PROVE Ratified(grown)
    OBVIOUS
  <2>2. Len(grown) = 10 /\ grown[10] = <<"approval", "SUCCEEDED">>
    BY <1>2, <2>1, FullLogFacts DEF Appended
  <2>. QED
    BY <2>2 DEF Ratified, Contains
<1>. QED
  BY <1>2, <1>4, <1>5 DEF grown, Appended

\* A stage fails after it was entered.
LEMMA LogFails ==
  ASSUME TypeOK, NEW s \in Sessions, run[s] \in RunIds, NEW n \in 1 .. 11,
         Begins(stage_log[run[s]], n), NEW stage, Log(s, stage, "FAILED"),
         FullLog[n + 1] = <<stage, "SUCCEEDED">>
  PROVE  /\ LogIsPrefix(stage_log'[run[s]])
         /\ Ratified(stage_log[run[s]]) => Ratified(stage_log'[run[s]])
<1>. DEFINE grown == stage_log'[run[s]]
<1>0. n \in 0 .. 11
  OBVIOUS
<1>1. n + 1 <= Len(FullLog) /\ <<stage, "SUCCEEDED">> \in Entry
  BY <1>0, FullLogEntry
<1>2. <<stage, "FAILED">> \in Entry
  BY <1>1 DEF Entry
<1>3. Appended(stage_log[run[s]], grown, n, <<stage, "FAILED">>)
  BY <1>0, <1>2, LogAppended
<1>4. FullLog[n + 1][1] = stage /\ FullLog[n + 1][2] = "SUCCEEDED"
  OBVIOUS
<1>. HIDE DEF grown
<1>5. LogIsPrefix(grown)
  BY <1>1, <1>3, <1>4 DEF LogIsPrefix, Appended
<1>. QED
  BY <1>3, <1>5 DEF grown, Appended

\* A log with every entry is the full log.
LEMMA LogIsFull ==
  ASSUME NEW log \in Seq(Entry), Begins(log, 12)
  PROVE  log = FullLog
<1>1. FullLog \in Seq(Entry) /\ Len(FullLog) = 12
  BY FullLogFacts
<1>2. Len(log) = Len(FullLog) /\ \A k \in 1 .. Len(log) : log[k] = FullLog[k]
  BY <1>1 DEF Begins
<1>. QED
  BY <1>1, <1>2, SeqEqual

\* Two phrases, one after the other.
LEMMA AppendPair ==
  ASSUME NEW a, NEW b  PROVE Append(<<a>>, b) = <<a, b>>
<1>. DEFINE S == {a, b}
            u == Append(<<a>>, b)
            v == <<a, b>>
<1>1. u \in Seq(S) /\ v \in Seq(S)
  OBVIOUS
<1>2. Len(u) = 2 /\ Len(v) = 2
  OBVIOUS
<1>3. u[1] = v[1] /\ u[2] = v[2]
  OBVIOUS
<1>4. \A i \in 1 .. Len(u) : u[i] = v[i]
  <2>1. \A i \in 1 .. 2 : i = 1 \/ i = 2
    OBVIOUS
  <2>. QED
    BY <1>2, <1>3, <2>1
<1>5. u = v
  <2>. HIDE DEF S, u, v
  <2>. QED
    BY <1>1, <1>2, <1>4, SeqEqual
<1>. QED
  BY <1>5

\* What the gates ask for, and APPROVE, is what README asks for.
LEMMA Required ==
  ASSUME NEW r \in Results
  PROVE  /\ Demand(r) = <<>> => RequiredAnswers(r) = <<"APPROVE">>
         /\ Demand(r) # <<>> => RequiredAnswers(r) = Append(Demand(r), "APPROVE")
<1>1. r.selection_status \in SelectionStatus /\ r.has_warnings \in BOOLEAN
  BY ResultAssumption DEF Result
<1>2. CASE r.selection_status = "NOT_OPTIMIZED"
  BY <1>2, AppendPair DEF RequiredAnswers, Demand
<1>3. CASE r.selection_status = "OPTIMIZED" /\ r.has_warnings
  BY <1>3, AppendPair DEF RequiredAnswers, Demand
<1>4. CASE r.selection_status = "OPTIMIZED" /\ ~r.has_warnings
  BY <1>4 DEF RequiredAnswers, Demand
<1>. QED
  BY <1>1, <1>2, <1>3, <1>4 DEF SelectionStatus

----------------------------------------------------------------------------
(* A session's own steps keep its story.                                   *)

SameMemory(s) == /\ result'[s] = result[s] /\ hash'[s] = hash[s]
                 /\ status'[s] = status[s] /\ dispatch'[s] = dispatch[s]
                 /\ answers'[s] = answers[s]
SameArtifacts == /\ candidate' = candidate /\ approved' = approved
                 /\ report_json' = report_json /\ report_md' = report_md
                 /\ rejection' = rejection /\ sent' = sent
Grown(s)      == /\ Begins(stage_log'[run[s]], Logged(s) + 1)
                 /\ LogIsPrefix(stage_log'[run[s]])
                 /\ Ratified(stage_log[run[s]]) => Ratified(stage_log'[run[s]])

\* What is known of a session that is at work.
LEMMA AtWork ==
  ASSUME TypeOK, NEW s \in Sessions, SessionInv(s), Active(s)
  PROVE  /\ Progress(s) /\ Story(s) /\ run[s] \in RunIds /\ run[s] # None
         /\ pc[s] \in PcValues /\ pc[s] = <<pc[s][1], pc[s][2]>>
BY NoneAssumption DEF SessionInv, Progress, TypeOK, PcValues

LEMMA KeepsEnter ==
  ASSUME TypeOK, NEW s \in Sessions, SessionInv(s), EnterStage(s)
  PROVE  SessionInv(s)'
<1>. DEFINE stage == pc[s][1]
<1>1. /\ pc[s][2] = "enter" /\ pc'[s] = <<stage, Body[stage]>>
      /\ run'[s] = run[s] /\ SameMemory(s) /\ SameArtifacts
      /\ Log(s, stage, "ENTERED")
  BY DEF EnterStage, TypeOK, GoTo, memory, artifacts, SameMemory, SameArtifacts
<1>2. stage \in {"load", "validate", "candidate", "report", "approval", "dispatch"}
  BY <1>1 DEF TypeOK, PcValues
<1>3. Active(s)
  BY <1>2 DEF Active
<1>4. Progress(s) /\ Story(s) /\ run[s] \in RunIds /\ run[s] # None
  BY <1>3, AtWork
<1>5. Logged(s) \in 0 .. 11 /\ FullLog[Logged(s) + 1] = <<stage, "ENTERED">>
  BY <1>1, <1>2, FullLogFacts DEF Logged
<1>6. Begins(stage_log[run[s]], Logged(s))
  BY <1>4 DEF Progress
<1>7. Grown(s)
  BY <1>1, <1>4, <1>5, <1>6, LogGrows DEF Grown
<1>8. Logged(s)' = Logged(s) + 1 /\ pc'[s][1] = stage
  BY <1>1, <1>2 DEF Logged, Body
<1>9. Story(s)'
  BY <1>1, <1>2, <1>4, <1>7
  DEF Story, Progress, Grown, SameMemory, SameArtifacts, Candidate, Report,
      Concluded, VerdictFiled, Sent, IsPending
<1>10. Progress(s)'
  BY <1>1, <1>2, <1>4, <1>7, <1>8
  DEF Progress, Grown, SameMemory, SameArtifacts, Candidate, Report, Body,
      Concluded, VerdictFiled, Sent, IsPending
<1>. QED
  BY <1>1, <1>4, <1>8, <1>9, <1>10, <1>2 DEF SessionInv

LEMMA KeepsLoad ==
  ASSUME TypeOK, NEW s \in Sessions, SessionInv(s), LoadResult(s)
  PROVE  SessionInv(s)'
<1>1. /\ pc[s] = <<"load", "read">> /\ pc'[s] = <<"load", "hash">>
      /\ run'[s] = run[s] /\ result'[s] \in Results
      /\ hash' = hash /\ status' = status /\ dispatch' = dispatch
      /\ answers' = answers /\ SameArtifacts /\ stage_log' = stage_log
  BY DEF LoadResult, TypeOK, At, GoTo, artifacts, SameArtifacts
<1>2. Progress(s) /\ Story(s) /\ run[s] \in RunIds /\ run[s] # None
  BY <1>1, AtWork DEF Active
<1>3. Story(s)'
  BY <1>1, <1>2 DEF Story, Progress, SameArtifacts, Sent
<1>4. Progress(s)'
  BY <1>1, <1>2 DEF Progress, SameArtifacts, Logged, IsPending, Sent
<1>. QED
  BY <1>1, <1>3, <1>4 DEF SessionInv

LEMMA KeepsHash ==
  ASSUME TypeOK, NEW s \in Sessions, SessionInv(s), HashResult(s)
  PROVE  SessionInv(s)'
<1>1. /\ pc[s] = <<"load", "hash">> /\ pc'[s] = <<"validate", "enter">>
      /\ run'[s] = run[s] /\ hash'[s] \in Results
      /\ result' = result /\ status' = status /\ dispatch' = dispatch
      /\ answers' = answers /\ SameArtifacts /\ Log(s, "load", "SUCCEEDED")
  BY DEF HashResult, TypeOK, At, GoTo, artifacts, SameArtifacts
<1>2. Progress(s) /\ Story(s) /\ run[s] \in RunIds /\ run[s] # None
  BY <1>1, AtWork DEF Active
<1>3. Logged(s) = 1 /\ Logged(s)' = 2
  BY <1>1 DEF Logged
<1>4. Grown(s)
  BY <1>1, <1>2, <1>3, FullLogFacts, LogGrows DEF Grown, Progress
<1>5. Story(s)'
  BY <1>1, <1>2, <1>4 DEF Story, Progress, SameArtifacts, Sent, Grown
<1>6. Progress(s)'
  BY <1>1, <1>2, <1>3, <1>4 DEF Progress, SameArtifacts, IsPending, Sent, Grown
<1>. QED
  BY <1>1, <1>5, <1>6 DEF SessionInv
LEMMA KeepsValidate ==
  ASSUME TypeOK, NEW s \in Sessions, SessionInv(s), Validate(s)
  PROVE  SessionInv(s)'
<1>1. /\ pc[s] = <<"validate", "check">>
      /\ run'[s] = run[s] /\ SameMemory(s) /\ SameArtifacts
  BY DEF Validate, TypeOK, At, memory, artifacts, SameMemory, SameArtifacts
<1>2. Progress(s) /\ Story(s) /\ run[s] \in RunIds /\ run[s] # None
  BY <1>1, AtWork DEF Active
<1>3. Logged(s) = 3 /\ Begins(stage_log[run[s]], 3)
  BY <1>1, <1>2 DEF Logged, Progress
<1>4. CASE /\ result[s].valid /\ Log(s, "validate", "SUCCEEDED")
           /\ GoTo(s, "candidate", "enter")
  <2>1. pc'[s] = <<"candidate", "enter">> /\ Logged(s)' = 4
    BY <1>4 DEF GoTo, TypeOK, Logged
  <2>2. Grown(s)
    BY <1>2, <1>3, <1>4, FullLogFacts, LogGrows DEF Grown
  <2>3. Story(s)'
    BY <1>1, <1>2, <2>2
    DEF Story, Progress, SameMemory, SameArtifacts, Sent, Grown
  <2>4. Progress(s)'
    BY <1>1, <1>2, <1>3, <1>4, <2>1, <2>2
    DEF Progress, SameMemory, SameArtifacts, IsPending, Sent, Grown
  <2>. QED
    BY <1>1, <2>1, <2>3, <2>4 DEF SessionInv
<1>5. CASE Log(s, "validate", "FAILED") /\ GoTo(s, "stopped", "failed")
  <2>1. pc'[s] = <<"stopped", "failed">>
    BY <1>5 DEF GoTo, TypeOK
  <2>2. LogIsPrefix(stage_log'[run[s]])
    BY <1>2, <1>3, <1>5, FullLogFacts, LogFails
  <2>3. Story(s)'
    BY <1>1, <1>2, <2>2
    DEF Story, Progress, SameMemory, SameArtifacts, Sent
  <2>. QED
    BY <1>1, <2>1, <2>3 DEF SessionInv, Active
<1>. QED
  BY <1>4, <1>5 DEF Validate

LEMMA KeepsCandidate ==
  ASSUME TypeOK, NEW s \in Sessions, SessionInv(s), WriteCandidate(s)
  PROVE  SessionInv(s)'
<1>1. /\ pc[s] = <<"candidate", "write">> /\ pc'[s] = <<"report", "enter">>
      /\ run'[s] = run[s] /\ SameMemory(s) /\ Log(s, "candidate", "SUCCEEDED")
      /\ approved' = approved /\ rejection' = rejection /\ sent' = sent
      /\ report_json' = report_json /\ report_md' = report_md
  BY DEF WriteCandidate, TypeOK, At, GoTo, memory, SameMemory
<1>2. Progress(s) /\ Story(s) /\ run[s] \in RunIds /\ run[s] # None
  BY <1>1, AtWork DEF Active
<1>3. Logged(s) = 5 /\ Logged(s)' = 6
  BY <1>1 DEF Logged
<1>4. Grown(s)
  BY <1>1, <1>2, <1>3, FullLogFacts, LogGrows DEF Grown, Progress
<1>5. candidate'[run[s]] = Candidate(s) /\ candidate'[run[s]] # None
  <2>1. Candidate(s) \in Config
    BY <1>1, <1>2 DEF Candidate, Config, Progress
  <2>. QED
    BY <1>2, <2>1, NoneAssumption DEF WriteCandidate, TypeOK
<1>6. Story(s)'
  BY <1>1, <1>2, <1>4, <1>5
  DEF Story, Progress, SameMemory, Sent, Grown, Candidate
<1>7. Progress(s)'
  BY <1>1, <1>2, <1>3, <1>4, <1>5
  DEF Progress, SameMemory, IsPending, Sent, Grown, Candidate, Story
<1>. QED
  BY <1>1, <1>6, <1>7 DEF SessionInv

LEMMA KeepsReport ==
  ASSUME TypeOK, NEW s \in Sessions, SessionInv(s), WriteReport(s)
  PROVE  SessionInv(s)'
<1>1. /\ pc[s][1] = "report" /\ run'[s] = run[s] /\ SameMemory(s)
      /\ candidate' = candidate
      /\ approved' = approved /\ rejection' = rejection /\ sent' = sent
  BY DEF WriteReport, At, memory, SameMemory
<1>2. Progress(s) /\ Story(s) /\ run[s] \in RunIds /\ run[s] # None
  BY <1>1, AtWork DEF Active
<1>3. /\ Report(s) \in ReportType /\ Report(s) # None
      /\ Report(s).status = "PENDING" /\ Report(s).winner = result[s]
  <2>1. result[s] \in Results /\ status[s] = "PENDING"
    BY <1>1, <1>2 DEF Progress
  <2>. QED
    BY <2>1, NoneAssumption DEF Report, ReportType, TypeOK
<1>4. CASE At(s, "report", "json")
  <2>1. /\ pc[s] = <<"report", "json">> /\ pc'[s] = <<"report", "md">>
        /\ report_json'[run[s]] = Report(s)
        /\ report_md' = report_md /\ stage_log' = stage_log
    BY <1>2, <1>4 DEF WriteReport, At, GoTo, TypeOK
  <2>2. Logged(s)' = Logged(s)
    BY <2>1 DEF Logged
  <2>3. Story(s)'
    BY <1>1, <1>2, <1>3, <2>1
    DEF Story, Progress, SameMemory, Sent, Candidate, Concluded, VerdictFiled
  <2>4. Progress(s)'
    BY <1>1, <1>2, <1>3, <2>1, <2>2
    DEF Progress, SameMemory, IsPending, Sent, Candidate
  <2>. QED
    BY <1>1, <2>1, <2>3, <2>4 DEF SessionInv
<1>5. CASE At(s, "report", "md")
  <2>1. /\ pc[s] = <<"report", "md">> /\ pc'[s] = <<"approval", "enter">>
        /\ report_md'[run[s]] = Report(s)
        /\ report_json' = report_json /\ Log(s, "report", "SUCCEEDED")
    BY <1>2, <1>5 DEF WriteReport, At, GoTo, TypeOK
  <2>2. Logged(s) = 7 /\ Logged(s)' = 8
    BY <2>1 DEF Logged
  <2>3. Grown(s)
    BY <1>2, <2>1, <2>2, FullLogFacts, LogGrows DEF Grown, Progress
  <2>4. Story(s)'
    BY <1>1, <1>2, <1>3, <2>1, <2>3
    DEF Story, Progress, SameMemory, Sent, Candidate, Grown, IsPending
  <2>5. Progress(s)'
    BY <1>1, <1>2, <1>3, <2>1, <2>2, <2>3
    DEF Progress, SameMemory, IsPending, Sent, Candidate, Grown
  <2>. QED
    BY <1>1, <2>1, <2>4, <2>5 DEF SessionInv
<1>. QED
  BY <1>4, <1>5 DEF WriteReport
\* The gates.  An answer ends the approval stage with a verdict, or another
\* question follows.
LEMMA KeepsDecide ==
  ASSUME TypeOK, NEW s \in Sessions, SessionInv(s), pc[s][1] = "approval",
         pc[s][2] # "enter", NEW verdict \in Verdicts, Decide(s, verdict),
         verdict = "APPROVED" => answers'[s] = RequiredAnswers(result[s]),
         run' = run, result' = result, hash' = hash, dispatch' = dispatch,
         SameArtifacts
  PROVE  SessionInv(s)'
<1>1. /\ pc'[s] = <<"verdict", "write">> /\ status'[s] = verdict
      /\ Log(s, "approval", "SUCCEEDED")
  BY DEF Decide, GoTo, TypeOK
<1>2. Progress(s) /\ Story(s) /\ run[s] \in RunIds /\ run[s] # None
  BY AtWork DEF Active
<1>3. Logged(s) = 9 /\ Logged(s)' = 10
  BY <1>1 DEF Logged
<1>4. Grown(s)
  BY <1>1, <1>2, <1>3, FullLogFacts, LogGrows DEF Grown, Progress
<1>5. Story(s)'
  BY <1>1, <1>2, <1>4
  DEF Story, Progress, SameArtifacts, Sent, Grown, Candidate, IsPending
<1>6. Progress(s)'
  BY <1>1, <1>2, <1>3, <1>4
  DEF Progress, SameArtifacts, IsPending, Sent, Grown, Candidate
<1>. QED
  BY <1>1, <1>5, <1>6 DEF SessionInv

LEMMA KeepsAsking ==
  ASSUME TypeOK, NEW s \in Sessions, SessionInv(s), pc[s][1] = "approval",
         pc[s][2] # "enter", NEW step \in {"reason", "approve"},
         KeepAsking(s, step),
         step = "approve" => /\ Demand(result[s]) # <<>>
                             /\ answers'[s] = Demand(result[s]),
         run' = run, result' = result, hash' = hash, dispatch' = dispatch,
         SameArtifacts
  PROVE  SessionInv(s)'
<1>1. /\ pc'[s] = <<"approval", step>> /\ status' = status
      /\ stage_log' = stage_log
  BY DEF KeepAsking, GoTo, TypeOK
<1>2. Progress(s) /\ Story(s) /\ run[s] \in RunIds /\ run[s] # None
  BY AtWork DEF Active
<1>3. Logged(s) = 9 /\ Logged(s)' = 9
  BY <1>1 DEF Logged
<1>4. Story(s)'
  BY <1>1, <1>2
  DEF Story, Progress, SameArtifacts, Sent, Candidate, IsPending
<1>5. Progress(s)'
  BY <1>1, <1>2, <1>3
  DEF Progress, SameArtifacts, IsPending, Sent, Candidate
<1>. QED
  BY <1>1, <1>4, <1>5 DEF SessionInv

LEMMA KeepsGate ==
  ASSUME TypeOK, NEW s \in Sessions, SessionInv(s), NEW phrase \in Phrases,
         AskGate(s, phrase)
  PROVE  SessionInv(s)'
<1>1. /\ pc[s] = <<"approval", "gate">> /\ Answer(s, phrase)
      /\ run' = run /\ result' = result /\ hash' = hash /\ dispatch' = dispatch
      /\ SameArtifacts
  BY DEF AskGate, At, artifacts, SameArtifacts
<1>2. Progress(s)
  BY <1>1, AtWork DEF Active
<1>3. answers[s] = <<>> /\ result[s] \in Results
  BY <1>1, <1>2 DEF Progress
<1>4. answers'[s] = <<phrase>>
  BY <1>1, <1>3 DEF Answer, TypeOK
<1>5. \A verdict \in Verdicts :
        Decide(s, verdict) /\ (verdict = "APPROVED" =>
                                 answers'[s] = RequiredAnswers(result[s]))
          => SessionInv(s)'
  BY <1>1, KeepsDecide
<1>6. \A step \in {"reason", "approve"} :
        KeepAsking(s, step) /\ (step = "approve" =>
                                  /\ Demand(result[s]) # <<>>
                                  /\ answers'[s] = Demand(result[s]))
          => SessionInv(s)'
  BY <1>1, KeepsAsking
<1>7. CASE Demand(result[s]) = <<>>
  <2>1. SecondGate(s, phrase)
    BY <1>7 DEF AskGate
  <2>2. phrase = "APPROVE" => answers'[s] = RequiredAnswers(result[s])
    BY <1>3, <1>4, <1>7, Required
  <2>. QED
    BY <1>5, <1>6, <2>1, <2>2 DEF SecondGate, Verdicts
<1>8. CASE Demand(result[s]) # <<>>
  <2>1. FirstGate(s, phrase)
    BY <1>8 DEF AskGate
  <2>2. <<phrase>> = Demand(result[s]) => answers'[s] = Demand(result[s])
    BY <1>4
  <2>. QED
    BY <1>5, <1>6, <1>8, <2>1, <2>2 DEF FirstGate, Verdicts
<1>. QED
  BY <1>7, <1>8

LEMMA KeepsApprove ==
  ASSUME TypeOK, NEW s \in Sessions, SessionInv(s), NEW phrase \in Phrases,
         AskApprove(s, phrase)
  PROVE  SessionInv(s)'
<1>1. /\ pc[s] = <<"approval", "approve">> /\ Answer(s, phrase)
      /\ SecondGate(s, phrase)
      /\ run' = run /\ result' = result /\ hash' = hash /\ dispatch' = dispatch
      /\ SameArtifacts
  BY DEF AskApprove, At, artifacts, SameArtifacts
<1>2. Progress(s)
  BY <1>1, AtWork DEF Active
<1>3. /\ result[s] \in Results /\ Demand(result[s]) # <<>>
      /\ answers[s] = Demand(result[s])
  BY <1>1, <1>2 DEF Progress
<1>4. answers'[s] = Append(Demand(result[s]), phrase)
  BY <1>1, <1>3 DEF Answer, TypeOK
<1>5. phrase = "APPROVE" => answers'[s] = RequiredAnswers(result[s])
  BY <1>3, <1>4, Required
<1>6. CASE phrase = "REJECT"
  BY <1>1, <1>6, KeepsAsking DEF SecondGate
<1>7. CASE phrase = "APPROVE"
  BY <1>1, <1>5, <1>7, KeepsDecide DEF SecondGate, Verdicts
<1>8. CASE phrase \notin {"REJECT", "APPROVE"}
  BY <1>1, <1>8, KeepsDecide DEF SecondGate, Verdicts
<1>. QED
  BY <1>6, <1>7, <1>8

LEMMA KeepsReason ==
  ASSUME TypeOK, NEW s \in Sessions, SessionInv(s), NEW reason \in Phrases,
         AskReason(s, reason)
  PROVE  SessionInv(s)'
<1>1. /\ pc[s] = <<"approval", "reason">>
      /\ Decide(s, IF reason = "EOF" THEN "NO_APPROVAL" ELSE "REJECTED")
      /\ run' = run /\ result' = result /\ hash' = hash /\ dispatch' = dispatch
      /\ SameArtifacts
  BY DEF AskReason, At, artifacts, SameArtifacts
<1>. QED
  BY <1>1, KeepsDecide DEF Verdicts
\* The verdict file.
LEMMA KeepsVerdict ==
  ASSUME TypeOK, NEW s \in Sessions, SessionInv(s), WriteVerdict(s)
  PROVE  SessionInv(s)'
<1>1. /\ pc[s] = <<"verdict", "write">> /\ pc'[s] = <<"dispatch", "enter">>
      /\ run'[s] = run[s] /\ SameMemory(s) /\ stage_log' = stage_log
      /\ candidate' = candidate /\ report_json' = report_json
      /\ report_md' = report_md /\ sent' = sent
  BY DEF WriteVerdict, TypeOK, At, GoTo, memory, SameMemory
<1>2. Progress(s) /\ Story(s) /\ run[s] \in RunIds /\ run[s] # None
  BY <1>1, AtWork DEF Active
<1>3. Logged(s) = 10 /\ Logged(s)' = 10
  BY <1>1 DEF Logged
<1>4. Ratified(stage_log[run[s]])
  <2>1. /\ Len(stage_log[run[s]]) = 10
        /\ stage_log[run[s]][10] = <<"approval", "SUCCEEDED">>
    BY <1>2, <1>3, FullLogFacts DEF Progress, Begins
  <2>. QED
    BY <2>1 DEF Ratified, Contains
<1>5. Candidate(s) \in Config /\ Candidate(s) # None
  BY <1>1, <1>2, NoneAssumption DEF Candidate, Config, Progress
<1>6. /\ status[s] \in Verdicts /\ status[s] # None
      /\ approved[run[s]] = None /\ rejection[run[s]] = None
      /\ candidate[run[s]] # None /\ report_json[run[s]] # None
      /\ ~Sent(run[s])
  BY <1>1, <1>2, NoneAssumption DEF Progress, IsPending
<1>7. IF status[s] = "APPROVED"
      THEN approved'[run[s]] = Candidate(s) /\ rejection'[run[s]] = None
      ELSE approved'[run[s]] = None /\ rejection'[run[s]] = status[s]
  BY <1>2, <1>6 DEF WriteVerdict, TypeOK
<1>8. VerdictFiled(s)'
  BY <1>1, <1>5, <1>6, <1>7 DEF VerdictFiled, SameMemory
<1>9. Story(s)'
  BY <1>1, <1>2, <1>4, <1>5, <1>6, <1>7
  DEF Story, Progress, SameMemory, Sent, Candidate, IsPending
<1>10. Progress(s)'
  BY <1>1, <1>2, <1>3, <1>8
  DEF Progress, SameMemory, IsPending, Sent, Candidate
<1>. QED
  BY <1>1, <1>9, <1>10 DEF SessionInv

\* The dispatch stage succeeds, with something sent or not.
LEMMA KeepsDispatched ==
  ASSUME TypeOK, NEW s \in Sessions, SessionInv(s),
         pc[s] = <<"dispatch", "send">>,
         NEW outcome \in {"SENT", "LOCAL_ONLY", "SKIPPED_NOT_APPROVED"},
         Dispatched(s, outcome),
         outcome # "SKIPPED_NOT_APPROVED" <=> status[s] = "APPROVED",
         IF outcome = "SENT" THEN Deliver(s) ELSE sent' = sent,
         run' = run, result' = result, hash' = hash, status' = status,
         answers' = answers, UNCHANGED artifacts
  PROVE  SessionInv(s)'
<1>1. /\ pc'[s] = <<"final", "json">> /\ dispatch'[s] = outcome
      /\ Log(s, "dispatch", "SUCCEEDED")
      /\ candidate' = candidate /\ report_json' = report_json
      /\ report_md' = report_md /\ approved' = approved /\ rejection' = rejection
  BY DEF Dispatched, GoTo, TypeOK, artifacts
<1>2. Progress(s) /\ Story(s) /\ run[s] \in RunIds /\ run[s] # None
  BY AtWork DEF Active
<1>3. Logged(s) = 11 /\ Logged(s)' = 12
  BY <1>1 DEF Logged
<1>4. Grown(s)
  BY <1>1, <1>2, <1>3, FullLogFacts, LogGrows DEF Grown, Progress
<1>5. /\ VerdictFiled(s) /\ ~Sent(run[s]) /\ status[s] # "PENDING"
      /\ IsPending(report_json[run[s]]) /\ IsPending(report_md[run[s]])
  BY <1>2 DEF Progress, Verdicts
<1>6. \A m \in sent' : m.run = run[s] =>
        outcome = "SENT" /\ m.config = approved[run[s]]
  BY <1>5 DEF Deliver, Sent
<1>7. Sent(run[s])' <=> outcome = "SENT"
  <2>1. CASE outcome = "SENT"
    <3>. DEFINE m == [run |-> run[s], config |-> approved[run[s]]]
    <3>1. m \in sent' /\ m.run = run'[s]
      BY <2>1 DEF Deliver
    <3>. QED
      BY <2>1, <3>1 DEF Sent
  <2>2. CASE outcome # "SENT"
    BY <1>6, <2>2 DEF Sent
  <2>. QED
    BY <2>1, <2>2
<1>8. Concluded(s)'
  BY <1>1, <1>5, <1>7 DEF Concluded, VerdictFiled
<1>9. Story(s)'
  <2>1. \A m \in sent' : m.run = run[s] => approved[run[s]] # None
    BY <1>5, <1>6 DEF VerdictFiled
  <2>. QED
    BY <1>1, <1>2, <1>4, <1>5, <1>6, <2>1
    DEF Story, Grown, Candidate, IsPending
<1>10. Progress(s)'
  BY <1>1, <1>2, <1>3, <1>4, <1>5, <1>8
  DEF Progress, Grown, Candidate, IsPending
<1>. QED
  BY <1>1, <1>9, <1>10 DEF SessionInv

\* The sender raises, before or after it has delivered.
LEMMA KeepsSendFailed ==
  ASSUME TypeOK, NEW s \in Sessions, SessionInv(s),
         pc[s] = <<"dispatch", "send">>, status[s] = "APPROVED",
         Deliver(s) \/ UNCHANGED sent, Log(s, "dispatch", "FAILED"),
         GoTo(s, "stopped", "failed"),
         run' = run, result' = result, hash' = hash, status' = status,
         answers' = answers, dispatch' = dispatch, UNCHANGED artifacts
  PROVE  SessionInv(s)'
<1>1. /\ pc'[s] = <<"stopped", "failed">>
      /\ candidate' = candidate /\ report_json' = report_json
      /\ report_md' = report_md /\ approved' = approved /\ rejection' = rejection
  BY DEF GoTo, TypeOK, artifacts
<1>2. Progress(s) /\ Story(s) /\ run[s] \in RunIds /\ run[s] # None
  BY AtWork DEF Active
<1>3. Begins(stage_log[run[s]], 11)
  BY <1>2 DEF Logged, Progress
<1>4. /\ LogIsPrefix(stage_log'[run[s]])
      /\ Ratified(stage_log[run[s]]) => Ratified(stage_log'[run[s]])
  BY <1>2, <1>3, FullLogFacts, LogFails
<1>5. /\ VerdictFiled(s) /\ ~Sent(run[s])
      /\ IsPending(report_json[run[s]]) /\ IsPending(report_md[run[s]])
  BY <1>2 DEF Progress
<1>6. \A m \in sent' : m.run = run[s] =>
        approved[run[s]] # None /\ m.config = approved[run[s]]
  BY <1>5 DEF Deliver, Sent, VerdictFiled
<1>7. Story(s)'
  BY <1>1, <1>2, <1>4, <1>5, <1>6 DEF Story, Candidate, IsPending
<1>. QED
  BY <1>1, <1>7 DEF SessionInv, Active

LEMMA KeepsDispatch ==
  ASSUME TypeOK, NEW s \in Sessions, SessionInv(s), Send(s) \/ DoNotSend(s)
  PROVE  SessionInv(s)'
<1>1. CASE Send(s) /\ Deliver(s) /\ Dispatched(s, "SENT")
  BY <1>1, KeepsDispatched DEF Send, At
<1>2. CASE Send(s) /\ ~(Deliver(s) /\ Dispatched(s, "SENT"))
  BY <1>2, KeepsSendFailed DEF Send, At
<1>3. CASE DoNotSend(s) /\ status[s] = "APPROVED"
  BY <1>3, KeepsDispatched DEF DoNotSend, At
<1>4. CASE DoNotSend(s) /\ status[s] # "APPROVED"
  BY <1>4, KeepsDispatched DEF DoNotSend, At
<1>. QED
  BY <1>1, <1>2, <1>3, <1>4

\* The final report replaces the pending one.
LEMMA KeepsFinal ==
  ASSUME TypeOK, NEW s \in Sessions, SessionInv(s), FinalReport(s)
  PROVE  SessionInv(s)'
<1>1. /\ pc[s][1] = "final" /\ run'[s] = run[s] /\ SameMemory(s)
      /\ candidate' = candidate /\ stage_log' = stage_log
      /\ approved' = approved /\ rejection' = rejection /\ sent' = sent
  BY DEF FinalReport, WriteFinal, At, memory, SameMemory
<1>2. Progress(s) /\ Story(s) /\ run[s] \in RunIds /\ run[s] # None
  BY <1>1, AtWork DEF Active
<1>3. /\ Report(s) \in ReportType /\ Report(s) # None
      /\ Report(s).winner = result[s] /\ Report(s)' = Report(s)
  <2>1. result[s] \in Results
    BY <1>1, <1>2 DEF Progress
  <2>. QED
    BY <1>1, <2>1, NoneAssumption DEF Report, ReportType, TypeOK, SameMemory
<1>4. Concluded(s) /\ Concluded(s)'
  BY <1>1, <1>2 DEF Progress, Concluded, VerdictFiled, Sent, SameMemory
<1>5. stage_log[run[s]] = FullLog
  <2>1. Logged(s) = 12 /\ stage_log[run[s]] \in Seq(Entry)
    BY <1>1, <1>2 DEF Logged, TypeOK
  <2>. QED
    BY <1>2, <2>1, LogIsFull DEF Progress
<1>6. CASE At(s, "final", "json")
  <2>1. /\ pc[s] = <<"final", "json">> /\ pc'[s] = <<"final", "md">>
        /\ report_json'[run[s]] = Report(s) /\ report_md' = report_md
    BY <1>2, <1>6 DEF FinalReport, WriteFinal, At, GoTo, TypeOK
  <2>2. Logged(s)' = Logged(s)
    BY <2>1 DEF Logged
  <2>3. Story(s)'
    BY <1>1, <1>2, <1>3, <1>4, <2>1
    DEF Story, Progress, SameMemory, Candidate, IsPending
  <2>4. Progress(s)'
    BY <1>1, <1>2, <1>3, <1>4, <2>1, <2>2
    DEF Progress, SameMemory, IsPending, Candidate
  <2>. QED
    BY <1>1, <2>1, <2>3, <2>4 DEF SessionInv
<1>7. CASE At(s, "final", "md")
  <2>1. /\ pc[s] = <<"final", "md">> /\ pc'[s] = <<"latest", "open">>
        /\ report_md'[run[s]] = Report(s) /\ report_json' = report_json
    BY <1>2, <1>7 DEF FinalReport, WriteFinal, At, GoTo, TypeOK
  <2>2. Logged(s)' = Logged(s)
    BY <2>1 DEF Logged
  <2>3. Story(s)'
    BY <1>1, <1>2, <1>3, <1>4, <1>5, <2>1
    DEF Story, Progress, SameMemory, Candidate, IsPending
  <2>4. Progress(s)'
    BY <1>1, <1>2, <1>3, <1>4, <2>1, <2>2
    DEF Progress, SameMemory, IsPending, Candidate
  <2>. QED
    BY <1>1, <2>1, <2>3, <2>4 DEF SessionInv
<1>. QED
  BY <1>6, <1>7 DEF FinalReport, WriteFinal
\* The pointer to the latest run; what else a session does at the end is to
\* stop, which the files do not show.
LEMMA KeepsQuiet ==
  ASSUME TypeOK, NEW s \in Sessions, SessionInv(s), Active(s),
         run'[s] = run[s], SameMemory(s), SameArtifacts, stage_log' = stage_log,
         \/ pc'[s][1] = "stopped"
         \/ pc[s][1] = "latest" /\ pc'[s][1] = "latest"
  PROVE  SessionInv(s)'
<1>1. Progress(s) /\ Story(s) /\ run[s] \in RunIds /\ run[s] # None
  BY AtWork
<1>2. Story(s)'
  BY <1>1
  DEF Story, SameMemory, SameArtifacts, Candidate, Report, Concluded,
      VerdictFiled, Sent
<1>3. CASE pc'[s][1] = "stopped"
  BY <1>2, <1>3 DEF SessionInv, Active
<1>4. CASE pc[s][1] = "latest" /\ pc'[s][1] = "latest"
  <2>1. Logged(s)' = Logged(s) /\ Logged(s) = 12
    BY <1>4 DEF Logged
  <2>2. Concluded(s)'
    BY <1>1, <1>4
    DEF Progress, SameMemory, SameArtifacts, Concluded, VerdictFiled, Sent
  <2>3. Progress(s)'
    BY <1>1, <1>4, <2>1, <2>2
    DEF Progress, SameMemory, SameArtifacts, Candidate, Report, IsPending
  <2>. QED
    BY <1>2, <1>4, <2>3 DEF SessionInv
<1>. QED
  BY <1>3, <1>4

LEMMA KeepsLatest ==
  ASSUME TypeOK, NEW s \in Sessions, SessionInv(s),
         OpenLatest(s) \/ WriteLatest(s) \/ ReplaceLatest(s)
  PROVE  SessionInv(s)'
<1>1. /\ pc[s][1] = "latest" /\ pc'[s][1] \in {"latest", "stopped"}
      /\ run'[s] = run[s] /\ SameMemory(s) /\ SameArtifacts
      /\ stage_log' = stage_log
  BY DEF OpenLatest, WriteLatest, ReplaceLatest, At, GoTo, TypeOK, memory,
         artifacts, SameMemory, SameArtifacts
<1>. QED
  BY <1>1, KeepsQuiet DEF Active

\* Failures and kills.
LEMMA KeepsFailure ==
  ASSUME TypeOK, NEW s \in Sessions, SessionInv(s),
         FailStage(s) \/ FailOutside(s) \/ Kill(s)
  PROVE  SessionInv(s)'
<1>1. /\ pc'[s][1] = "stopped"
      /\ run'[s] = run[s] /\ SameMemory(s) /\ SameArtifacts
  BY DEF FailStage, FailOutside, Kill, GoTo, TypeOK, memory, artifacts,
         SameMemory, SameArtifacts
<1>2. CASE FailStage(s)
  <2>1. Active(s)
    BY <1>2 DEF FailStage, RaisesInStage, Active
  <2>2. Progress(s) /\ Story(s) /\ run[s] \in RunIds /\ run[s] # None
    BY <2>1, AtWork
  <2>3. /\ Begins(stage_log[run[s]], Logged(s)) /\ Logged(s) \in 1 .. 11
        /\ FullLog[Logged(s) + 1] = <<pc[s][1], "SUCCEEDED">>
        /\ Log(s, pc[s][1], "FAILED")
    <3>1. /\ pc[s] \in RaisesInStage /\ Log(s, pc[s][1], "FAILED")
          /\ Begins(stage_log[run[s]], Logged(s))
      BY <1>2, <2>2 DEF FailStage, Progress
    <3>2. CASE pc[s] \in {<<"load", "read">>, <<"load", "hash">>}
      <4>1. Logged(s) = 1 /\ pc[s][1] = "load"
        BY <3>2 DEF Logged
      <4>. QED
        BY <3>1, <4>1, FullLogFacts
    <3>3. CASE pc[s] = <<"candidate", "write">>
      <4>1. Logged(s) = 5 /\ pc[s][1] = "candidate"
        BY <3>3 DEF Logged
      <4>. QED
        BY <3>1, <4>1, FullLogFacts
    <3>4. CASE pc[s] \in {<<"report", "json">>, <<"report", "md">>}
      <4>1. Logged(s) = 7 /\ pc[s][1] = "report"
        BY <3>4 DEF Logged
      <4>. QED
        BY <3>1, <4>1, FullLogFacts
    <3>. QED
      BY <3>1, <3>2, <3>3, <3>4 DEF RaisesInStage
  <2>4. /\ LogIsPrefix(stage_log'[run[s]])
        /\ Ratified(stage_log[run[s]]) => Ratified(stage_log'[run[s]])
    BY <2>2, <2>3, LogFails
  <2>5. report_md[run[s]] = None
    BY <1>2, <2>2 DEF FailStage, RaisesInStage, Progress, Story
  <2>6. Story(s)'
    BY <1>1, <2>2, <2>4, <2>5
    DEF Story, SameMemory, SameArtifacts, Candidate, Report, Concluded,
        VerdictFiled, Sent
  <2>. QED
    BY <1>1, <2>6 DEF SessionInv, Active
<1>3. CASE (FailOutside(s) \/ Kill(s)) /\ Active(s)
  <2>1. stage_log' = stage_log
    BY <1>3 DEF FailOutside, Kill
  <2>. QED
    BY <1>1, <1>3, <2>1, KeepsQuiet
<1>4. CASE (FailOutside(s) \/ Kill(s)) /\ ~Active(s)
  <2>1. pc[s][1] = "start"
    BY <1>4 DEF FailOutside, Kill, RaisesOutside, Active, Stopped
  <2>2. run'[s] = None
    BY <1>1, <2>1 DEF SessionInv
  <2>. QED
    BY <1>1, <2>2 DEF SessionInv, Active
<1>. QED
  BY <1>2, <1>3, <1>4

\* The start: the directory of a session is one that nobody has used.
LEMMA KeepsStart ==
  ASSUME TypeOK, NEW s \in Sessions, SessionInv(s), Ownership,
         NEW id \in RunIds, Start(s, id)
  PROVE  SessionInv(s)'
<1>1. /\ pc[s] = <<"start", "mkdir">> /\ SameMemory(s) /\ SameArtifacts
      /\ stage_log' = stage_log
  BY DEF Start, At, memory, artifacts, SameMemory, SameArtifacts
<1>2. /\ run[s] = None /\ answers[s] = <<>> /\ status[s] = "PENDING"
      /\ dispatch[s] = "NOT_ATTEMPTED"
  BY <1>1 DEF SessionInv
<1>3. CASE id \notin directories
  <2>1. pc'[s] = <<"load", "enter">> /\ run'[s] = id /\ id # None
    BY <1>3, NoneAssumption DEF Start, MakeDirectory, GoTo, TypeOK
  <2>2. Untouched(id)
    BY <1>3, <2>1 DEF Ownership
  <2>3. Logged(s)' = 0
    BY <2>1 DEF Logged
  <2>4. Begins(<<>>, 0) /\ LogIsPrefix(<<>>)
    BY FullLogFacts DEF Begins, LogIsPrefix
  <2>5. Story(s)'
    BY <1>1, <2>1, <2>2, <2>4 DEF Story, Untouched, SameArtifacts, Sent
  <2>6. Progress(s)'
    BY <1>1, <1>2, <2>1, <2>2, <2>3, <2>4
    DEF Progress, Untouched, SameArtifacts, SameMemory, Sent
  <2>. QED
    BY <2>1, <2>5, <2>6 DEF SessionInv
<1>4. CASE id \in directories
  <2>1. pc'[s] = <<"stopped", "failed">> /\ run'[s] = None
    BY <1>2, <1>4 DEF Start, MakeDirectory, GoTo, TypeOK
  <2>. QED
    BY <2>1 DEF SessionInv, Active
<1>. QED
  BY <1>3, <1>4

\* Every step of a session keeps what is known of it.
LEMMA OwnStep ==
  ASSUME TypeOK, NEW s \in Sessions, SessionInv(s), Ownership, Step(s)
  PROVE  SessionInv(s)'
BY KeepsStart, KeepsEnter, KeepsLoad, KeepsHash, KeepsValidate, KeepsCandidate,
   KeepsReport, KeepsGate, KeepsApprove, KeepsReason, KeepsVerdict,
   KeepsDispatch, KeepsFinal, KeepsLatest, KeepsFailure
DEF Step
----------------------------------------------------------------------------
(* Types and ownership.                                                    *)

\* The parts of TypeOK.
SessionTypes == /\ pc \in [Sessions -> PcValues]
                /\ run \in [Sessions -> Maybe(RunIds)]
                /\ result \in [Sessions -> Maybe(Results)]
                /\ hash \in [Sessions -> Maybe(Results)]
                /\ status \in [Sessions -> Statuses]
                /\ dispatch \in [Sessions -> Dispatches]
                /\ answers \in [Sessions -> Seq(Phrases)]
FileTypes == /\ candidate \in [RunIds -> Maybe(Config)]
             /\ approved \in [RunIds -> Maybe(Config)]
             /\ report_json \in [RunIds -> Maybe(ReportType)]
             /\ report_md \in [RunIds -> Maybe(ReportType)]
             /\ rejection \in [RunIds -> Maybe(Verdicts \ {"APPROVED"})]
             /\ stage_log \in [RunIds -> Seq(Entry)]
             /\ sent \subseteq [run : RunIds, config : Config]
PointerTypes == /\ inode \in Seq(LatestType \cup {Torn})
                /\ tmp_name \in Maybe(1 .. Len(inode))
                /\ latest_name \in Maybe(1 .. Len(inode))
                /\ handle \in [Sessions -> Maybe(1 .. Len(inode))]
WorldTypes == /\ sweep_file \in Results /\ rewrites \in 0 .. MaxRewrites
              /\ directories \subseteq RunIds /\ overlapped \in BOOLEAN

LEMMA TypeParts == TypeOK <=> SessionTypes /\ FileTypes /\ PointerTypes /\ WorldTypes
BY DEF TypeOK, SessionTypes, FileTypes, PointerTypes, WorldTypes

LEMMA PcTyped ==
  ASSUME SessionTypes, NEW s \in Sessions, NEW stage, NEW step,
         GoTo(s, stage, step), <<stage, step>> \in PcValues
  PROVE  pc' \in [Sessions -> PcValues]
BY DEF SessionTypes, GoTo

LEMMA LogTyped ==
  ASSUME FileTypes, NEW s \in Sessions, run[s] \in RunIds, NEW stage, NEW what,
         Log(s, stage, what), <<stage, what>> \in Entry
  PROVE  stage_log' \in [RunIds -> Seq(Entry)]
<1>. DEFINE e == <<stage, what>>
<1>1. stage_log[run[s]] \in Seq(Entry) /\ e \in Entry
  BY DEF FileTypes
<1>. HIDE DEF e
<1>2. Append(stage_log[run[s]], e) \in Seq(Entry)
  BY <1>1
<1>. QED
  BY <1>2 DEF FileTypes, Log, e

LEMMA TypeStep ==
  ASSUME TypeOK, NEW s \in Sessions, SessionInv(s), Step(s)
  PROVE  TypeOK'
<1>0. SessionTypes /\ FileTypes /\ PointerTypes /\ WorldTypes
  BY TypeParts
<1>. SUFFICES SessionTypes' /\ FileTypes' /\ PointerTypes' /\ WorldTypes'
  BY DEF TypeOK, SessionTypes, FileTypes, PointerTypes, WorldTypes
<1>. USE DEF memory, artifacts, pointer, sweep, starts
<1>20. Active(s) => run[s] \in RunIds /\ Progress(s)
  BY AtWork
<1>1. CASE \E id \in RunIds : Start(s, id)
  <2>1. pc' \in [Sessions -> PcValues]
    BY <1>0, <1>1, PcTyped
    DEF Start, PcValues, MakeDirectory
  <2>2. SessionTypes'
    BY <1>0, <1>1, <2>1
    DEF Start, SessionTypes, MakeDirectory, Maybe
  <2>3. FileTypes'
    BY <1>0, <1>1
    DEF Start, FileTypes
  <2>4. WorldTypes' /\ PointerTypes'
    BY <1>0, <1>1
    DEF Start, WorldTypes, PointerTypes, MakeDirectory
  <2>. QED
    BY <2>2, <2>3, <2>4
<1>2. CASE EnterStage(s)
  <2>1. run[s] \in RunIds /\ Progress(s)
    BY <1>0, <1>20, <1>2 DEF EnterStage, Active, SessionTypes, PcValues
  <2>2. pc' \in [Sessions -> PcValues]
    <3>1. pc[s] \in PcValues /\ pc[s][2] = "enter"
      BY <1>0, <1>2 DEF EnterStage, SessionTypes
    <3>2. <<pc[s][1], Body[pc[s][1]]>> \in PcValues
      BY <3>1 DEF PcValues, Body
    <3>. QED
      BY <1>0, <1>2, <3>2, PcTyped DEF EnterStage
  <2>3. stage_log' \in [RunIds -> Seq(Entry)]
    BY <1>0, <2>1, <1>2, LogTyped
    DEF EnterStage, Entry, SessionTypes, PcValues
  <2>4. SessionTypes'
    BY <1>0, <2>1, <1>2, <2>2
    DEF EnterStage, SessionTypes
  <2>5. FileTypes'
    BY <1>0, <2>1, <1>2, <2>3
    DEF EnterStage, FileTypes
  <2>6. WorldTypes' /\ PointerTypes'
    BY <1>0, <2>1, <1>2
    DEF EnterStage, WorldTypes, PointerTypes
  <2>. QED
    BY <2>4, <2>5, <2>6
<1>3. CASE LoadResult(s)
  <2>1. run[s] \in RunIds /\ Progress(s)
    BY <1>20, <1>3
    DEF LoadResult, At, Active
  <2>2. pc' \in [Sessions -> PcValues]
    BY <1>0, <1>3, PcTyped
    DEF LoadResult, PcValues
  <2>3. SessionTypes'
    BY <1>0, <2>1, <1>3, <2>2
    DEF LoadResult, SessionTypes, WorldTypes, Maybe
  <2>4. FileTypes'
    BY <1>0, <2>1, <1>3
    DEF LoadResult, FileTypes
  <2>5. WorldTypes' /\ PointerTypes'
    BY <1>0, <2>1, <1>3
    DEF LoadResult, WorldTypes, PointerTypes
  <2>. QED
    BY <2>3, <2>4, <2>5
<1>4. CASE HashResult(s)
  <2>1. run[s] \in RunIds /\ Progress(s)
    BY <1>20, <1>4
    DEF HashResult, At, Active
  <2>2. pc' \in [Sessions -> PcValues]
    BY <1>0, <1>4, PcTyped
    DEF HashResult, PcValues
  <2>3. stage_log' \in [RunIds -> Seq(Entry)]
    BY <1>0, <2>1, <1>4, LogTyped
    DEF HashResult, Entry
  <2>4. SessionTypes'
    BY <1>0, <2>1, <1>4, <2>2
    DEF HashResult, SessionTypes, WorldTypes, Maybe
  <2>5. FileTypes'
    BY <1>0, <2>1, <1>4, <2>3
    DEF HashResult, FileTypes
  <2>6. WorldTypes' /\ PointerTypes'
    BY <1>0, <2>1, <1>4
    DEF HashResult, WorldTypes, PointerTypes
  <2>. QED
    BY <2>4, <2>5, <2>6
<1>5. CASE Validate(s)
  <2>1. run[s] \in RunIds /\ Progress(s)
    BY <1>20, <1>5
    DEF Validate, At, Active
  <2>2. pc' \in [Sessions -> PcValues]
    BY <1>0, <1>5, PcTyped
    DEF Validate, PcValues
  <2>3. stage_log' \in [RunIds -> Seq(Entry)]
    BY <1>0, <2>1, <1>5, LogTyped
    DEF Validate, Entry
  <2>4. SessionTypes'
    BY <1>0, <2>1, <1>5, <2>2
    DEF Validate, SessionTypes
  <2>5. FileTypes'
    BY <1>0, <2>1, <1>5, <2>3
    DEF Validate, FileTypes
  <2>6. WorldTypes' /\ PointerTypes'
    BY <1>0, <2>1, <1>5
    DEF Validate, WorldTypes, PointerTypes
  <2>. QED
    BY <2>4, <2>5, <2>6
<1>6. CASE WriteCandidate(s)
  <2>1. run[s] \in RunIds /\ Progress(s)
    BY <1>20, <1>6
    DEF WriteCandidate, At, Active
  <2>2. pc' \in [Sessions -> PcValues]
    BY <1>0, <1>6, PcTyped
    DEF WriteCandidate, PcValues
  <2>3. stage_log' \in [RunIds -> Seq(Entry)]
    BY <1>0, <2>1, <1>6, LogTyped
    DEF WriteCandidate, Entry
  <2>4. SessionTypes'
    BY <1>0, <2>1, <1>6, <2>2
    DEF WriteCandidate, SessionTypes
  <2>5. FileTypes'
    <3>1. Candidate(s) \in Config
      BY <2>1, <1>6 DEF WriteCandidate, Candidate, Config, Progress, At
    <3>. QED
      BY <1>0, <2>1, <1>6, <2>3, <3>1 DEF WriteCandidate, FileTypes, Maybe
  <2>6. WorldTypes' /\ PointerTypes'
    BY <1>0, <2>1, <1>6
    DEF WriteCandidate, WorldTypes, PointerTypes
  <2>. QED
    BY <2>4, <2>5, <2>6
<1>7. CASE WriteReport(s)
  <2>1. run[s] \in RunIds /\ Progress(s)
    BY <1>20, <1>7
    DEF WriteReport, At, Active
  <2>2. pc' \in [Sessions -> PcValues]
    BY <1>0, <1>7, PcTyped
    DEF WriteReport, PcValues
  <2>3. stage_log' \in [RunIds -> Seq(Entry)]
    <3>1. stage_log' = stage_log \/ Log(s, "report", "SUCCEEDED")
      BY <1>7 DEF WriteReport
    <3>2. <<"report", "SUCCEEDED">> \in Entry
      BY DEF Entry
    <3>3. stage_log \in [RunIds -> Seq(Entry)]
      BY <1>0 DEF FileTypes
    <3>. QED
      BY <1>0, <2>1, <3>1, <3>2, <3>3, LogTyped
  <2>4. SessionTypes'
    BY <1>0, <2>1, <1>7, <2>2
    DEF WriteReport, SessionTypes
  <2>5. FileTypes'
    <3>1. Report(s) \in ReportType
      <4>1. result[s] \in Results
        BY <2>1, <1>7 DEF WriteReport, Progress, At
      <4>. QED
        BY <1>0, <4>1 DEF Report, ReportType, SessionTypes
    <3>. QED
      BY <1>0, <2>1, <1>7, <2>3, <3>1 DEF WriteReport, FileTypes, Maybe
  <2>6. WorldTypes' /\ PointerTypes'
    BY <1>0, <2>1, <1>7
    DEF WriteReport, WorldTypes, PointerTypes
  <2>. QED
    BY <2>4, <2>5, <2>6
<1>8. CASE \E phrase \in Phrases : AskGate(s, phrase)
  <2>1. run[s] \in RunIds /\ Progress(s)
    BY <1>20, <1>8
    DEF AskGate, At, Active
  <2>2. pc' \in [Sessions -> PcValues]
    BY <1>0, <1>8, PcTyped
    DEF AskGate, PcValues, FirstGate, SecondGate, KeepAsking, Decide
  <2>3. stage_log' \in [RunIds -> Seq(Entry)]
    BY <1>0, <2>1, <1>8, LogTyped
    DEF AskGate, Entry, FirstGate, SecondGate, KeepAsking, Decide,
        FileTypes
  <2>4. SessionTypes'
    <3>1. PICK phrase \in Phrases : AskGate(s, phrase)
      BY <1>8
    <3>2. Answer(s, phrase) /\ UNCHANGED <<run, result, hash, dispatch>>
      BY <3>1 DEF AskGate
    <3>3. answers' \in [Sessions -> Seq(Phrases)]
      BY <1>0, <3>2 DEF Answer, SessionTypes
    <3>4. status' \in [Sessions -> Statuses]
      BY <1>0, <3>1
      DEF AskGate, FirstGate, SecondGate, KeepAsking, Decide, SessionTypes,
          Verdicts, Statuses
    <3>. QED
      BY <1>0, <2>2, <3>2, <3>3, <3>4 DEF SessionTypes
  <2>5. FileTypes'
    BY <1>0, <2>1, <1>8, <2>3
    DEF AskGate, FileTypes
  <2>6. WorldTypes' /\ PointerTypes'
    BY <1>0, <2>1, <1>8
    DEF AskGate, WorldTypes, PointerTypes
  <2>. QED
    BY <2>4, <2>5, <2>6
<1>9. CASE \E phrase \in Phrases : AskApprove(s, phrase)
  <2>1. run[s] \in RunIds /\ Progress(s)
    BY <1>20, <1>9
    DEF AskApprove, At, Active
  <2>2. pc' \in [Sessions -> PcValues]
    BY <1>0, <1>9, PcTyped
    DEF AskApprove, PcValues, SecondGate, KeepAsking, Decide
  <2>3. stage_log' \in [RunIds -> Seq(Entry)]
    BY <1>0, <2>1, <1>9, LogTyped
    DEF AskApprove, Entry, SecondGate, KeepAsking, Decide, FileTypes
  <2>4. SessionTypes'
    <3>1. PICK phrase \in Phrases : AskApprove(s, phrase)
      BY <1>9
    <3>2. Answer(s, phrase) /\ UNCHANGED <<run, result, hash, dispatch>>
      BY <3>1 DEF AskApprove
    <3>3. answers' \in [Sessions -> Seq(Phrases)]
      BY <1>0, <3>2 DEF Answer, SessionTypes
    <3>4. status' \in [Sessions -> Statuses]
      BY <1>0, <3>1
      DEF AskApprove, SecondGate, KeepAsking, Decide, SessionTypes,
          Verdicts, Statuses
    <3>. QED
      BY <1>0, <2>2, <3>2, <3>3, <3>4 DEF SessionTypes
  <2>5. FileTypes'
    BY <1>0, <2>1, <1>9, <2>3
    DEF AskApprove, FileTypes
  <2>6. WorldTypes' /\ PointerTypes'
    BY <1>0, <2>1, <1>9
    DEF AskApprove, WorldTypes, PointerTypes
  <2>. QED
    BY <2>4, <2>5, <2>6
<1>10. CASE \E phrase \in Phrases : AskReason(s, phrase)
  <2>1. run[s] \in RunIds /\ Progress(s)
    BY <1>20, <1>10
    DEF AskReason, At, Active
  <2>2. pc' \in [Sessions -> PcValues]
    BY <1>0, <1>10, PcTyped
    DEF AskReason, PcValues, Decide
  <2>3. stage_log' \in [RunIds -> Seq(Entry)]
    BY <1>0, <2>1, <1>10, LogTyped
    DEF AskReason, Entry, Decide
  <2>4. SessionTypes'
    BY <1>0, <2>1, <1>10, <2>2
    DEF AskReason, SessionTypes, Decide, Verdicts, Statuses
  <2>5. FileTypes'
    BY <1>0, <2>1, <1>10, <2>3
    DEF AskReason, FileTypes
  <2>6. WorldTypes' /\ PointerTypes'
    BY <1>0, <2>1, <1>10
    DEF AskReason, WorldTypes, PointerTypes
  <2>. QED
    BY <2>4, <2>5, <2>6
<1>11. CASE WriteVerdict(s)
  <2>1. run[s] \in RunIds /\ Progress(s)
    BY <1>20, <1>11
    DEF WriteVerdict, At, Active
  <2>2. pc' \in [Sessions -> PcValues]
    BY <1>0, <1>11, PcTyped
    DEF WriteVerdict, PcValues
  <2>3. SessionTypes'
    BY <1>0, <2>1, <1>11, <2>2
    DEF WriteVerdict, SessionTypes
  <2>4. FileTypes'
    <3>1. Candidate(s) \in Config /\ status[s] \in Verdicts
      BY <2>1, <1>11 DEF WriteVerdict, Candidate, Config, Progress, At
    <3>. QED
      BY <1>0, <2>1, <1>11, <3>1 DEF WriteVerdict, FileTypes, Maybe
  <2>5. WorldTypes' /\ PointerTypes'
    BY <1>0, <2>1, <1>11
    DEF WriteVerdict, WorldTypes, PointerTypes
  <2>. QED
    BY <2>3, <2>4, <2>5
<1>12. CASE Send(s)
  <2>1. run[s] \in RunIds /\ Progress(s)
    BY <1>20, <1>12
    DEF Send, At, Active
  <2>2. pc' \in [Sessions -> PcValues]
    BY <1>0, <1>12, PcTyped
    DEF Send, PcValues, Dispatched
  <2>3. stage_log' \in [RunIds -> Seq(Entry)]
    BY <1>0, <2>1, <1>12, LogTyped
    DEF Send, Entry, Dispatched
  <2>4. SessionTypes'
    BY <1>0, <2>1, <1>12, <2>2
    DEF Send, SessionTypes, Dispatched, Dispatches
  <2>5. FileTypes'
    BY <1>0, <2>1, <1>12, <2>3
    DEF Send, FileTypes, Deliver, Progress, VerdictFiled, At, Maybe
  <2>6. WorldTypes' /\ PointerTypes'
    BY <1>0, <2>1, <1>12
    DEF Send, WorldTypes, PointerTypes
  <2>. QED
    BY <2>4, <2>5, <2>6
<1>13. CASE DoNotSend(s)
  <2>1. run[s] \in RunIds /\ Progress(s)
    BY <1>20, <1>13
    DEF DoNotSend, At, Active
  <2>2. pc' \in [Sessions -> PcValues]
    BY <1>0, <1>13, PcTyped
    DEF DoNotSend, PcValues, Dispatched
  <2>3. stage_log' \in [RunIds -> Seq(Entry)]
    BY <1>0, <2>1, <1>13, LogTyped
    DEF DoNotSend, Entry, Dispatched
  <2>4. SessionTypes'
    BY <1>0, <2>1, <1>13, <2>2
    DEF DoNotSend, SessionTypes, Dispatched, Dispatches
  <2>5. FileTypes'
    BY <1>0, <2>1, <1>13, <2>3
    DEF DoNotSend, FileTypes
  <2>6. WorldTypes' /\ PointerTypes'
    BY <1>0, <2>1, <1>13
    DEF DoNotSend, WorldTypes, PointerTypes
  <2>. QED
    BY <2>4, <2>5, <2>6
<1>14. CASE FinalReport(s)
  <2>1. run[s] \in RunIds /\ Progress(s)
    BY <1>20, <1>14
    DEF FinalReport, At, Active, WriteFinal
  <2>2. pc' \in [Sessions -> PcValues]
    BY <1>0, <1>14, PcTyped
    DEF FinalReport, PcValues, WriteFinal
  <2>3. SessionTypes'
    BY <1>0, <2>1, <1>14, <2>2
    DEF FinalReport, SessionTypes
  <2>4. FileTypes'
    <3>1. Report(s) \in ReportType
      <4>1. result[s] \in Results
        BY <2>1, <1>14 DEF FinalReport, WriteFinal, Progress, At
      <4>. QED
        BY <1>0, <4>1 DEF Report, ReportType, SessionTypes
    <3>. QED
      BY <1>0, <2>1, <1>14, <3>1 DEF FinalReport, FileTypes, WriteFinal, Maybe
  <2>5. WorldTypes' /\ PointerTypes'
    BY <1>0, <2>1, <1>14
    DEF FinalReport, WorldTypes, PointerTypes
  <2>. QED
    BY <2>3, <2>4, <2>5
<1>15. CASE OpenLatest(s)
  <2>1. pc' \in [Sessions -> PcValues]
    BY <1>0, <1>15, PcTyped
    DEF OpenLatest, PcValues
  <2>2. SessionTypes'
    BY <1>0, <1>15, <2>1
    DEF OpenLatest, SessionTypes
  <2>3. FileTypes'
    BY <1>0, <1>15
    DEF OpenLatest, FileTypes
  <2>4. WorldTypes' /\ PointerTypes'
    <3>1. WorldTypes'
      BY <1>0, <1>15 DEF OpenLatest, WorldTypes
    <3>2. /\ inode' \in Seq(LatestType \cup {Torn})
          /\ tmp_name' \in 1 .. Len(inode') /\ Len(inode) <= Len(inode')
      <4>1. CASE tmp_name = None
        <5>1. inode' = Append(inode, Torn) /\ tmp_name' = Len(inode) + 1
          BY <4>1, <1>15 DEF OpenLatest
        <5>2. inode \in Seq(LatestType \cup {Torn})
          BY <1>0 DEF PointerTypes
        <5>. QED
          BY <5>1, <5>2
      <4>2. CASE tmp_name # None
        <5>1. /\ inode' = [inode EXCEPT ![tmp_name] = Torn]
              /\ tmp_name' = tmp_name
          BY <4>2, <1>15 DEF OpenLatest
        <5>2. /\ inode \in Seq(LatestType \cup {Torn})
              /\ tmp_name \in 1 .. Len(inode)
          BY <1>0, <4>2 DEF PointerTypes, Maybe
        <5>. QED
          BY <5>1, <5>2
      <4>. QED
        BY <4>1, <4>2
    <3>3. /\ latest_name' = latest_name
          /\ handle' = [handle EXCEPT ![s] = tmp_name']
      BY <1>15 DEF OpenLatest
    <3>4. Len(inode) \in Nat /\ Len(inode') \in Nat
      BY <1>0, <3>2 DEF PointerTypes
    <3>5. 1 .. Len(inode) \subseteq 1 .. Len(inode')
      BY <3>2, <3>4
    <3>6. /\ latest_name' \in Maybe(1 .. Len(inode'))
          /\ handle' \in [Sessions -> Maybe(1 .. Len(inode'))]
      BY <1>0, <3>2, <3>3, <3>5 DEF PointerTypes, Maybe
    <3>. QED
      BY <3>1, <3>2, <3>6 DEF PointerTypes, Maybe
  <2>. QED
    BY <2>2, <2>3, <2>4
<1>16. CASE WriteLatest(s)
  <2>1. run[s] \in RunIds /\ Progress(s)
    BY <1>20, <1>16
    DEF WriteLatest, At, Active
  <2>2. pc' \in [Sessions -> PcValues]
    BY <1>0, <1>16, PcTyped
    DEF WriteLatest, PcValues
  <2>3. SessionTypes'
    BY <1>0, <2>1, <1>16, <2>2
    DEF WriteLatest, SessionTypes
  <2>4. FileTypes'
    BY <1>0, <2>1, <1>16
    DEF WriteLatest, FileTypes
  <2>5. WorldTypes' /\ PointerTypes'
    <3>1. Latest(s) \in LatestType
      BY <1>0, <2>1 DEF Latest, LatestType, SessionTypes
    <3>2. /\ inode' = [inode EXCEPT ![handle[s]] = Latest(s)]
          /\ inode \in Seq(LatestType \cup {Torn})
      BY <1>0, <1>16 DEF WriteLatest, PointerTypes
    <3>3. inode' \in Seq(LatestType \cup {Torn}) /\ Len(inode') = Len(inode)
      <4>1. ASSUME NEW T, NEW q \in Seq(T), NEW k, NEW v \in T
            PROVE  /\ [q EXCEPT ![k] = v] \in Seq(T)
                   /\ Len([q EXCEPT ![k] = v]) = Len(q)
        <5>1. CASE k \in 1 .. Len(q)
          BY <4>1, <5>1
        <5>2. CASE k \notin 1 .. Len(q)
          <6>1. [q EXCEPT ![k] = v] = q
            BY <4>1, <5>2
          <6>. QED
            BY <4>1, <6>1
        <5>. QED
          BY <5>1, <5>2
      <4>. DEFINE T == LatestType \cup {Torn}
                  v == Latest(s)
      <4>2. v \in T /\ inode \in Seq(T) /\ inode' = [inode EXCEPT ![handle[s]] = v]
        BY <3>1, <3>2
      <4>. HIDE DEF T, v
      <4>3. inode' \in Seq(T) /\ Len(inode') = Len(inode)
        BY <4>1, <4>2
      <4>. QED
        BY <4>3 DEF T
    <3>. QED
      BY <1>0, <1>16, <3>3 DEF WriteLatest, WorldTypes, PointerTypes
  <2>. QED
    BY <2>3, <2>4, <2>5
<1>17. CASE ReplaceLatest(s)
  <2>1. pc' \in [Sessions -> PcValues]
    BY <1>0, <1>17, PcTyped
    DEF ReplaceLatest, PcValues
  <2>2. SessionTypes'
    BY <1>0, <1>17, <2>1
    DEF ReplaceLatest, SessionTypes
  <2>3. FileTypes'
    BY <1>0, <1>17
    DEF ReplaceLatest, FileTypes
  <2>4. WorldTypes' /\ PointerTypes'
    BY <1>0, <1>17
    DEF ReplaceLatest, WorldTypes, PointerTypes, Maybe
  <2>. QED
    BY <2>2, <2>3, <2>4
<1>18. CASE FailStage(s)
  <2>1. run[s] \in RunIds /\ Progress(s)
    BY <1>20, <1>18
    DEF FailStage, At, Active, RaisesInStage
  <2>2. pc' \in [Sessions -> PcValues]
    BY <1>0, <1>18, PcTyped
    DEF FailStage, PcValues
  <2>3. stage_log' \in [RunIds -> Seq(Entry)]
    <3>1. <<pc[s][1], "FAILED">> \in Entry
      BY <1>18 DEF FailStage, Entry, RaisesInStage
    <3>. QED
      BY <1>0, <2>1, <1>18, <3>1, LogTyped DEF FailStage
  <2>4. SessionTypes'
    BY <1>0, <2>1, <1>18, <2>2
    DEF FailStage, SessionTypes
  <2>5. FileTypes'
    BY <1>0, <2>1, <1>18, <2>3
    DEF FailStage, FileTypes
  <2>6. WorldTypes' /\ PointerTypes'
    BY <1>0, <2>1, <1>18
    DEF FailStage, WorldTypes, PointerTypes
  <2>. QED
    BY <2>4, <2>5, <2>6
<1>19. CASE FailOutside(s) \/ Kill(s)
  <2>1. pc' \in [Sessions -> PcValues]
    BY <1>0, <1>19, PcTyped
    DEF FailOutside, Kill, PcValues
  <2>2. SessionTypes'
    BY <1>0, <1>19, <2>1
    DEF FailOutside, Kill, SessionTypes
  <2>3. FileTypes'
    BY <1>0, <1>19
    DEF FailOutside, Kill, FileTypes
  <2>4. WorldTypes' /\ PointerTypes'
    BY <1>0, <1>19
    DEF FailOutside, Kill, WorldTypes, PointerTypes
  <2>. QED
    BY <2>2, <2>3, <2>4
<1>. QED
  BY <1>1, <1>2, <1>3, <1>4, <1>5, <1>6, <1>7, <1>8, <1>9, <1>10, <1>11,
     <1>12, <1>13, <1>14, <1>15, <1>16, <1>17, <1>18, <1>19 DEF Step

LEMMA OwnershipStep ==
  ASSUME TypeOK, NEW s \in Sessions, SessionInv(s), Ownership, Step(s)
  PROVE  Ownership'
<1>1. OnlyOwn(s)
  BY StepOnlyOwn
<1>2. \/ run' = run /\ directories' = directories
      \/ \E id \in RunIds : /\ id \notin directories
                            /\ directories' = directories \cup {id}
                            /\ run' = [run EXCEPT ![s] = id] /\ run[s] = None
  <2>1. CASE \E id \in RunIds : Start(s, id)
    BY <2>1 DEF Start, MakeDirectory, SessionInv, At
  <2>2. CASE ~ \E id \in RunIds : Start(s, id)
    BY <2>2
    DEF Step, EnterStage, LoadResult, HashResult, Validate, WriteCandidate,
        WriteReport, AskGate, AskApprove, AskReason, WriteVerdict, Send,
        DoNotSend, FinalReport, OpenLatest, WriteLatest, ReplaceLatest,
        FailStage, FailOutside, Kill, starts
  <2>. QED
    BY <2>1, <2>2
<1>3. \A t, u \in Sessions : run'[t] = run'[u] /\ run'[t] # None => t = u
  <2>1. CASE run' = run
    BY <2>1 DEF Ownership
  <2>2. CASE \E id \in RunIds : /\ id \notin directories
                                /\ run' = [run EXCEPT ![s] = id]
    <3>1. PICK id \in RunIds : id \notin directories /\ run' = [run EXCEPT ![s] = id]
      BY <2>2
    <3>2. \A t \in Sessions : run[t] # id
      BY <3>1, NoneAssumption DEF Ownership
    <3>3. run'[s] = id /\ \A t \in Sessions \ {s} : run'[t] = run[t]
      BY <3>1 DEF TypeOK
    <3>. QED
      BY <3>2, <3>3 DEF Ownership
  <2>. QED
    BY <1>2, <2>1, <2>2
<1>4. \A t \in Sessions : run'[t] # None => run'[t] \in directories'
  BY <1>2 DEF Ownership, TypeOK
<1>5. ASSUME NEW i \in RunIds, \A t \in Sessions : run'[t] # i
      PROVE  Untouched(i)'
  <2>1. \A t \in Sessions : run[t] # i
    BY <1>2, <1>5, NoneAssumption DEF TypeOK
  <2>2. Untouched(i)
    BY <2>1 DEF Ownership
  <2>3. SameFiles(i)
    BY <1>1, <1>5 DEF OnlyOwn
  <2>. QED
    BY <2>2, <2>3 DEF Untouched, SameFiles, Sent
<1>. QED
  BY <1>3, <1>4, <1>5 DEF Ownership

----------------------------------------------------------------------------
(* latest_run.json.                                                        *)

LEMMA StepRuns ==
  ASSUME NEW s \in Sessions, Step(s), TypeOK
  PROVE  ~Stopped(s)
<1>1. SUFFICES ASSUME pc[s] \in PcValues, pc[s][1] = "stopped"  PROVE FALSE
  BY DEF Stopped, TypeOK
<1>2. \A stage, step : At(s, stage, step) => stage = "stopped"
  BY <1>1 DEF At
<1>3. pc[s][2] # "enter"
  BY <1>1 DEF PcValues
<1>4. ~ \E id \in RunIds : Start(s, id)
  BY <1>2 DEF Start
<1>5. ~EnterStage(s) /\ ~LoadResult(s) /\ ~HashResult(s) /\ ~Validate(s)
  BY <1>2, <1>3 DEF EnterStage, LoadResult, HashResult, Validate
<1>6. ~WriteCandidate(s) /\ ~WriteReport(s)
  BY <1>2 DEF WriteCandidate, WriteReport
<1>7. ~ \E phrase \in Phrases : \/ AskGate(s, phrase) \/ AskApprove(s, phrase)
                               \/ AskReason(s, phrase)
  BY <1>2 DEF AskGate, AskApprove, AskReason
<1>8. ~WriteVerdict(s) /\ ~Send(s) /\ ~DoNotSend(s) /\ ~FinalReport(s)
  BY <1>2 DEF WriteVerdict, Send, DoNotSend, FinalReport, WriteFinal
<1>9. ~OpenLatest(s) /\ ~WriteLatest(s) /\ ~ReplaceLatest(s)
  BY <1>2 DEF OpenLatest, WriteLatest, ReplaceLatest
<1>10. ~FailStage(s) /\ ~FailOutside(s) /\ ~Kill(s)
  BY <1>1 DEF FailStage, FailOutside, RaisesInStage, RaisesOutside, Kill, Stopped
<1>. QED
  BY <1>4, <1>5, <1>6, <1>7, <1>8, <1>9, <1>10 DEF Step

\* A session that has done what it is pointed at stays as it was.
LEMMA PointedStays ==
  ASSUME TypeOK, NEW s \in Sessions, Step(s), Ownership, OnlyOwn(s),
         SessionInv(s), NEW t \in Sessions, Pointed(t)
  PROVE  Pointed(t)' /\ Latest(t)' = Latest(t)
<1>1. t # s
  <2>1. pc[t] = <<"stopped", "done">>
    BY DEF Pointed
  <2>. QED
    BY <2>1, StepRuns DEF Stopped
<1>2. SameSession(t)
  BY <1>1 DEF OnlyOwn
<1>3. run'[s] # run[t]
  <2>1. Ownership'
    BY OwnershipStep
  <2>. QED
    BY <1>1, <1>2, <2>1, NoneAssumption DEF Ownership, SameSession, Pointed
<1>4. SameFiles(run[t])
  BY <1>3 DEF OnlyOwn, Pointed
<1>. QED
  BY <1>2, <1>4 DEF Pointed, SameSession, SameFiles, Report, Latest

\* The steps that have nothing to do with the pointer.
QuietStep(s) == /\ inode' = inode /\ tmp_name' = tmp_name
                /\ latest_name' = latest_name /\ handle' = handle
                /\ overlapped' = overlapped
                /\ Running(s)' => Running(s)
                /\ pc'[s] \notin {<<"latest", "write">>, <<"latest", "replace">>}

LEMMA StepKinds ==
  ASSUME TypeOK, NEW s \in Sessions, Step(s)
  PROVE  \/ \E id \in RunIds : Start(s, id)
         \/ OpenLatest(s) \/ WriteLatest(s) \/ ReplaceLatest(s)
         \/ QuietStep(s)
<1>. USE DEF TypeOK, pointer, starts, QuietStep, GoTo, At
<1>0. ~Stopped(s)
  BY StepRuns
<1>1. CASE EnterStage(s)
  <2>1. pc[s][2] = "enter" /\ pc'[s] = <<pc[s][1], Body[pc[s][1]]>>
    BY <1>1 DEF EnterStage
  <2>2. pc[s][1] \in {"load", "validate", "candidate", "report", "approval", "dispatch"}
    BY <2>1 DEF PcValues
  <2>3. pc[s][1] # "start" /\ pc'[s][1] # "latest"
    BY <2>1, <2>2
  <2>4. Running(s)
    BY <1>0, <2>3 DEF Running
  <2>. QED
    BY <1>1, <2>3, <2>4 DEF EnterStage
<1>2. CASE LoadResult(s) \/ HashResult(s) \/ Validate(s)
  BY <1>2 DEF LoadResult, HashResult, Validate, Running, Stopped
<1>3. CASE WriteCandidate(s) \/ WriteReport(s)
  BY <1>3 DEF WriteCandidate, WriteReport, Running, Stopped
<1>4. CASE \E phrase \in Phrases : \/ AskGate(s, phrase) \/ AskApprove(s, phrase)
                                  \/ AskReason(s, phrase)
  BY <1>4 DEF AskGate, AskApprove, AskReason, FirstGate, SecondGate, KeepAsking,
              Decide, Running, Stopped
<1>5. CASE WriteVerdict(s) \/ Send(s) \/ DoNotSend(s)
  <2>1. CASE WriteVerdict(s)
    BY <2>1 DEF WriteVerdict, Running, Stopped
  <2>2. CASE Send(s)
    <3>1. pc'[s] = <<"final", "json">> \/ pc'[s] = <<"stopped", "failed">>
      BY <2>2 DEF Send, Dispatched
    <3>2. pc[s] = <<"dispatch", "send">> /\ UNCHANGED <<overlapped, pointer>>
      BY <2>2 DEF Send
    <3>. QED
      BY <3>1, <3>2 DEF Running, Stopped
  <2>3. CASE DoNotSend(s)
    BY <2>3 DEF DoNotSend, Dispatched, Running, Stopped
  <2>. QED
    BY <1>5, <2>1, <2>2, <2>3
<1>6. CASE FinalReport(s)
  BY <1>6 DEF FinalReport, WriteFinal, Running, Stopped
<1>7. CASE FailStage(s) \/ FailOutside(s) \/ Kill(s)
  BY <1>7 DEF FailStage, FailOutside, Kill, Running, Stopped
<1>. QED
  BY <1>1, <1>2, <1>3, <1>4, <1>5, <1>6, <1>7 DEF Step

\* What PointerInv says of sessions that follow one another.
Alone     == \A s, t \in Sessions : Running(s) /\ Running(t) => s = t
Handling  == \A s \in Sessions :
               /\ pc[s] \in {<<"latest", "write">>, <<"latest", "replace">>} =>
                    tmp_name # None /\ handle[s] = tmp_name
               /\ pc[s] = <<"latest", "replace">> => inode[tmp_name] = Latest(s)
Announced == latest_name # None =>
               \E s \in Sessions : Pointed(s) /\ inode[latest_name] = Latest(s)

LEMMA PointerStep ==
  ASSUME TypeOK, NEW s \in Sessions, SessionInv(s), Ownership, PointerInv, Step(s)
  PROVE  PointerInv'
<1>1. OnlyOwn(s)
  BY StepOnlyOwn
<1>2. \A t \in Sessions \ {s} : SameSession(t) /\ Latest(t)' = Latest(t)
  BY <1>1 DEF OnlyOwn, SameSession, Latest
<1>3. \A t \in Sessions : Pointed(t) => Pointed(t)' /\ Latest(t)' = Latest(t)
  BY <1>1, PointedStays
<1>4. \A t \in Sessions \ {s} : Running(t)' <=> Running(t)
  BY <1>2 DEF SameSession, Running, Stopped, At
<1>5. ~overlapped => Alone /\ Handling /\ Announced
  BY DEF PointerInv, Alone, Handling, Announced
<1>6. SUFFICES /\ latest_name' # None => tmp_name' # latest_name'
               /\ ~overlapped' => Alone' /\ Handling' /\ Announced'
  BY DEF PointerInv, Alone, Handling, Announced
<1>7. latest_name # None => tmp_name # latest_name
  BY DEF PointerInv
<1>8. /\ inode \in Seq(LatestType \cup {Torn}) /\ Len(inode) \in Nat
      /\ tmp_name \in Maybe(1 .. Len(inode)) /\ latest_name \in Maybe(1 .. Len(inode))
  BY DEF TypeOK
<1>9. CASE \E id \in RunIds : Start(s, id)
  <2>1. PICK id \in RunIds : Start(s, id)
    BY <1>9
  <2>2. /\ inode' = inode /\ tmp_name' = tmp_name /\ latest_name' = latest_name
        /\ handle' = handle
        /\ overlapped' = (overlapped \/ \E t \in Sessions \ {s} : Running(t))
        /\ pc'[s] \in {<<"load", "enter">>, <<"stopped", "failed">>}
    BY <2>1 DEF Start, MakeDirectory, pointer, GoTo, TypeOK
  <2>3. SUFFICES ASSUME ~overlapped'  PROVE Alone' /\ Handling' /\ Announced'
    BY <1>7, <2>2
  <2>4. Alone'
    BY <1>4, <2>2, <2>3 DEF Alone
  <2>5. Handling'
    <3>1. Handling
      BY <1>5, <2>2, <2>3
    <3>2. pc'[s] \notin {<<"latest", "write">>, <<"latest", "replace">>}
      BY <2>2
    <3>. QED
      BY <1>2, <2>2, <3>1, <3>2 DEF Handling, SameSession
  <2>6. Announced'
    BY <1>3, <1>5, <2>2, <2>3 DEF Announced
  <2>. QED
    BY <2>4, <2>5, <2>6
<1>10. CASE QuietStep(s)
  <2>1. SUFFICES ASSUME ~overlapped'  PROVE Alone' /\ Handling' /\ Announced'
    BY <1>7, <1>10 DEF QuietStep
  <2>2. Alone'
    BY <1>4, <1>5, <1>10, <2>1 DEF Alone, QuietStep
  <2>3. Handling'
    BY <1>2, <1>5, <1>10, <2>1 DEF Handling, SameSession, QuietStep
  <2>4. Announced'
    BY <1>3, <1>5, <1>10, <2>1 DEF Announced, QuietStep
  <2>. QED
    BY <2>2, <2>3, <2>4
<1>11. CASE OpenLatest(s) \/ WriteLatest(s) \/ ReplaceLatest(s)
  <2>1. /\ overlapped' = overlapped /\ Running(s)
        /\ pc[s] \in PcValues /\ pc'[s][1] \in {"latest", "stopped"}
    BY <1>11 DEF OpenLatest, WriteLatest, ReplaceLatest, starts, At, GoTo,
                 Running, Stopped, TypeOK
  <2>2. ~overlapped => Alone'
    BY <1>4, <1>5, <2>1 DEF Alone
  <2>3. ~overlapped => \A t \in Sessions \ {s} : pc'[t][1] # "latest"
    <3>1. \A t \in Sessions : pc[t][1] = "latest" => Running(t)
      BY DEF Running, Stopped, At
    <3>. QED
      BY <1>2, <1>5, <2>1, <3>1 DEF Alone, SameSession
  <2>4. CASE OpenLatest(s)
    <3>1. /\ pc'[s] = <<"latest", "write">> /\ latest_name' = latest_name
          /\ handle'[s] = tmp_name'
      BY <2>4 DEF OpenLatest, GoTo, TypeOK
    <3>2. /\ tmp_name' \in Nat /\ (latest_name # None => tmp_name' # latest_name)
          /\ latest_name # None => inode'[latest_name] = inode[latest_name]
      <4>1. CASE tmp_name = None
        <5>1. inode' = Append(inode, Torn) /\ tmp_name' = Len(inode) + 1
          BY <2>4, <4>1 DEF OpenLatest
        <5>2. latest_name # None => latest_name \in 1 .. Len(inode)
          BY <1>8 DEF Maybe
        <5>. QED
          BY <1>8, <5>1, <5>2
      <4>2. CASE tmp_name # None
        <5>1. inode' = [inode EXCEPT ![tmp_name] = Torn] /\ tmp_name' = tmp_name
          BY <2>4, <4>2 DEF OpenLatest
        <5>2. tmp_name \in 1 .. Len(inode)
          BY <1>8, <4>2 DEF Maybe
        <5>3. latest_name # None => latest_name \in 1 .. Len(inode)
          BY <1>8 DEF Maybe
        <5>. QED
          BY <1>7, <1>8, <5>1, <5>2, <5>3
      <4>. QED
        BY <4>1, <4>2
    <3>3. tmp_name' # None
      BY <3>2, NoneAssumption
    <3>4. ~overlapped => Handling'
      BY <2>3, <3>1, <3>3 DEF Handling
    <3>5. ~overlapped => Announced'
      BY <1>3, <1>5, <3>1, <3>2 DEF Announced
    <3>. QED
      BY <2>1, <2>2, <3>1, <3>2, <3>4, <3>5
  <2>5. CASE WriteLatest(s)
    <3>1. /\ pc[s] = <<"latest", "write">> /\ pc'[s] = <<"latest", "replace">>
          /\ inode' = [inode EXCEPT ![handle[s]] = Latest(s)]
          /\ tmp_name' = tmp_name /\ latest_name' = latest_name
          /\ handle' = handle /\ Latest(s)' = Latest(s)
      BY <2>5 DEF WriteLatest, At, GoTo, TypeOK, Latest, memory
    <3>2. SUFFICES ASSUME ~overlapped  PROVE Handling' /\ Announced'
      BY <1>7, <2>1, <2>2, <3>1
    <3>3. tmp_name # None /\ handle[s] = tmp_name
      BY <1>5, <3>1, <3>2 DEF Handling
    <3>4. tmp_name \in 1 .. Len(inode)
      BY <1>8, <3>3 DEF Maybe
    <3>5. inode'[tmp_name] = Latest(s)
      <4>. HIDE DEF Latest
      <4>. QED
        BY <1>8, <3>1, <3>3, <3>4
    <3>6. latest_name # None => inode'[latest_name] = inode[latest_name]
      BY <1>7, <1>8, <3>1, <3>3 DEF Maybe
    <3>7. Handling'
      BY <2>3, <3>1, <3>2, <3>3, <3>5 DEF Handling
    <3>8. Announced'
      BY <1>3, <1>5, <3>1, <3>2, <3>6 DEF Announced
    <3>. QED
      BY <3>7, <3>8
  <2>6. CASE ReplaceLatest(s)
    <3>1. /\ pc[s] = <<"latest", "replace">> /\ inode' = inode /\ handle' = handle
          /\ Latest(s)' = Latest(s) /\ Report(s)' = Report(s)
          /\ run' = run /\ result' = result
          /\ report_json' = report_json /\ report_md' = report_md
      BY <2>6 DEF ReplaceLatest, At, Latest, Report, memory, artifacts
    <3>2. Progress(s)
      BY <3>1, AtWork DEF Active
    <3>3. CASE tmp_name # None
      <4>1. /\ latest_name' = tmp_name /\ tmp_name' = None
            /\ pc'[s] = <<"stopped", "done">>
        BY <2>6, <3>3 DEF ReplaceLatest, GoTo, TypeOK
      <4>2. Pointed(s)'
        BY <3>1, <3>2, <4>1 DEF Pointed, Progress
      <4>3. ~overlapped => inode[tmp_name] = Latest(s)
        BY <1>5, <3>1 DEF Handling
      <4>4. ~overlapped => Handling'
        BY <2>3, <4>1 DEF Handling
      <4>5. ~overlapped => Announced'
        BY <3>1, <4>1, <4>2, <4>3 DEF Announced
      <4>. QED
        BY <2>1, <2>2, <3>3, <4>1, <4>4, <4>5
    <3>4. CASE tmp_name = None
      <4>1. /\ latest_name' = latest_name /\ tmp_name' = tmp_name
        BY <2>6, <3>4 DEF ReplaceLatest
      <4>2. overlapped
        BY <1>5, <3>1, <3>4 DEF Handling
      <4>. QED
        BY <1>7, <2>1, <4>1, <4>2
    <3>. QED
      BY <3>3, <3>4
  <2>. QED
    BY <1>11, <2>4, <2>5, <2>6
<1>. QED
  BY <1>9, <1>10, <1>11, StepKinds

----------------------------------------------------------------------------
(* The invariant holds.                                                    *)

LEMMA InitInv == Init => IInv
<1>. SUFFICES ASSUME Init  PROVE IInv
  OBVIOUS
<1>1. TypeOK
  <2>1. SessionTypes
    BY DEF Init, SessionTypes, PcValues, Maybe, Statuses, Dispatches
  <2>2. FileTypes
    BY DEF Init, FileTypes, Maybe
  <2>3. PointerTypes
    <3>1. inode = <<>> /\ tmp_name = None /\ latest_name = None
      BY DEF Init
    <3>2. inode \in Seq(LatestType \cup {Torn})
      BY <3>1
    <3>3. handle \in [Sessions -> Maybe(1 .. Len(inode))]
      BY DEF Init, Maybe
    <3>. QED
      BY <3>1, <3>2, <3>3 DEF PointerTypes, Maybe
  <2>4. WorldTypes
    <3>1. rewrites \in 0 .. MaxRewrites
      BY BoundAssumption DEF Init
    <3>2. sweep_file \in Results /\ directories = {} /\ overlapped = FALSE
      BY DEF Init
    <3>. QED
      BY <3>1, <3>2, Zenon DEF WorldTypes
  <2>. QED
    BY <2>1, <2>2, <2>3, <2>4, TypeParts
<1>2. Ownership
  BY DEF Init, Ownership, Untouched, Sent
<1>3. \A s \in Sessions : SessionInv(s)
  BY DEF Init, SessionInv, Active
<1>4. PointerInv
  BY DEF Init, PointerInv, Running, At
<1>. QED
  BY <1>1, <1>2, <1>3, <1>4 DEF IInv, ApprovalInv

LEMMA NextInv == IInv /\ [Next]_vars => IInv'
<1>. SUFFICES ASSUME IInv, [Next]_vars  PROVE IInv'
  OBVIOUS
<1>1. /\ TypeOK /\ Ownership /\ PointerInv
      /\ \A s \in Sessions : SessionInv(s)
  BY DEF IInv, ApprovalInv
<1>2. ASSUME NEW s \in Sessions, Step(s)  PROVE IInv'
  <2>1. TypeOK' /\ Ownership' /\ PointerInv' /\ SessionInv(s)'
    BY <1>1, <1>2, TypeStep, OwnershipStep, PointerStep, OwnStep
  <2>2. ASSUME NEW t \in Sessions, t # s  PROVE SessionInv(t)'
    <3>1. OnlyOwn(s)
      BY <1>1, <1>2, StepOnlyOwn
    <3>2. SameSession(t)
      BY <2>2, <3>1 DEF OnlyOwn
    <3>3. run[t] # None => run[t] \in RunIds /\ run'[s] # run[t]
      BY <1>1, <2>1, <2>2, <3>2 DEF Ownership, SameSession, TypeOK, Maybe
    <3>4. run[t] # None => SameFiles(run[t])
      BY <3>1, <3>3 DEF OnlyOwn
    <3>. QED
      BY <1>1, <3>2, <3>4, OthersKeep
  <2>. QED
    BY <2>1, <2>2 DEF IInv, ApprovalInv
<1>3. ASSUME UNCHANGED <<pc, run, memory, starts, artifacts, stage_log, pointer, sent>>,
             WorldTypes'
      PROVE  IInv'
  <2>. USE <1>3 DEF memory, starts, artifacts, pointer
  <2>1. TypeOK'
    <3>1. SessionTypes' /\ FileTypes' /\ PointerTypes'
      BY <1>1, TypeParts DEF SessionTypes, FileTypes, PointerTypes
    <3>. QED
      BY <3>1 DEF TypeOK, SessionTypes, FileTypes, PointerTypes, WorldTypes
  <2>2. Ownership'
    BY <1>1 DEF Ownership, Untouched, Sent
  <2>3. \A s \in Sessions : SessionInv(s)'
    <3>1. TAKE s \in Sessions
    <3>2. SameSession(s) /\ SameFiles(run[s])
      BY DEF SameSession, SameFiles
    <3>. QED
      BY <1>1, <3>2, OthersKeep
  <2>4. PointerInv'
    BY <1>1 DEF PointerInv, Running, Stopped, At, Pointed, Latest, Report
  <2>. QED
    BY <2>1, <2>2, <2>3, <2>4 DEF IInv, ApprovalInv
<1>4. CASE RewriteSweep
  <2>1. WorldTypes'
    BY <1>1, <1>4, BoundAssumption, TypeParts DEF RewriteSweep, WorldTypes, starts
  <2>. QED
    BY <1>3, <1>4, <2>1 DEF RewriteSweep
<1>5. CASE UNCHANGED vars
  <2>1. WorldTypes'
    BY <1>1, <1>5, TypeParts DEF vars, WorldTypes, starts, sweep
  <2>. QED
    BY <1>3, <1>5, <2>1 DEF vars
<1>. QED
  BY <1>2, <1>4, <1>5 DEF Next

\* Every reachable state of the workflow satisfies the inductive invariant.
THEOREM WorkflowInvariant == Spec => []IInv
BY InitInv, NextInv, PTL DEF Spec

----------------------------------------------------------------------------
(* What follows.                                                           *)

\* Every variable of the workflow keeps its type, whatever fails or is killed.
THEOREM ApprovalTypeCorrect == Spec => []TypeOK
<1>1. IInv => TypeOK
  BY DEF IInv
<1>. QED
  BY <1>1, WorkflowInvariant, PTL

\* A directory in which something was left belongs to one session.
LEMMA Owner ==
  ASSUME IInv, NEW i \in RunIds, ~Untouched(i)
  PROVE  \E s \in Sessions : run[s] = i /\ i # None /\ Story(s)
<1>1. PICK s \in Sessions : run[s] = i
  BY DEF IInv, ApprovalInv, Ownership
<1>. QED
  BY <1>1, NoneAssumption DEF IInv, ApprovalInv, SessionInv

\* Whatever the sender delivered was validated, reported and approved with
\* every phrase its state requires (workflow.py, run_approval_workflow and
\* _approval_decision).
THEOREM DeliveriesWereApproved == Spec => []SentWasApproved
<1>1. IInv => SentWasApproved
  <2>1. SUFFICES ASSUME IInv, NEW m \in sent
                 PROVE  \E s \in Sessions :
                          /\ run[s] = m.run
                          /\ m.config.winner.valid
                          /\ answers[s] = RequiredAnswers(m.config.winner)
                          /\ report_json[m.run].winner = m.config.winner
                          /\ approved[m.run] = m.config
    BY DEF SentWasApproved
  <2>2. m.run \in RunIds /\ ~Untouched(m.run)
    BY <2>1 DEF IInv, TypeOK, Untouched, Sent
  <2>3. PICK s \in Sessions : run[s] = m.run /\ Story(s)
    BY <2>1, <2>2, Owner
  <2>. QED
    BY <2>3 DEF Story, Candidate
<1>. QED
  BY <1>1, WorkflowInvariant, PTL

\* The files a run leaves behind agree with each other, with what was sent and
\* with the log, wherever the session stopped.
THEOREM RunFilesAgree == Spec => []FilesAgree
<1>1. IInv => FinalReportAgrees
  <2>1. SUFFICES ASSUME IInv, NEW i \in RunIds,
                        report_json[i] # None, report_json[i].status # "PENDING"
                 PROVE  /\ report_json[i].status = "APPROVED" <=> approved[i] # None
                        /\ report_json[i].status # "APPROVED" <=> rejection[i] # None
                        /\ report_json[i].dispatch = "SENT" <=> Sent(i)
                        /\ report_json[i].dispatch = "LOCAL_ONLY" =>
                             report_json[i].status = "APPROVED"
    BY DEF FinalReportAgrees, Sent
  <2>2. PICK s \in Sessions : run[s] = i /\ Story(s)
    BY <2>1, Owner DEF Untouched
  <2>3. report_json[i] = Report(s) /\ Concluded(s)
    BY <2>1, <2>2 DEF Story
  <2>. QED
    BY <2>2, <2>3 DEF Story, Concluded, VerdictFiled, Report
<1>2. IInv => LogFollowsStages
  <2>1. SUFFICES ASSUME IInv, NEW i \in RunIds
                 PROVE  /\ LogIsPrefix(stage_log[i])
                        /\ approved[i] # None \/ rejection[i] # None =>
                             Ratified(stage_log[i])
                        /\ report_md[i] # None /\ report_md[i].status # "PENDING" =>
                             stage_log[i] = FullLog
    BY DEF LogFollowsStages, Ratified
  <2>2. CASE Untouched(i)
    BY <2>2, FullLogFacts DEF Untouched, LogIsPrefix
  <2>3. CASE ~Untouched(i)
    BY <2>1, <2>3, Owner DEF Story
  <2>. QED
    BY <2>2, <2>3
<1>3. IInv => FilesAgree
  BY <1>1, <1>2 DEF FilesAgree
<1>. QED
  BY <1>3, WorkflowInvariant, PTL

\* The files of a run directory tell of one session, one result and at most
\* one verdict, though sessions may read the same start time.
THEOREM OneStoryPerRun == Spec => []RunIsOneStory
<1>1. IInv => RunIsOneStory
  <2>1. SUFFICES ASSUME IInv, NEW i \in RunIds, ~Untouched(i)
                 PROVE  /\ approved[i] # None =>
                             candidate[i] = approved[i] /\ rejection[i] = None
                        /\ report_json[i] # None =>
                             report_json[i].winner = candidate[i].winner
                        /\ report_md[i] # None =>
                             report_md[i].winner = candidate[i].winner
    BY DEF RunIsOneStory, Untouched
  <2>2. PICK s \in Sessions : run[s] = i /\ Story(s)
    BY <2>1, Owner
  <2>. QED
    BY <2>2 DEF Story, Candidate
<1>. QED
  BY <1>1, WorkflowInvariant, PTL

\* latest_run.json is never torn and agrees with the final reports of the run
\* it names, when sessions do not overlap (_atomic_write_text).
THEOREM LatestIsTruthful == Spec => []LatestTruthful
<1>1. IInv => LatestTruthful
  <2>1. SUFFICES ASSUME IInv, ~overlapped, latest_name # None
                 PROVE  LET l == inode[latest_name] IN
                          /\ l # Torn
                          /\ \A report \in {report_json[l.run], report_md[l.run]} :
                               /\ report # None /\ report.status = l.status
                               /\ report.dispatch = l.dispatch
    BY DEF LatestTruthful
  <2>2. PICK s \in Sessions : Pointed(s) /\ inode[latest_name] = Latest(s)
    BY <2>1 DEF IInv, ApprovalInv, PointerInv
  <2>3. TypeOK
    BY <2>1 DEF IInv
  <2>4. Latest(s) \in LatestType /\ Report(s) \in ReportType
    BY <2>2, <2>3 DEF Pointed, Latest, LatestType, Report, ReportType, TypeOK
  <2>5. Latest(s) # Torn /\ Report(s) # None
    BY <2>4, NoneAssumption
  <2>. QED
    BY <2>2, <2>5 DEF Pointed, Latest, Report
<1>. QED
  BY <1>1, WorkflowInvariant, PTL
=============================================================================
