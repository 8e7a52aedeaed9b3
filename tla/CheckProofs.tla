------------------------------ MODULE CheckProofs ------------------------------
(***************************************************************************)
(* Proofs about a check or an action: its steps are steps of the runner,   *)
(* of the script, of the passes over the log and of the scan of /proc, so  *)
(* what holds of these holds in it; and what it makes of them.             *)
(***************************************************************************)
EXTENDS Checks, CommandProofs, FiniteSetTheorems

(* The parts of a check *)

LEMMA ChecksInitParts ==
    ChecksInit => RunnerInit /\ ScriptInit /\ LogInit /\ FilesInit
BY DEF ChecksInit

\* A script ends with 255, or as a remote command.
CodeInv == script = "exited" => rc \in Codes \cup {255}

LEMMA CodeInvariant == ScriptSpec => []CodeInv
<1>1. ScriptInit => CodeInv
  BY DEF ScriptInit, CodeInv
<1>2. CodeInv /\ [ScriptNext]_scriptVars => CodeInv'
  BY DEF CodeInv, ScriptNext, scriptVars, AppendHost, BeginScript, Unreachable, Broken, Remote,
         KillScript, After
<1> QED
  BY <1>1, <1>2, PTL DEF ScriptSpec

LEMMA RunnerPart == CodeInv /\ [ChecksNext]_checksVars => [RunnerNext]_runnerVars
<1> SUFFICES ASSUME CodeInv, [ChecksNext]_checksVars PROVE [RunnerNext]_runnerVars
  OBVIOUS
<1>1. CASE HandlerStep
  BY <1>1 DEF HandlerStep, RunCommand, StartCommand, CancelCommand, RunnerNext, Run
<1>2. CASE ShellStep
  <2>1. CASE LocalShell
    BY <2>1 DEF LocalShell, RunnerNext
  <2>2. CASE RemoteShell
    <3>1. CASE script = "exited" /\ ShellExit(rc)
      <4>1. rc \in ExitCodes
        BY <3>1, CheckAssumption DEF CodeInv
      <4> QED
        BY <3>1, <4>1 DEF RunnerNext
    <3> QED
      BY <2>2, <3>1 DEF RemoteShell
  <2>3. CASE Write \/ \E m \in 1 .. pipe : Copy(m)
    BY <2>3 DEF RunnerNext
  <2> QED
    BY <1>2, <2>1, <2>2, <2>3 DEF ShellStep
<1>3. CASE PathsStep \/ ProcessStep
  BY <1>3 DEF PathsStep, ProcessStep
<1>4. CASE Decide
  BY <1>4 DEF Decide, JudgeExec, JudgeAction, JudgeContainer, JudgeService, JudgeFailedLogs,
              BeginLogs, ContinueLogs, JudgeLogs, JudgePaths, EndSleep, Judge
<1>5. CASE GiveUpWaiting
  BY <1>5 DEF GiveUpWaiting, RunnerNext
<1>6. CASE UNCHANGED checksVars
  BY <1>6 DEF checksVars
<1> QED
  BY <1>1, <1>2, <1>3, <1>4, <1>5, <1>6 DEF ChecksNext, Proceed

LEMMA ScriptPart == [ChecksNext]_checksVars => [ScriptNext]_scriptVars
<1> SUFFICES ASSUME [ChecksNext]_checksVars PROVE [ScriptNext]_scriptVars
  OBVIOUS
<1>1. CASE HandlerStep
  BY <1>1 DEF HandlerStep, RunCommand, StartCommand, CancelCommand, ScriptNext
<1>2. CASE ShellStep
  BY <1>2 DEF ShellStep, LocalShell, RemoteShell, ScriptNext
<1>3. CASE PathsStep \/ ProcessStep \/ GiveUpWaiting
  BY <1>3 DEF PathsStep, ProcessStep, GiveUpWaiting
<1>4. CASE Decide
  BY <1>4 DEF Decide, JudgeExec, JudgeAction, JudgeContainer, JudgeService, JudgeFailedLogs,
              BeginLogs, ContinueLogs, JudgeLogs, JudgePaths, EndSleep, Judge
<1>5. CASE UNCHANGED checksVars
  BY <1>5 DEF checksVars
<1> QED
  BY <1>1, <1>2, <1>3, <1>4, <1>5 DEF ChecksNext, Proceed

LEMMA LogPart == [ChecksNext]_checksVars => [LogNext]_logVars
<1> SUFFICES ASSUME [ChecksNext]_checksVars PROVE [LogNext]_logVars
  OBVIOUS
<1>1. CASE HandlerStep \/ ShellStep \/ PathsStep \/ ProcessStep \/ GiveUpWaiting
  BY <1>1 DEF HandlerStep, ShellStep, Apart, PathsStep, ProcessStep, GiveUpWaiting
<1>2. CASE Decide
  <2>1. CASE BeginLogs
    BY <2>1 DEF BeginLogs, LogNext
  <2>2. CASE ContinueLogs
    BY <2>2 DEF ContinueLogs, LogNext
  <2> QED
    BY <1>2, <2>1, <2>2 DEF Decide, JudgeExec, JudgeAction, JudgeContainer, JudgeService,
                            JudgeFailedLogs, JudgeLogs, JudgePaths, EndSleep, Judge
<1>3. CASE UNCHANGED checksVars
  BY <1>3 DEF checksVars
<1> QED
  BY <1>1, <1>2, <1>3 DEF ChecksNext, Proceed

LEMMA FilesPart == [ChecksNext]_checksVars => [FilesNext]_filesVars
<1> SUFFICES ASSUME [ChecksNext]_checksVars PROVE [FilesNext]_filesVars
  OBVIOUS
<1>1. CASE PathsStep \/ ProcessStep
  BY <1>1 DEF PathsStep, ProcessStep, FilesNext
<1>2. CASE HandlerStep \/ ShellStep \/ GiveUpWaiting
  BY <1>2 DEF HandlerStep, ShellStep, Apart, GiveUpWaiting
<1>3. CASE Decide
  BY <1>3 DEF Decide, JudgeExec, JudgeAction, JudgeContainer, JudgeService, JudgeFailedLogs,
              BeginLogs, ContinueLogs, JudgeLogs, JudgePaths, EndSleep, Judge
<1>4. CASE UNCHANGED checksVars
  BY <1>4 DEF checksVars
<1> QED
  BY <1>1, <1>2, <1>3, <1>4 DEF ChecksNext, Proceed

\* A check or an action runs its command as Run and the script do alone, whatever
\* the handler does with it, and reads the log and /proc as they are read alone.
THEOREM CheckIsComposed == ChecksSpec => RunnerSpec /\ ScriptSpec /\ LogSpec /\ FilesSpec
<1>1. ChecksSpec => ScriptSpec
  BY ChecksInitParts, ScriptPart, PTL DEF ChecksSpec, ScriptSpec
<1>2. ChecksSpec => RunnerSpec
  BY <1>1, ChecksInitParts, CodeInvariant, RunnerPart, PTL DEF ChecksSpec, RunnerSpec
<1>3. ChecksSpec => LogSpec
  BY ChecksInitParts, LogPart, PTL DEF ChecksSpec, LogSpec
<1>4. ChecksSpec => FilesSpec
  BY ChecksInitParts, FilesPart, PTL DEF ChecksSpec, FilesSpec
<1> QED
  BY <1>1, <1>2, <1>3, <1>4

-----------------------------------------------------------------------------
(* The log *)

\* What the passes know of the lines before the k-th, of all that can be read
\* once they are over
Before == 1 .. k - 1

FailuresIn(S) == {m \in S : "line" \in log[m].failure}
ValuesIn(S) == {log[m].value : m \in S} \ {NoValue}

\* last is the time of the latest line in S, or 0.
Latest(last, S) ==
    /\ \A m \in S : log[m].at <= last
    /\ last # 0 => \E m \in S : log[m].at = last

DatedIn(S) ==
    /\ Latest(lastFailure, {m \in S : "message" \in log[m].failure})
    /\ Latest(lastSuccess, {m \in S : "message" \in log[m].success})

PassInv ==
    /\ \A m \in Before : ~log[m].long
    /\ pass = "waiting" => k = 1
    /\ count = Cardinality(FailuresIn(IF pass \in {"waiting", "count"} THEN Before ELSE Readable))
    /\ distinct = (IF pass \in {"waiting", "count"} THEN {}
                   ELSE ValuesIn(IF pass = "distinct" THEN Before ELSE Readable))
    /\ pass \in {"waiting", "count", "distinct"} \/ ~rules.success => lastFailure = 0 /\ lastSuccess = 0
    /\ pass = "timeline" => rules.success /\ DatedIn(Before)
    /\ pass = "over" /\ rules.success => DatedIn(Readable)

LogInv == LogTypeOK /\ PassInv

-----------------------------------------------------------------------------

LEMMA LogType ==
    ASSUME LogTypeOK
    PROVE  /\ log \in Seq(Lines) /\ Len(log) \in Nat /\ DOMAIN log = 1 .. Len(log)
           /\ k \in 1 .. Len(log) + 1 /\ Before \subseteq DOMAIN log
           /\ \A m \in DOMAIN log : log[m] \in Lines
<1>1. log \in Seq(Lines)
  <2>1. <<>> \in Seq(Lines)
    OBVIOUS
  <2>2. Logs \subseteq Seq(Lines)
    BY LogAssumption
  <2> QED
    BY <2>1, <2>2, Zenon DEF LogTypeOK
<1>2. k \in 1 .. Len(log) + 1
  BY DEF LogTypeOK
<1> QED
  BY <1>1, <1>2 DEF Before

LEMMA ReadableIsBefore ==
    ASSUME LogInv, ~AtLine
    PROVE  Readable = Before
<1>1. /\ Len(log) \in Nat /\ DOMAIN log = 1 .. Len(log) /\ k \in 1 .. Len(log) + 1
      /\ \A m \in Before : ~log[m].long
  BY LogType DEF LogInv, PassInv
<1>2. ASSUME NEW m \in Before PROVE m \in Readable
  BY <1>1, <1>2 DEF Readable, Before
<1>3. ASSUME NEW m \in Readable, m \notin Before PROVE FALSE
  <2>1. m \in DOMAIN log /\ k <= m /\ \A l \in 1 .. m : ~log[l].long
    BY <1>1, <1>3 DEF Readable, Before
  <2>2. k \in DOMAIN log /\ ~log[k].long
    BY <1>1, <2>1
  <2> QED
    BY <2>2 DEF AtLine
<1> QED
  BY <1>2, <1>3

\* What one more line adds to what a pass knows
LEMMA OneMoreLine ==
    ASSUME LogInv, AtLine, k' = k + 1, log' = log
    PROVE  /\ Before' = Before \cup {k} /\ k \notin Before /\ k \in DOMAIN log
           /\ k' \in 1 .. Len(log) + 1
           /\ \A m \in Before' : ~log[m].long
<1>1. /\ Len(log) \in Nat /\ DOMAIN log = 1 .. Len(log) /\ k \in 1 .. Len(log)
      /\ ~log[k].long /\ \A m \in Before : ~log[m].long
  BY LogType DEF LogInv, PassInv, AtLine
<1>2. Before' = Before \cup {k} /\ k \notin Before
  BY <1>1 DEF Before
<1> QED
  BY <1>1, <1>2

LEMMA CountLineStep ==
    ASSUME LogInv, CountLine
    PROVE  LogInv'
<1>1. /\ Before' = Before \cup {k} /\ k \notin Before /\ k \in DOMAIN log
      /\ k' \in 1 .. Len(log) + 1 /\ \A m \in Before' : ~log[m].long
  BY OneMoreLine DEF CountLine
<1>2. /\ Before \subseteq DOMAIN log /\ Len(log) \in Nat /\ DOMAIN log = 1 .. Len(log)
      /\ k \in 1 .. Len(log) + 1
  BY LogType DEF LogInv
<1>3. IsFiniteSet(FailuresIn(Before)) /\ Cardinality(FailuresIn(Before)) \in 0 .. k - 1
  <2>1. IsFiniteSet(1 .. k - 1) /\ Cardinality(1 .. k - 1) = k - 1
    <3>1. 1 \in Int /\ k - 1 \in Int /\ (1 > k - 1 => k - 1 = 0) /\ k - 1 - 1 + 1 = k - 1
      BY <1>2
    <3>2. IsFiniteSet(1 .. k - 1)
      BY <3>1, FS_Interval
    <3>3. Cardinality(1 .. k - 1) = IF 1 > k - 1 THEN 0 ELSE k - 1 - 1 + 1
      BY <3>1, FS_Interval, Zenon
    <3> QED
      BY <3>1, <3>2, <3>3
  <2>2. FailuresIn(Before) \subseteq 1 .. k - 1
    BY DEF FailuresIn, Before
  <2>3. /\ IsFiniteSet(FailuresIn(Before)) /\ Cardinality(FailuresIn(Before)) \in Nat
        /\ Cardinality(FailuresIn(Before)) <= k - 1
    BY <2>1, <2>2, FS_Subset, FS_CardinalityType
  <2> QED
    BY <1>2, <2>3
<1>4. pass = "count" /\ pass' = "count" /\ log' = log /\ rules' = rules
  BY DEF CountLine
<1>5. count = Cardinality(FailuresIn(Before))
  BY <1>4 DEF LogInv, PassInv
<1>6. count' = Cardinality(FailuresIn(Before)') /\ count' \in 0 .. Len(log)
  <2>1. CASE "line" \in log[k].failure
    <3>1. FailuresIn(Before)' = FailuresIn(Before) \cup {k} /\ k \notin FailuresIn(Before)
      BY <1>1, <1>4, <2>1 DEF FailuresIn
    <3>2. Cardinality(FailuresIn(Before) \cup {k}) = Cardinality(FailuresIn(Before)) + 1
      BY <1>3, <3>1, FS_AddElement
    <3>3. count' = count + 1
      BY <2>1 DEF CountLine
    <3>4. k <= Len(log)
      BY <1>1, <1>2
    <3> QED
      BY <1>2, <1>3, <1>5, <3>1, <3>2, <3>3, <3>4
  <2>2. CASE "line" \notin log[k].failure
    <3>1. FailuresIn(Before)' = FailuresIn(Before)
      BY <1>1, <1>4, <2>2 DEF FailuresIn
    <3>2. count' = count + 0
      BY <2>2 DEF CountLine
    <3> QED
      BY <1>2, <1>3, <1>5, <3>1, <3>2
  <2> QED
    BY <2>1, <2>2
<1>7. LogTypeOK'
  BY <1>1, <1>4, <1>6 DEF LogInv, LogTypeOK, CountLine
<1>8. PassInv'
  BY <1>1, <1>4, <1>6 DEF LogInv, PassInv, CountLine
<1> QED
  BY <1>7, <1>8 DEF LogInv

LEMMA CollectValueStep ==
    ASSUME LogInv, CollectValue
    PROVE  LogInv'
<1>1. /\ Before' = Before \cup {k} /\ k \in DOMAIN log
      /\ k' \in 1 .. Len(log) + 1 /\ \A m \in Before' : ~log[m].long
  BY OneMoreLine DEF CollectValue
<1>2. /\ pass = "distinct" /\ pass' = "distinct" /\ log' = log /\ rules' = rules /\ count' = count
      /\ lastFailure' = lastFailure /\ lastSuccess' = lastSuccess
  BY DEF CollectValue
<1>3. distinct' = ValuesIn(Before)'
  <2>1. distinct = ValuesIn(Before)
    BY <1>2 DEF LogInv, PassInv
  <2>2. distinct' = distinct \cup ({log[k].value} \ {NoValue})
    BY DEF CollectValue
  <2> QED
    BY <1>1, <1>2, <2>1, <2>2 DEF ValuesIn
<1>4. distinct' \in SUBSET Values
  <2>1. log[k] \in Lines
    BY <1>1, LogType DEF LogInv
  <2>2. log[k].value \in Values \cup {NoValue}
    BY <2>1 DEF Lines
  <2> QED
    BY <2>2 DEF CollectValue, LogInv, LogTypeOK
<1>5. Readable' = Readable
  BY <1>2 DEF Readable
<1>6. FailuresIn(Readable)' = FailuresIn(Readable)
  BY <1>2, <1>5 DEF FailuresIn
<1>7. LogTypeOK'
  BY <1>1, <1>2, <1>4 DEF LogInv, LogTypeOK
<1>8. PassInv'
  BY <1>1, <1>2, <1>3, <1>6 DEF LogInv, PassInv
<1> QED
  BY <1>7, <1>8 DEF LogInv

\* One line more, for the latest time of either kind
LEMMA LaterStep ==
    ASSUME NEW S, NEW T, NEW matches, NEW last \in Nat,
           log[k].at \in Nat, \A m \in S : log[m].at \in Nat,
           T = IF "message" \in matches THEN S \cup {k} ELSE S,
           Latest(last, S)
    PROVE  Later(matches, last) \in Nat /\ Latest(Later(matches, last), T)
<1>1. CASE "message" \in matches /\ log[k].at > last
  BY <1>1 DEF Later, Latest
<1>2. CASE "message" \in matches /\ ~(log[k].at > last)
  BY <1>2 DEF Later, Latest
<1>3. CASE "message" \notin matches
  BY <1>3 DEF Later, Latest
<1> QED
  BY <1>1, <1>2, <1>3

LEMMA DateLineStep ==
    ASSUME LogInv, DateLine
    PROVE  LogInv'
<1>1. /\ Before' = Before \cup {k} /\ k \in DOMAIN log
      /\ k' \in 1 .. Len(log) + 1 /\ \A m \in Before' : ~log[m].long
  BY OneMoreLine DEF DateLine
<1>2. /\ pass = "timeline" /\ pass' = "timeline" /\ log' = log /\ rules' = rules
      /\ count' = count /\ distinct' = distinct
      /\ lastFailure' = Later(log[k].failure, lastFailure)
      /\ lastSuccess' = Later(log[k].success, lastSuccess)
  BY DEF DateLine
<1>3. /\ Before \subseteq DOMAIN log
      /\ \A m \in DOMAIN log : log[m].at \in Nat
  BY LogType DEF LogInv, Lines
<1>4. /\ lastFailure \in Nat /\ lastSuccess \in Nat
      /\ Latest(lastFailure, {m \in Before : "message" \in log[m].failure})
      /\ Latest(lastSuccess, {m \in Before : "message" \in log[m].success})
  BY <1>2 DEF LogInv, LogTypeOK, PassInv, DatedIn
<1>5. /\ lastFailure' \in Nat
      /\ Latest(lastFailure', {m \in Before' : "message" \in log[m].failure})
  <2>1. {m \in Before' : "message" \in log[m].failure} =
           IF "message" \in log[k].failure THEN {m \in Before : "message" \in log[m].failure} \cup {k}
           ELSE {m \in Before : "message" \in log[m].failure}
    BY <1>1
  <2> QED
    BY <1>1, <1>2, <1>3, <1>4, <2>1, LaterStep
<1>6. /\ lastSuccess' \in Nat
      /\ Latest(lastSuccess', {m \in Before' : "message" \in log[m].success})
  <2>1. {m \in Before' : "message" \in log[m].success} =
           IF "message" \in log[k].success THEN {m \in Before : "message" \in log[m].success} \cup {k}
           ELSE {m \in Before : "message" \in log[m].success}
    BY <1>1
  <2> QED
    BY <1>1, <1>2, <1>3, <1>4, <2>1, LaterStep
<1>7. DatedIn(Before)'
  BY <1>2, <1>5, <1>6 DEF DatedIn, Latest
<1>8. FailuresIn(Readable)' = FailuresIn(Readable) /\ ValuesIn(Readable)' = ValuesIn(Readable)
  BY <1>2 DEF Readable, FailuresIn, ValuesIn
<1>9. rules.success
  BY <1>2 DEF LogInv, PassInv
<1>10. LogTypeOK'
  BY <1>1, <1>2, <1>5, <1>6 DEF LogInv, LogTypeOK
<1>11. PassInv'
  BY <1>1, <1>2, <1>7, <1>8, <1>9 DEF LogInv, PassInv
<1> QED
  BY <1>10, <1>11 DEF LogInv

LEMMA NextPassStep ==
    ASSUME LogInv, NextPass
    PROVE  LogInv'
<1>1. /\ k' = 1 /\ log' = log /\ rules' = rules /\ count' = count /\ distinct' = distinct
      /\ lastFailure' = lastFailure /\ lastSuccess' = lastSuccess
      /\ pass \in {"count", "distinct", "timeline"}
  BY DEF NextPass, LogInv, LogTypeOK, Passes
<1>2. pass' = IF pass = "count" THEN "distinct"
              ELSE IF pass = "distinct" /\ rules.success THEN "timeline" ELSE "over"
  BY DEF NextPass
<1>3. Before' = {} /\ Readable' = Readable
  BY <1>1 DEF Before, Readable
<1>4. Readable = Before
  BY ReadableIsBefore DEF NextPass
<1>5. /\ FailuresIn(Readable)' = FailuresIn(Readable) /\ ValuesIn(Readable)' = ValuesIn(Readable)
      /\ ValuesIn(Before)' = {} /\ DatedIn(Readable)' = DatedIn(Readable)
  BY <1>1, <1>3 DEF FailuresIn, ValuesIn, DatedIn, Latest
<1>6. LogTypeOK'
  <2>1. 1 \in 1 .. Len(log) + 1
    BY LogType DEF LogInv
  <2>2. pass' \in Passes
    BY <1>2 DEF Passes
  <2> QED
    BY <1>1, <2>1, <2>2 DEF LogInv, LogTypeOK
<1>7. \A m \in Before' : ~log'[m].long
  BY <1>3
<1>8. CASE pass = "count"
  <2>1. pass' = "distinct" /\ count = Cardinality(FailuresIn(Before)) /\ distinct = {}
        /\ lastFailure = 0 /\ lastSuccess = 0
    BY <1>2, <1>8 DEF LogInv, PassInv
  <2> QED
    BY <1>1, <1>4, <1>5, <1>6, <1>7, <2>1 DEF LogInv, PassInv
<1>9. CASE pass = "distinct"
  <2>1. /\ count = Cardinality(FailuresIn(Readable)) /\ distinct = ValuesIn(Before)
        /\ lastFailure = 0 /\ lastSuccess = 0
    BY <1>9 DEF LogInv, PassInv
  <2>2. CASE rules.success
    <3>1. pass' = "timeline" /\ DatedIn(Before)'
      BY <1>1, <1>2, <1>3, <1>9, <2>1, <2>2 DEF DatedIn, Latest
    <3> QED
      BY <1>1, <1>4, <1>5, <1>6, <1>7, <2>1, <2>2, <3>1 DEF LogInv, PassInv
  <2>3. CASE ~rules.success
    <3>1. pass' = "over"
      BY <1>2, <1>9, <2>3
    <3> QED
      BY <1>1, <1>4, <1>5, <1>6, <1>7, <2>1, <2>3, <3>1 DEF LogInv, PassInv
  <2> QED
    BY <2>2, <2>3
<1>10. CASE pass = "timeline"
  <2>1. /\ count = Cardinality(FailuresIn(Readable)) /\ distinct = ValuesIn(Readable)
        /\ rules.success /\ DatedIn(Before)
    BY <1>10 DEF LogInv, PassInv
  <2>2. pass' = "over"
    BY <1>2, <1>10
  <2> QED
    BY <1>1, <1>4, <1>5, <1>6, <1>7, <2>1, <2>2 DEF LogInv, PassInv
<1> QED
  BY <1>1, <1>8, <1>9, <1>10

LEMMA ReadLogStep ==
    ASSUME LogInv, NEW r \in Rules, NEW t \in Logs, ReadLog(r, t)
    PROVE  LogInv'
<1>1. /\ pass = "waiting" /\ pass' = "count" /\ k = 1 /\ k' = 1 /\ log' = t /\ rules' = r
      /\ count' = count /\ distinct' = distinct /\ lastFailure' = 0 /\ lastSuccess' = 0
      /\ lastFailure = 0 /\ lastSuccess = 0 /\ distinct = {} /\ count = Cardinality(FailuresIn(Before))
  BY DEF ReadLog, LogInv, PassInv
<1>2. Before = {} /\ Before' = {}
  BY <1>1 DEF Before
<1>3. FailuresIn(Before) = {} /\ FailuresIn(Before)' = {} /\ count = 0
  BY <1>1, <1>2, FS_EmptySet DEF FailuresIn
<1>4. Len(t) \in Nat
  BY LogAssumption
<1>5. LogTypeOK'
  BY <1>1, <1>3, <1>4 DEF LogTypeOK, Passes
<1>6. PassInv'
  BY <1>1, <1>2, <1>3 DEF PassInv
<1> QED
  BY <1>5, <1>6 DEF LogInv

LEMMA LogInvariant == LogSpec => []LogInv
<1>1. LogInit => LogInv
  <2> SUFFICES ASSUME LogInit PROVE LogInv
    OBVIOUS
  <2>1. Before = {} /\ FailuresIn(Before) = {}
    BY DEF LogInit, Before, FailuresIn
  <2>2. LogTypeOK
    BY DEF LogInit, LogTypeOK, Passes
  <2>3. PassInv
    BY <2>1, FS_EmptySet DEF LogInit, PassInv
  <2> QED
    BY <2>2, <2>3 DEF LogInv
<1>2. LogInv /\ [LogNext]_logVars => LogInv'
  <2> SUFFICES ASSUME LogInv, [LogNext]_logVars PROVE LogInv'
    OBVIOUS
  <2>1. CASE ScanLog
    BY <2>1, CountLineStep, CollectValueStep, DateLineStep, NextPassStep DEF ScanLog
  <2>2. CASE \E r \in Rules, t \in Logs : ReadLog(r, t)
    BY <2>2, ReadLogStep
  <2>3. CASE UNCHANGED logVars
    <3>1. /\ UNCHANGED <<rules, log, pass, k, count, distinct, lastFailure, lastSuccess>>
          /\ Before' = Before /\ Readable' = Readable
      BY <2>3 DEF logVars, Before, Readable
    <3>2. LogTypeOK'
      BY <3>1 DEF LogInv, LogTypeOK
    <3>3. PassInv'
      BY <3>1 DEF LogInv, PassInv, FailuresIn, ValuesIn, DatedIn, Latest
    <3> QED
      BY <3>2, <3>3 DEF LogInv
  <2> QED
    BY <2>1, <2>2, <2>3 DEF LogNext
<1> QED
  BY <1>1, <1>2, PTL DEF LogSpec

LEMMA VerdictFromPasses == LogInv => LogVerdictIsRight
<1> SUFFICES ASSUME LogInv, pass = "over"
             PROVE  ~LogPasses <=> /\ Cardinality(Failures) >= Threshold
                                   /\ ~Overridden
                                   /\ rules.distinct > 0 => Cardinality(Captured) >= rules.distinct
  BY DEF LogVerdictIsRight
<1>1. count = Cardinality(Failures) /\ distinct = Captured
  BY DEF LogInv, PassInv, FailuresIn, ValuesIn, Failures, Captured
<1>2. /\ \A m \in Readable : log[m].at \in Nat
      /\ lastFailure \in Nat /\ lastSuccess \in Nat
  BY LogType DEF LogInv, LogTypeOK, Lines, Readable
<1>3. Overridden <=> lastSuccess # 0 /\ lastSuccess > lastFailure
  <2>1. CASE ~rules.success
    BY <2>1 DEF LogInv, PassInv, Overridden
  <2>2. CASE rules.success
    <3>1. /\ Latest(lastFailure, {m \in Readable : "message" \in log[m].failure})
          /\ Latest(lastSuccess, {m \in Readable : "message" \in log[m].success})
      BY <2>2 DEF LogInv, PassInv, DatedIn
    <3>2. ASSUME Overridden PROVE lastSuccess # 0 /\ lastSuccess > lastFailure
      <4>1. PICK l \in Readable :
              /\ "message" \in log[l].success /\ log[l].at > 0
              /\ \A m \in Readable : "message" \in log[m].failure => log[m].at < log[l].at
        BY <3>2 DEF Overridden
      <4>2. log[l].at <= lastSuccess
        BY <3>1, <4>1 DEF Latest
      <4>3. lastFailure = 0 \/ lastFailure < log[l].at
        BY <3>1, <4>1 DEF Latest
      <4> QED
        BY <1>2, <4>1, <4>2, <4>3
    <3>3. ASSUME lastSuccess # 0, lastSuccess > lastFailure PROVE Overridden
      <4>1. PICK l \in Readable : "message" \in log[l].success /\ log[l].at = lastSuccess
        BY <3>1, <3>3 DEF Latest
      <4>2. \A m \in Readable : "message" \in log[m].failure => log[m].at < log[l].at
        BY <1>2, <3>1, <3>3, <4>1 DEF Latest
      <4> QED
        BY <1>2, <2>2, <3>3, <4>1, <4>2 DEF Overridden
    <3> QED
      BY <3>2, <3>3
  <2> QED
    BY <2>1, <2>2
<1>4. count \in Nat /\ Cardinality(distinct) \in Nat /\ Threshold \in Nat /\ rules.distinct \in Nat
  <2>1. rules \in [count : Nat, distinct : Nat, success : BOOLEAN]
    <3>1. NoRules \in [count : Nat, distinct : Nat, success : BOOLEAN]
      BY DEF NoRules
    <3>2. Rules \subseteq [count : Nat, distinct : Nat, success : BOOLEAN]
      BY LogAssumption
    <3> QED
      BY <3>1, <3>2, Zenon DEF LogInv, LogTypeOK
  <2>2. count \in Nat
    BY LogType DEF LogInv, LogTypeOK
  <2>3. IsFiniteSet(Readable)
    <3>1. IsFiniteSet(1 .. Len(log))
      BY LogType, FS_Interval DEF LogInv
    <3> QED
      BY <3>1, LogType, FS_Subset DEF LogInv, Readable
  <2>4. IsFiniteSet({log[m].value : m \in Readable})
    <3> DEFINE T == {log[m].value : m \in Readable}
               f == [m \in Readable |-> log[m].value]
    <3>1. f \in Surjection(Readable, T)
      BY DEF Surjection
    <3> QED
      BY <2>3, <3>1, FS_Surjection DEF ExistsSurjection
  <2>5. IsFiniteSet(distinct)
    BY <1>1, <2>4, FS_Subset DEF Captured
  <2> QED
    BY <2>1, <2>2, <2>5, FS_CardinalityType DEF Threshold
<1> QED
  BY <1>1, <1>3, <1>4 DEF LogPasses

\* The verdict over a log is right, for any log, any patterns and any thresholds.
THEOREM LogVerdictCorrect == ChecksSpec => []LogVerdictIsRight
BY CheckIsComposed, LogInvariant, VerdictFromPasses, PTL

-----------------------------------------------------------------------------
(* The scan of /proc *)

Scanning == step \in {"look", "follow", "cmdline", "comm"}

\* Who has held the path all the time holds it now, and waits to be looked at,
\* is being looked at, or has been found.
SteadyInv ==
    Scanning =>
        /\ n \in DOMAIN paths
        /\ \A p \in steady :
             /\ Alive(p) /\ Holds(p)
             /\ \/ p \in listed
                \/ p = cur /\ step \in {"follow", "cmdline"}
                \/ \E o \in found \cap guests : o.pid = p

\* Who is found had the path, or his number has changed hands or programs since.
Justified(o) ==
    /\ \E g \in guests : g.pid = o.pid
    /\ o \in guests \/ o.pid \in changed

GuestInv ==
    /\ Scanning => /\ \A p \in Pids : Holds(p) => Opener(p, proc[p].cmd) \in guests
                   /\ \A o \in found : Justified(o)
    /\ step \in {"follow", "cmdline", "comm"} => cur \in Pids
    /\ step = "cmdline" =>
         \E c \in Commands \cup {Nothing} :
            /\ Opener(cur, c) \in guests
            /\ cur \in changed \/ (Alive(cur) /\ proc[cur].cmd = c)
    /\ step = "comm" => cur \in changed /\ \E g \in guests : g.pid = cur
    /\ step = "busy" => \A o \in accused : Justified(o)

\* Where a path is at hand
StepInv ==
    /\ step = "idle" <=> paths = <<>>
    /\ step = "idle" => n = 1
    /\ step \in {"access", "list", "look", "follow", "cmdline", "comm", "busy", "refused"} => n <= Len(paths)

FilesInv == FilesTypeOK /\ StepInv /\ SteadyInv /\ GuestInv

-----------------------------------------------------------------------------

LEMMA FilesType ==
    ASSUME FilesTypeOK
    PROVE  /\ Len(paths) \in Nat /\ DOMAIN paths = 1 .. Len(paths) /\ n \in Nat \ {0}
           /\ \A p \in Pids : /\ proc[p].cmd \in Commands \cup {Nothing}
                              /\ proc[p].open \in SUBSET Files
                              /\ Holds(p) => Alive(p)
                              /\ Alive(p) => proc[p].cmd \in Commands
           /\ \A p \in Pids, c \in Commands \cup {Nothing} : Opener(p, c) \in Openers
<1>1. paths \in Seq(Files)
  <2>1. <<>> \in Seq(Files) /\ PathLists \subseteq Seq(Files)
    BY FilesAssumption
  <2> QED
    BY <2>1, Zenon DEF FilesTypeOK
<1>2. Len(paths) \in Nat /\ DOMAIN paths = 1 .. Len(paths) /\ n \in Nat \ {0}
  BY <1>1 DEF FilesTypeOK
<1>3. ASSUME NEW p \in Pids
      PROVE  /\ proc[p].cmd \in Commands \cup {Nothing} /\ proc[p].open \in SUBSET Files
             /\ Holds(p) => Alive(p)
             /\ Alive(p) => proc[p].cmd \in Commands
  <2>1. /\ proc[p].cmd \in Commands \cup {Nothing} /\ proc[p].open \in SUBSET Files
        /\ proc[p].state = "none" <=> proc[p].cmd = Nothing
        /\ Alive(p) \/ proc[p].open = {}
    BY DEF FilesTypeOK
  <2> QED
    BY <2>1 DEF Holds, Alive
<1>4. \A p \in Pids, c \in Commands \cup {Nothing} : Opener(p, c) \in Openers
  BY DEF Opener, Openers
<1> QED
  BY <1>2, <1>3, <1>4

Procs == [state : {"none", "alive", "zombie"}, cmd : Commands \cup {Nothing}, open : SUBSET Files]

\* A process p that becomes r, with what the history variables make of it
Becomes(p, r) ==
    /\ proc' = [proc EXCEPT ![p] = r]
    /\ r \in Procs
    /\ r.state = "none" <=> r.cmd = Nothing
    /\ r.state = "alive" \/ r.open = {}
    /\ UNCHANGED checkVars
    /\ steady' \subseteq steady
    /\ guests \subseteq guests' /\ guests' \subseteq Openers
    /\ changed \subseteq changed' /\ changed' \subseteq Pids
    /\ Scanning =>
         /\ p \in steady' => r.state = "alive" /\ paths[n] \in r.open
         /\ paths[n] \in r.open => Opener(p, r.cmd) \in guests'
         /\ Alive(p) /\ p \notin changed' =>
              r.state = "alive" /\ (r.cmd = proc[p].cmd \/ Opener(p, r.cmd) \in guests')

LEMMA BecomesStep ==
    ASSUME FilesInv, NEW p \in Pids, NEW r, Becomes(p, r)
    PROVE  FilesInv'
<1>1. /\ FilesTypeOK /\ StepInv /\ SteadyInv /\ GuestInv
      /\ UNCHANGED <<paths, allowed, n, step, listed, cur, found, accused>>
  BY DEF FilesInv, Becomes, checkVars
<1>2. /\ proc \in [Pids -> Procs]
      /\ \A q \in Pids : /\ proc[q].state = "none" <=> proc[q].cmd = Nothing
                         /\ Alive(q) \/ proc[q].open = {}
  BY <1>1 DEF FilesTypeOK, Procs
<1>3. /\ proc' \in [Pids -> Procs] /\ proc'[p] = r
      /\ \A q \in Pids : q # p => proc'[q] = proc[q]
  BY <1>2 DEF Becomes
<1>4. FilesTypeOK'
  <2>1. \A q \in Pids : /\ proc'[q].state = "none" <=> proc'[q].cmd = Nothing
                        /\ Alive(q)' \/ proc'[q].open = {}
    <3> SUFFICES ASSUME NEW q \in Pids
                 PROVE  /\ proc'[q].state = "none" <=> proc'[q].cmd = Nothing
                        /\ Alive(q)' \/ proc'[q].open = {}
      OBVIOUS
    <3>1. CASE q = p
      BY <1>3, <3>1 DEF Becomes, Alive
    <3>2. CASE q # p
      BY <1>2, <1>3, <3>2 DEF Alive
    <3> QED
      BY <3>1, <3>2
  <2>2. proc' \in [Pids -> [state : {"none", "alive", "zombie"},
                          cmd : Commands \cup {Nothing}, open : SUBSET Files]]
    BY <1>3 DEF Procs
  <2>3. steady' \in SUBSET Pids /\ guests' \in SUBSET Openers /\ changed' \in SUBSET Pids
    BY <1>1 DEF Becomes, FilesTypeOK
  <2>4. Openers' = Openers
    BY DEF Openers
  <2> QED
    <3>1. /\ paths' \in PathLists \cup {<<>>} /\ allowed' \in SUBSET Commands
          /\ n' \in 1 .. Len(paths') + 1
          /\ step' \in {"idle", "access", "list", "look", "follow", "cmdline", "comm", "refused", "busy", "passed"}
          /\ listed' \in SUBSET Pids /\ cur' \in Pids \cup {Nothing}
          /\ found' \in SUBSET Openers /\ accused' \in SUBSET Openers
      BY <1>1 DEF FilesTypeOK
    <3> QED
      BY <2>1, <2>2, <2>3, <3>1 DEF FilesTypeOK, Openers
<1>5. StepInv'
  BY <1>1 DEF StepInv
<1>6. SteadyInv'
  <2> SUFFICES ASSUME Scanning, NEW q \in steady'
               PROVE  Alive(q)' /\ Holds(q)'
    BY <1>1 DEF SteadyInv, Scanning, Becomes
  <2>1. q \in Pids /\ q \in steady /\ Alive(q) /\ Holds(q)
    BY <1>1 DEF Becomes, SteadyInv, FilesTypeOK
  <2>2. CASE q = p
    BY <1>1, <1>3, <2>2 DEF Becomes, Alive, Holds
  <2>3. CASE q # p
    BY <1>1, <1>3, <2>1, <2>3 DEF Alive, Holds
  <2> QED
    BY <2>2, <2>3
<1>7. \A o : Justified(o) => Justified(o)'
  BY DEF Justified, Becomes
<1>8. ASSUME Scanning, NEW q \in Pids, Holds(q)' PROVE Opener(q, proc'[q].cmd) \in guests'
  <2>1. CASE q = p
    BY <1>1, <1>3, <1>8, <2>1 DEF Becomes, Holds
  <2>2. CASE q # p
    <3>1. Holds(q) /\ proc'[q] = proc[q]
      BY <1>1, <1>3, <1>8, <2>2 DEF Holds
    <3> QED
      BY <1>1, <1>8, <3>1 DEF GuestInv, Becomes
  <2> QED
    BY <2>1, <2>2
<1>9. ASSUME step = "cmdline"
      PROVE  \E c \in Commands \cup {Nothing} :
                /\ Opener(cur, c) \in guests'
                /\ cur \in changed' \/ (Alive(cur)' /\ proc'[cur].cmd = c)
  <2>1. PICK c \in Commands \cup {Nothing} :
           /\ Opener(cur, c) \in guests
           /\ cur \in changed \/ (Alive(cur) /\ proc[cur].cmd = c)
    BY <1>1, <1>9 DEF GuestInv
  <2>2. cur \in Pids /\ Scanning
    BY <1>1, <1>9 DEF GuestInv, Scanning
  <2>3. CASE cur \in changed'
    BY <2>1, <2>3 DEF Becomes
  <2>4. CASE cur \notin changed' /\ cur = p
    <3>1. /\ Alive(cur) /\ proc[cur].cmd = c /\ Opener(cur, c) \in guests'
          /\ r.state = "alive" /\ r.cmd \in Commands \cup {Nothing}
          /\ r.cmd = c \/ Opener(cur, r.cmd) \in guests'
      BY <2>1, <2>2, <2>4 DEF Becomes, Procs
    <3>2. Alive(cur)' /\ proc'[cur].cmd = r.cmd
      BY <1>1, <1>3, <2>4, <3>1 DEF Alive
    <3> QED
      BY <3>1, <3>2
  <2>5. CASE cur \notin changed' /\ cur # p
    BY <1>1, <1>3, <2>1, <2>2, <2>5 DEF Becomes, Alive
  <2> QED
    BY <2>3, <2>4, <2>5
<1>10. GuestInv'
  <2>1. step = "comm" => cur \in changed' /\ \E g \in guests' : g.pid = cur
    BY <1>1 DEF GuestInv, Becomes
  <2>2. Scanning => \A o \in found : Justified(o)'
    BY <1>1, <1>7 DEF GuestInv
  <2>3. step = "busy" => \A o \in accused : Justified(o)'
    BY <1>1, <1>7 DEF GuestInv
  <2>4. Scanning' = Scanning
    BY <1>1 DEF Scanning
  <2> QED
    BY <1>1, <1>8, <1>9, <2>1, <2>2, <2>3, <2>4 DEF GuestInv, Opener, Alive
<1> QED
  BY <1>4, <1>5, <1>6, <1>10 DEF FilesInv

LEMMA LiveStep ==
    ASSUME FilesInv, Live
    PROVE  FilesInv'
<1>1. /\ FilesTypeOK /\ SteadyInv /\ GuestInv
      /\ \A p \in Pids : /\ proc[p] \in Procs
                         /\ proc[p].state = "none" <=> proc[p].cmd = Nothing
                         /\ Alive(p) \/ proc[p].open = {}
      /\ steady \subseteq Pids /\ guests \subseteq Openers /\ changed \subseteq Pids
      /\ proc \in [Pids -> Procs]
  BY DEF FilesInv, FilesTypeOK, Procs
<1>2. ASSUME Scanning, NEW p \in steady PROVE Alive(p) /\ Holds(p)
  BY <1>1, <1>2 DEF SteadyInv
<1>3. ASSUME Scanning, NEW p \in Pids, Holds(p) PROVE Opener(p, proc[p].cmd) \in guests
  BY <1>1, <1>3 DEF GuestInv
<1>4. Scanning => n \in DOMAIN paths
  BY <1>1 DEF SteadyInv
<1>5. ASSUME NEW p \in Pids, NEW c \in Commands, NEW files \in SUBSET Files,
             Fork(p, c, files) \/ Exec(p, c, files)
      PROVE  FilesInv'
  <2> DEFINE r == [state |-> "alive", cmd |-> c, open |-> files]
  <2>1. r \in Procs /\ r.cmd # Nothing /\ Opener(p, c) \in Openers
    BY FilesAssumption DEF Procs, Opener, Openers
  <2>2. /\ proc' = [proc EXCEPT ![p] = r]
        /\ UNCHANGED checkVars
        /\ guests' = Hosting(p, c, files)
    BY <1>5 DEF Fork, Exec
  <2>3. /\ guests \subseteq guests' /\ guests' \subseteq Openers
        /\ PathIn(files) => Opener(p, r.cmd) \in guests'
    BY <1>1, <2>1, <2>2 DEF Hosting
  <2>4. Scanning => (PathIn(files) <=> paths[n] \in r.open)
    BY <1>4 DEF PathIn
  <2>5. CASE Fork(p, c, files)
    <3>1. ~Alive(p) /\ UNCHANGED <<steady, changed>>
      BY <2>5 DEF Fork, Free, Alive
    <3>2. Becomes(p, r)
      BY <1>1, <1>2, <2>1, <2>2, <2>3, <2>4, <3>1 DEF Becomes
    <3> QED
      BY <3>2, BecomesStep
  <2>6. CASE Exec(p, c, files)
    <3>1. /\ steady' \subseteq steady /\ changed \subseteq changed' /\ changed' \subseteq Pids
          /\ p \in steady' => PathIn(files)
          /\ p \notin changed' => PathIn(files)
      BY <1>1, <2>6 DEF Exec
    <3>2. Becomes(p, r)
      BY <1>1, <2>1, <2>2, <2>3, <2>4, <3>1 DEF Becomes
    <3> QED
      BY <3>2, BecomesStep
  <2> QED
    BY <1>5, <2>5, <2>6
<1>6. ASSUME NEW p \in Pids, NEW f \in Files, Open(p, f) PROVE FilesInv'
  <2> DEFINE r == [state |-> "alive", cmd |-> proc[p].cmd, open |-> proc[p].open \cup {f}]
  <2>1. r \in Procs /\ r.cmd # Nothing
    BY <1>1, <1>6 DEF Procs, Open, Alive
  <2>2. proc' = [proc EXCEPT ![p] = r]
    <3>1. proc[p].state = "alive" /\ proc[p] \in Procs
      BY <1>1, <1>6 DEF Open, Alive
    <3>2. [proc[p] EXCEPT !.open = proc[p].open \cup {f}] = r
      BY <3>1 DEF Procs
    <3>3. proc' = [proc EXCEPT ![p] = [proc[p] EXCEPT !.open = proc[p].open \cup {f}]]
      BY <1>6 DEF Open
    <3> QED
      BY <3>2, <3>3, Zenon
  <2>3. Opener(p, proc[p].cmd) \in Openers
    BY <1>1 DEF Opener, Openers, Procs
  <2>4. /\ guests \subseteq guests' /\ guests' \subseteq Openers
        /\ n \in DOMAIN paths /\ f = paths[n] => Opener(p, r.cmd) \in guests'
    BY <1>1, <1>6, <2>3 DEF Open, Hosting, PathIn
  <2>5. Scanning /\ paths[n] \in r.open => Opener(p, r.cmd) \in guests'
    BY <1>3, <1>4, <2>4 DEF Holds
  <2>6. Scanning /\ p \in steady => paths[n] \in r.open
    BY <1>2 DEF Holds
  <2>7. UNCHANGED <<checkVars, steady, changed>>
    BY <1>6 DEF Open
  <2>8. Becomes(p, r)
    BY <1>1, <2>1, <2>2, <2>4, <2>5, <2>6, <2>7 DEF Becomes
  <2> QED
    BY <2>8, BecomesStep
<1>7. ASSUME NEW p \in Pids, NEW f \in Files, Close(p, f) PROVE FilesInv'
  <2> DEFINE r == [state |-> "alive", cmd |-> proc[p].cmd, open |-> proc[p].open \ {f}]
  <2>0. Alive(p)
    BY <1>1, <1>7 DEF Close
  <2>1. r \in Procs /\ r.cmd # Nothing
    BY <1>1, <2>0 DEF Procs, Alive
  <2>2. proc' = [proc EXCEPT ![p] = r]
    <3>1. proc[p].state = "alive" /\ proc[p] \in Procs
      BY <1>1, <1>7, <2>0 DEF Close, Alive
    <3>2. [proc[p] EXCEPT !.open = proc[p].open \ {f}] = r
      BY <3>1 DEF Procs
    <3>3. proc' = [proc EXCEPT ![p] = [proc[p] EXCEPT !.open = proc[p].open \ {f}]]
      BY <1>7 DEF Close
    <3> QED
      BY <3>2, <3>3, Zenon
  <2>3. /\ steady' \subseteq steady
        /\ Scanning /\ p \in steady' => f # paths[n]
    BY <1>4, <1>7 DEF Close, PathIn
  <2>4. Scanning /\ p \in steady' => paths[n] \in r.open
    BY <1>2, <2>3 DEF Holds
  <2>5. Scanning /\ paths[n] \in r.open => Opener(p, r.cmd) \in guests
    BY <1>3 DEF Holds
  <2>6. UNCHANGED <<checkVars, guests, changed>>
    BY <1>7 DEF Close
  <2>7. Becomes(p, r)
    BY <1>1, <2>1, <2>2, <2>3, <2>4, <2>5, <2>6 DEF Becomes
  <2> QED
    BY <2>7, BecomesStep
<1>8. ASSUME NEW p \in Pids, Exit(p) PROVE FilesInv'
  <2> DEFINE r == [state |-> "zombie", cmd |-> proc[p].cmd, open |-> {}]
  <2>1. r \in Procs /\ r.cmd # Nothing
    BY <1>1, <1>8 DEF Procs, Exit, Alive
  <2>2. proc' = [proc EXCEPT ![p] = r]
    BY <1>1, <1>8 DEF Exit, Alive, Procs
  <2>3. /\ steady' \subseteq steady /\ p \notin steady'
        /\ changed \subseteq changed' /\ changed' \subseteq Pids /\ p \in changed'
        /\ UNCHANGED <<checkVars, guests>>
    BY <1>1, <1>8 DEF Exit
  <2>4. Becomes(p, r)
    BY <1>1, <2>1, <2>2, <2>3 DEF Becomes
  <2> QED
    BY <2>4, BecomesStep
<1>9. ASSUME NEW p \in Pids, Wait(p) PROVE FilesInv'
  <2>1. Free \in Procs /\ Free.cmd = Nothing /\ Free.state = "none" /\ Free.open = {}
    BY DEF Procs, Free
  <2>2. ~Alive(p) /\ proc' = [proc EXCEPT ![p] = Free] /\ UNCHANGED <<checkVars, steady, guests, changed>>
    BY <1>9 DEF Wait, Alive, historyVars
  <2>3. Becomes(p, Free)
    BY <1>1, <1>2, <2>1, <2>2 DEF Becomes
  <2> QED
    BY <2>3, BecomesStep
<1>10. ASSUME NEW p \in Pids, NEW f \in Files, Renumber(p, f) PROVE FilesInv'
  <2>1. Alive(p) /\ proc' = [proc EXCEPT ![p] = proc[p]]
    BY <1>1, <1>10 DEF Renumber
  <2>2. steady' \subseteq steady /\ UNCHANGED <<checkVars, guests, changed>>
    BY <1>10 DEF Renumber
  <2>3. Becomes(p, proc[p])
    BY <1>1, <1>2, <1>3, <2>1, <2>2 DEF Becomes, Alive, Holds
  <2> QED
    BY <2>3, BecomesStep
<1> QED
  BY <1>5, <1>6, <1>7, <1>8, <1>9, <1>10 DEF Live

\* The variables of the check and the history
Rest ==
    /\ paths \in PathLists \cup {<<>>} /\ allowed \in SUBSET Commands
    /\ n \in 1 .. Len(paths) + 1
    /\ step \in {"idle", "access", "list", "look", "follow", "cmdline", "comm", "refused", "busy", "passed"}
    /\ listed \in SUBSET Pids /\ cur \in Pids \cup {Nothing}
    /\ found \in SUBSET Openers /\ accused \in SUBSET Openers
    /\ steady \in SUBSET Pids /\ guests \in SUBSET Openers /\ changed \in SUBSET Pids

LEMMA RestIsType ==
    ASSUME FilesTypeOK, UNCHANGED proc, Rest'
    PROVE  FilesTypeOK'
BY Zenon DEF FilesTypeOK, Rest, Openers, Alive

LEMMA FreeProcess ==
    ASSUME FilesTypeOK, NEW p \in Pids
    PROVE  proc[p].cmd \in Commands \/ proc[p] = Free
<1>1. /\ proc[p] \in Procs
      /\ proc[p].state = "none" <=> proc[p].cmd = Nothing
      /\ proc[p].state = "alive" \/ proc[p].open = {}
  BY DEF FilesTypeOK, Procs, Alive
<1>2. CASE proc[p].cmd = Nothing
  BY <1>1, <1>2 DEF Procs, Free
<1>3. CASE proc[p].cmd # Nothing
  BY <1>1, <1>3 DEF Procs
<1> QED
  BY <1>2, <1>3

LEMMA PathsTypeStep ==
    ASSUME FilesInv, CheckPaths
    PROVE  FilesTypeOK' /\ StepInv'
<1>1. /\ FilesTypeOK /\ StepInv /\ Rest
      /\ Len(paths) \in Nat /\ n \in Nat \ {0} /\ n <= Len(paths) + 1
  <2>1. FilesTypeOK /\ StepInv
    BY DEF FilesInv
  <2>2. Rest
    BY <2>1 DEF FilesTypeOK, Rest
  <2>3. Len(paths) \in Nat /\ n \in 1 .. Len(paths) + 1
    BY <2>1, <2>2, FilesType DEF Rest
  <2> QED
    BY <2>1, <2>2, <2>3
<1>2. /\ \A p \in Pids, c \in Commands \cup {Nothing} : Opener(p, c) \in Openers
      /\ \A p \in Pids : proc[p].cmd \in Commands \cup {Nothing}
  BY <1>1, FilesType
<1>3. \A p \in Pids : proc[p] = Free \/ Name[proc[p].cmd] \in Commands
  BY <1>1, FreeProcess, FilesAssumption
<1>4. step \in {"follow", "cmdline", "comm"} => cur \in Pids
  BY DEF FilesInv, GuestInv
<1>5. CASE \E ps \in PathLists, a \in AllowLists : BeginPaths(ps, a)
  <2>1. PICK ps \in PathLists, a \in AllowLists : BeginPaths(ps, a)
    BY <1>5
  <2>2. ps # <<>> /\ Len(ps) \in Nat \ {0} /\ a \in SUBSET Commands
    BY FilesAssumption
  <2>3. n = 1
    BY <1>1, <2>1 DEF StepInv, BeginPaths
  <2>4. Rest' /\ StepInv' /\ UNCHANGED proc
    BY <1>1, <2>1, <2>2, <2>3 DEF BeginPaths, historyVars, Rest, StepInv
  <2> QED
    BY <1>1, <2>4, RestIsType
<1>6. CASE CheckAccess
  <2>1. Rest' /\ StepInv' /\ UNCHANGED proc
    BY <1>1, <1>6 DEF CheckAccess, NextPath, historyVars, Rest, StepInv
  <2> QED
    BY <1>1, <2>1, RestIsType
<1>7. CASE ListProc
  <2>1. /\ steady' \in SUBSET Pids /\ changed' \in SUBSET Pids
        /\ listed' \in SUBSET Pids /\ found' \in SUBSET Openers
    BY <1>1, <1>7 DEF ListProc, historyVars, Rest
  <2>2. guests' \in SUBSET Openers
    BY <1>1, <1>2, <1>7, <2>1 DEF ListProc, historyVars, Rest
  <2>3. Rest' /\ StepInv' /\ UNCHANGED proc
    BY <1>1, <1>7, <2>1, <2>2 DEF ListProc, NextPath, Rest, StepInv
  <2> QED
    BY <1>1, <2>3, RestIsType
<1>8. ASSUME NEW p \in Pids, Look(p) PROVE FilesTypeOK' /\ StepInv'
  <2>1. Rest' /\ StepInv' /\ UNCHANGED proc
    BY <1>1, <1>8 DEF Look, historyVars, Rest, StepInv
  <2> QED
    BY <1>1, <2>1, RestIsType
<1>9. CASE Follow
  <2>1. Rest' /\ StepInv' /\ UNCHANGED proc
    BY <1>1, <1>9 DEF Follow, historyVars, Rest, StepInv
  <2> QED
    BY <1>1, <2>1, RestIsType
<1>10. CASE ReadCmdline
  <2>1. cur \in Pids /\ Opener(cur, proc[cur].cmd) \in Openers
    BY <1>2, <1>4, <1>10 DEF ReadCmdline
  <2>2. Rest' /\ StepInv' /\ UNCHANGED proc
    BY <1>1, <1>10, <2>1 DEF ReadCmdline, Report, historyVars, Rest, StepInv
  <2> QED
    BY <1>1, <2>2, RestIsType
<1>11. CASE ReadComm
  <2>1. (IF proc[cur] = Free THEN Nothing ELSE Name[proc[cur].cmd]) \in Commands \cup {Nothing}
    BY <1>3, <1>4, <1>11 DEF ReadComm
  <2>2. found' \in SUBSET Openers
    BY <1>1, <1>2, <1>4, <1>11, <2>1 DEF ReadComm, Report, Rest
  <2>3. Rest' /\ StepInv' /\ UNCHANGED proc
    BY <1>1, <1>11, <2>2 DEF ReadComm, Report, historyVars, Rest, StepInv
  <2> QED
    BY <1>1, <2>3, RestIsType
<1>12. CASE JudgePath
  <2>1. Disallowed \in SUBSET Openers
    BY <1>1 DEF Disallowed, Rest
  <2>2. Rest' /\ StepInv' /\ UNCHANGED proc
    BY <1>1, <1>12, <2>1 DEF JudgePath, Scanned, NextPath, historyVars, Rest, StepInv
  <2> QED
    BY <1>1, <2>2, RestIsType
<1> QED
  BY <1>5, <1>6, <1>7, <1>8, <1>9, <1>10, <1>11, <1>12 DEF CheckPaths

LEMMA ListProcStep ==
    ASSUME FilesInv, ListProc
    PROVE  SteadyInv' /\ GuestInv'
<1>1. /\ n \in DOMAIN paths
      /\ \A p \in Pids : Holds(p) => Alive(p)
  <2>1. FilesTypeOK /\ StepInv /\ step = "list"
    BY DEF FilesInv, ListProc
  <2> QED
    BY <2>1, FilesType DEF StepInv
<1>2. CASE NextPath /\ UNCHANGED <<listed, found, historyVars>>
  BY <1>2 DEF NextPath, SteadyInv, GuestInv, Scanning
<1>3. CASE step' = "look" /\ ListProc
  <2>1. /\ UNCHANGED <<proc, paths, allowed, n, cur, accused>>
        /\ listed' = {p \in Pids : proc[p] # Free}
        /\ found' = {}
        /\ steady' = {p \in Pids : Holds(p)}
        /\ guests' = {Opener(p, proc[p].cmd) : p \in steady'}
    BY <1>3 DEF ListProc, NextPath
  <2>2. \A p \in Pids : Holds(p)' = Holds(p) /\ Alive(p)' = Alive(p)
    BY <2>1 DEF Holds, Alive
  <2>3. \A p \in Pids : Alive(p) => proc[p] # Free
    BY DEF Alive, Free
  <2>4. SteadyInv'
    BY <1>1, <2>1, <2>2, <2>3 DEF SteadyInv
  <2>5. \A p \in Pids : Holds(p)' => Opener(p, proc'[p].cmd) \in guests'
    BY <2>1, <2>2
  <2>6. GuestInv'
    BY <1>3, <2>1, <2>5 DEF GuestInv, Opener
  <2> QED
    BY <2>4, <2>6
<1> QED
  BY <1>2, <1>3 DEF ListProc

\* Steps of the scan, which change neither the processes nor the history
Scans ==
    /\ Scanning /\ Scanning'
    /\ UNCHANGED <<proc, paths, allowed, n, accused, steady, guests, changed>>

LEMMA ScanFacts ==
    ASSUME FilesInv, Scans
    PROVE  /\ n' \in DOMAIN paths'
           /\ \A p \in steady' : Alive(p)' /\ Holds(p)'
           /\ \A p \in Pids : Holds(p)' => Opener(p, proc'[p].cmd) \in guests'
           /\ \A o : Justified(o)' <=> Justified(o)
           /\ \A o \in found : Justified(o)
           /\ \A p \in Pids : Holds(p) => Alive(p)
<1>1. /\ \A p \in steady : Alive(p) /\ Holds(p)
      /\ \A p \in Pids : Holds(p) => Opener(p, proc[p].cmd) \in guests
      /\ \A o \in found : Justified(o)
      /\ n \in DOMAIN paths
  BY DEF FilesInv, SteadyInv, GuestInv, Scans
<1>2. \A p \in Pids : Holds(p) => Alive(p)
  BY FilesType DEF FilesInv
<1>3. \A p : (Alive(p)' <=> Alive(p)) /\ (Holds(p)' <=> Holds(p))
  BY DEF Scans, Alive, Holds
<1>4. \A o : Justified(o)' <=> Justified(o)
  BY DEF Scans, Justified
<1> QED
  BY <1>1, <1>2, <1>3, <1>4 DEF Scans

LEMMA LookStep ==
    ASSUME FilesInv, NEW p \in Pids, Look(p)
    PROVE  SteadyInv' /\ GuestInv'
<1>1. Scans
  BY DEF Look, Scans, Scanning, historyVars
<1>2. SteadyInv'
  <2>1. \A q \in steady : q \in listed \/ \E o \in found \cap guests : o.pid = q
    BY <1>1 DEF FilesInv, SteadyInv, Look, Scans
  <2>2. \A q \in steady : Alive(q)
    BY <1>1 DEF FilesInv, SteadyInv, Scans
  <2>3. \A q \in steady' :
           \/ q \in listed'
           \/ q = cur' /\ step' \in {"follow", "cmdline"}
           \/ \E o \in found' \cap guests' : o.pid = q
    BY <1>1, <2>1, <2>2 DEF Look, Scans
  <2> QED
    BY <1>1, <2>3, ScanFacts DEF SteadyInv, Opener
<1>3. GuestInv'
  <2>1. found' = found /\ cur' \in Pids /\ step' \in {"look", "follow"}
    BY DEF Look
  <2> QED
    BY <1>1, <2>1, ScanFacts DEF GuestInv, Opener
<1> QED
  BY <1>2, <1>3

LEMMA FollowStep ==
    ASSUME FilesInv, Follow
    PROVE  SteadyInv' /\ GuestInv'
<1>1. Scans
  BY DEF Follow, Scans, Scanning, historyVars
<1>2. /\ cur' = cur /\ found' = found /\ listed' = listed /\ cur \in Pids
      /\ step' \in {"look", "cmdline"}
      /\ step' = "look" => cur \notin steady
      /\ step' = "cmdline" => Holds(cur) /\ Alive(cur)
  <2>1. cur \in Pids
    BY DEF FilesInv, GuestInv, Follow
  <2> QED
    BY <1>1, <2>1, ScanFacts DEF Follow
<1>3. SteadyInv'
  <2>1. \A q \in steady' :
           \/ q \in listed'
           \/ q = cur' /\ step' \in {"follow", "cmdline"}
           \/ \E o \in found' \cap guests' : o.pid = q
    BY <1>1, <1>2 DEF FilesInv, SteadyInv, Scans
  <2> QED
    BY <1>1, <2>1, ScanFacts DEF SteadyInv, Opener
<1>4. ASSUME step' = "cmdline"
      PROVE  \E c \in Commands \cup {Nothing} :
               /\ Opener(cur, c) \in guests'
               /\ cur \in changed' \/ (Alive(cur)' /\ proc'[cur].cmd = c)
  <2>1. proc[cur].cmd \in Commands \cup {Nothing}
    BY <1>2, FilesType DEF FilesInv
  <2>2. Opener(cur, proc[cur].cmd) \in guests' /\ Alive(cur)' /\ proc' = proc
    BY <1>1, <1>2, <1>4 DEF FilesInv, GuestInv, Scans, Alive
  <2> QED
    BY <2>1, <2>2
<1>5. GuestInv'
  BY <1>1, <1>2, <1>4, ScanFacts DEF GuestInv, Opener, Alive
<1> QED
  BY <1>3, <1>5


LEMMA ReadCmdlineStep ==
    ASSUME FilesInv, ReadCmdline
    PROVE  SteadyInv' /\ GuestInv'
<1>1. Scans
  BY DEF ReadCmdline, Report, Scans, Scanning, historyVars
<1>2. /\ step = "cmdline" /\ cur' = cur /\ listed' = listed /\ cur \in Pids
      /\ \/ Alive(cur) /\ found' = found \cup {Opener(cur, proc[cur].cmd)} /\ step' = "look"
         \/ ~Alive(cur) /\ found' = found /\ step' = "comm"
  BY DEF FilesInv, GuestInv, ReadCmdline, Report
<1>3. PICK c \in Commands \cup {Nothing} :
        /\ Opener(cur, c) \in guests
        /\ cur \in changed \/ (Alive(cur) /\ proc[cur].cmd = c)
  BY <1>2 DEF FilesInv, GuestInv
<1>4. Opener(cur, c).pid = cur
  BY DEF Opener
<1>5. Justified(Opener(cur, proc[cur].cmd))
  <2>1. Opener(cur, proc[cur].cmd).pid = cur
    BY DEF Opener
  <2> QED
    BY <1>3, <1>4, <2>1 DEF Justified
<1>6. SteadyInv'
  <2>1. ASSUME NEW q \in steady'
        PROVE  \/ q \in listed'
               \/ q = cur' /\ step' \in {"follow", "cmdline"}
               \/ \E o \in found' \cap guests' : o.pid = q
    <3>1. /\ q \in steady /\ q \in Pids /\ Alive(q) /\ Holds(q)
          /\ \/ q \in listed
             \/ q = cur
             \/ \E o \in found \cap guests : o.pid = q
      BY <1>1 DEF FilesInv, FilesTypeOK, SteadyInv, Scans
    <3>2. CASE q = cur
      <4>1. Opener(cur, proc[cur].cmd) \in found' \cap guests'
        BY <1>1, <1>2, <3>1, <3>2 DEF FilesInv, GuestInv, Scans
      <4>2. Opener(cur, proc[cur].cmd).pid = q
        BY <3>2 DEF Opener
      <4> QED
        BY <4>1, <4>2
    <3>3. CASE q # cur
      BY <1>1, <1>2, <3>1, <3>3 DEF Scans
    <3> QED
      BY <3>2, <3>3
  <2> QED
    BY <1>1, <2>1, ScanFacts DEF SteadyInv, Opener
<1>7. \A o \in found' : Justified(o)'
  BY <1>1, <1>2, <1>5, ScanFacts
<1>8. step' = "comm" => cur' \in changed' /\ \E g \in guests' : g.pid = cur'
  BY <1>1, <1>2, <1>3, <1>4 DEF Scans
<1>9. GuestInv'
  BY <1>1, <1>2, <1>7, <1>8, ScanFacts DEF GuestInv, Opener
<1> QED
  BY <1>6, <1>9

LEMMA ReadCommStep ==
    ASSUME FilesInv, ReadComm
    PROVE  SteadyInv' /\ GuestInv'
<1>1. Scans
  BY DEF ReadComm, Report, Scans, Scanning, historyVars
<1> DEFINE o == Opener(cur, IF proc[cur] = Free THEN Nothing ELSE Name[proc[cur].cmd])
<1>2. /\ step = "comm" /\ step' = "look" /\ cur' = cur /\ listed' = listed
      /\ found' = found \cup {o}
  BY DEF ReadComm, Report
<1>3. Justified(o)
  <2>1. o.pid = cur
    BY DEF Opener
  <2> QED
    BY <1>2, <2>1 DEF FilesInv, GuestInv, Justified
<1>4. SteadyInv'
  <2>1. \A q \in steady' :
           \/ q \in listed'
           \/ q = cur' /\ step' \in {"follow", "cmdline"}
           \/ \E x \in found' \cap guests' : x.pid = q
    BY <1>1, <1>2 DEF FilesInv, SteadyInv, Scans
  <2> QED
    BY <1>1, <2>1, ScanFacts DEF SteadyInv, Opener
<1>5. \A x \in found' : Justified(x)'
  BY <1>1, <1>2, <1>3, ScanFacts
<1>6. GuestInv'
  BY <1>1, <1>2, <1>5, ScanFacts DEF GuestInv, Opener
<1> QED
  BY <1>4, <1>6

LEMMA JudgePathStep ==
    ASSUME FilesInv, JudgePath
    PROVE  SteadyInv' /\ GuestInv'
<1>1. /\ Scanning /\ ~Scanning' /\ accused' \subseteq found
      /\ UNCHANGED <<guests, changed>>
      /\ step' \in {"busy", "passed", "access"}
  BY DEF JudgePath, Scanned, Scanning, NextPath, Disallowed, historyVars
<1>2. \A o \in found : Justified(o)
  BY <1>1 DEF FilesInv, GuestInv
<1>3. \A o \in accused' : Justified(o)'
  BY <1>1, <1>2 DEF Justified
<1> QED
  BY <1>1, <1>3 DEF SteadyInv, GuestInv

LEMMA PathsStepInv ==
    ASSUME FilesInv, CheckPaths
    PROVE  FilesInv'
<1>1. FilesTypeOK' /\ StepInv'
  BY PathsTypeStep
<1>2. ASSUME \/ \E ps \in PathLists, a \in AllowLists : BeginPaths(ps, a)
             \/ CheckAccess
      PROVE  SteadyInv' /\ GuestInv'
  BY <1>2 DEF BeginPaths, CheckAccess, NextPath, SteadyInv, GuestInv, Scanning
<1> QED
  BY <1>1, <1>2, ListProcStep, LookStep, FollowStep, ReadCmdlineStep, ReadCommStep, JudgePathStep
     DEF CheckPaths, FilesInv

LEMMA FilesInvariant == FilesSpec => []FilesInv
<1>1. ASSUME FilesInit PROVE FilesInv
  <2>1. FilesTypeOK
    <3>1. /\ proc \in [Pids -> [state : {"none", "alive", "zombie"},
                                cmd : Commands \cup {Nothing}, open : SUBSET Files]]
          /\ \A p \in Pids : /\ proc[p].state = "none" <=> proc[p].cmd = Nothing
                             /\ Alive(p) \/ proc[p].open = {}
      BY <1>1 DEF FilesInit, Free, Alive
    <3> QED
      BY <1>1, <3>1 DEF FilesInit, FilesTypeOK
  <2> QED
    BY <1>1, <2>1 DEF FilesInit, FilesInv, StepInv, SteadyInv, GuestInv, Scanning
<1>2. ASSUME FilesInv, [FilesNext]_filesVars PROVE FilesInv'
  <2>1. CASE CheckPaths
    BY <1>2, <2>1, PathsStepInv
  <2>2. CASE Live
    BY <1>2, <2>2, LiveStep
  <2>3. CASE UNCHANGED filesVars
    <3>1. UNCHANGED proc /\ UNCHANGED <<paths, allowed, n, step, listed, cur, found, accused>>
          /\ UNCHANGED <<steady, guests, changed>>
      BY <2>3 DEF filesVars, checkVars, historyVars
    <3>2. FilesTypeOK'
      BY <1>2, <3>1, RestIsType DEF FilesInv, FilesTypeOK, Rest, Openers
    <3>3. StepInv' /\ SteadyInv' /\ GuestInv'
      BY <1>2, <3>1 DEF FilesInv, StepInv, SteadyInv, GuestInv, Justified, Scanning, Alive, Holds, Opener
    <3> QED
      BY <3>2, <3>3 DEF FilesInv
  <2> QED
    BY <1>2, <2>1, <2>2, <2>3 DEF FilesNext
<1> QED
  BY <1>1, <1>2, PTL DEF FilesSpec

\* Whoever holds the path as one descriptor during the whole scan, and runs nothing
\* that may, is found, whichever processes begin, end and execute programs meanwhile.
THEOREM OffenderFound == ChecksSpec => []SteadyOffenderIsFound
<1>1. FilesInv => SteadyOffenderIsFound
  <2> SUFFICES ASSUME FilesInv, Scanned, NEW p \in steady,
                      \A g \in guests : g.pid = p => g.cmd \notin allowed
               PROVE  \E o \in Disallowed \cap guests : o.pid = p
    BY DEF SteadyOffenderIsFound
  <2>1. Scanning /\ listed = {} /\ step = "look"
    BY DEF Scanned, Scanning
  <2>2. PICK o \in found \cap guests : o.pid = p
    BY <2>1 DEF FilesInv, SteadyInv
  <2> QED
    BY <2>2 DEF Disallowed
<1> QED
  BY <1>1, CheckIsComposed, FilesInvariant, PTL

\* Whoever is reported has the number of a process that had the path open during the
\* scan.  If nobody had it open with that number and that command, the report may be
\* of an innocent one, and then the process has ended meanwhile, or has executed
\* something else that was not given the path.
THEOREM AccusationsHold == ChecksSpec => []AccusedHadItOpen
<1>1. FilesInv => AccusedHadItOpen
  BY DEF FilesInv, GuestInv, Justified, AccusedHadItOpen
<1> QED
  BY <1>1, CheckIsComposed, FilesInvariant, PTL

-----------------------------------------------------------------------------
(* The types of a check *)

LEMMA VerdictType ==
    ASSUME ChecksTypeOK, Decide
    PROVE  verdict' \in [kind : Kinds, passed : BOOLEAN, expected : Int, running : BOOLEAN]
<1> DEFINE V == [kind : Kinds, passed : BOOLEAN, expected : Int, running : BOOLEAN]
<1>1. \A kind \in Kinds : \A passed \in BOOLEAN : Verdict(kind, passed) \in V
  BY DEF Verdict
<1>2. \A o : OutputAccepted(o) \in BOOLEAN
  BY Zenon DEF OutputAccepted
<1>3. ASSUME NEW expected \in Expected, NEW o \in Outputs, JudgeExec(expected, o) PROVE verdict' \in V
  <2>1. ExecPasses(expected, o) \in BOOLEAN
    BY Zenon DEF ExecPasses
  <2>2. Verdict("exec", ExecPasses(expected, o)) \in V
    BY <1>1, <2>1 DEF Kinds
  <2>3. expected \in Int
    BY CheckAssumption
  <2>4. [Verdict("exec", ExecPasses(expected, o)) EXCEPT !.expected = expected] \in V
    BY <2>2, <2>3
  <2> QED
    BY <1>3, <2>4, Zenon DEF JudgeExec, Judge
<1>4. ASSUME NEW running \in BOOLEAN, JudgeContainer(running) PROVE verdict' \in V
  <2> DEFINE passes == result.err = "none" /\ running /\ broken = 0
  <2>1. passes \in BOOLEAN
    BY Zenon
  <2>2. Verdict("container", passes) \in V
    BY <1>1, <2>1 DEF Kinds
  <2>3. [Verdict("container", passes) EXCEPT !.running = running] \in V
    BY <2>2
  <2> QED
    BY <1>4, <2>3, Zenon DEF JudgeContainer, Judge
<1>5. ASSUME NEW kind \in Kinds, NEW passed \in BOOLEAN, Judge(Verdict(kind, passed)) PROVE verdict' \in V
  BY <1>1, <1>5, Zenon DEF Judge
<1>6. {"service", "container", "logs", "action", "paths", "sleep"} \subseteq Kinds
  BY DEF Kinds
<1>7. ASSUME JudgeService \/ JudgeAction \/ JudgeFailedLogs \/ JudgeLogs \/ JudgePaths \/ EndSleep
      PROVE  verdict' \in V
  <2>1. /\ (result.err = "none" /\ result.code = 0) \in BOOLEAN /\ (result.err = "none") \in BOOLEAN
        /\ LogPasses \in BOOLEAN /\ (step = "passed") \in BOOLEAN
    BY Zenon DEF LogPasses
  <2>2. CASE JudgeService
    BY <1>5, <1>6, <2>1, <2>2 DEF JudgeService
  <2>3. CASE JudgeAction
    BY <1>5, <1>6, <2>1, <2>3 DEF JudgeAction
  <2>4. CASE JudgeFailedLogs
    BY <1>5, <1>6, <2>4 DEF JudgeFailedLogs
  <2>5. CASE JudgeLogs
    BY <1>5, <1>6, <2>1, <2>5 DEF JudgeLogs
  <2>6. CASE JudgePaths
    BY <1>5, <1>6, <2>1, <2>6 DEF JudgePaths
  <2>7. CASE EndSleep
    BY <1>5, <1>6, <2>7 DEF EndSleep
  <2> QED
    BY <1>7, <2>2, <2>3, <2>4, <2>5, <2>6, <2>7
<1>8. ASSUME BeginLogs \/ ContinueLogs PROVE verdict' \in V
  BY <1>8 DEF BeginLogs, ContinueLogs, ChecksTypeOK
<1> QED
  BY <1>3, <1>4, <1>7, <1>8 DEF Decide

OwnTypeOK ==
    /\ handler \in Handlers
    /\ verdict \in [kind : Kinds, passed : BOOLEAN, expected : Int, running : BOOLEAN]

PartTypesOK == RunnerTypeOK /\ ScriptTypeOK /\ LogTypeOK /\ FilesTypeOK

\* Every variable of a check keeps its type: the captured output its limit too.
THEOREM ChecksTypeCorrect == ChecksSpec => []ChecksTypeOK
<1>1. ChecksSpec => []PartTypesOK
  <2>1. RunnerInv /\ ScriptInv /\ LogInv /\ FilesInv => PartTypesOK
    BY DEF RunnerInv, ScriptInv, LogInv, FilesInv, PartTypesOK
  <2> QED
    BY <2>1, CheckIsComposed, RunnerInvariant, ScriptInvariant, LogInvariant, FilesInvariant, PTL
<1>2. ChecksInit => OwnTypeOK
  BY DEF ChecksInit, OwnTypeOK, Verdict, Kinds
<1>3. ASSUME PartTypesOK, OwnTypeOK, [ChecksNext]_checksVars PROVE OwnTypeOK'
  <2>1. handler' = handler
    BY <1>3 DEF ChecksNext, Proceed, HandlerStep, ShellStep, Apart, PathsStep, ProcessStep, GiveUpWaiting,
                Decide, JudgeExec, JudgeAction, JudgeContainer, JudgeService, JudgeFailedLogs,
                BeginLogs, ContinueLogs, JudgeLogs, JudgePaths, EndSleep, Judge, checksVars
  <2>2. ChecksTypeOK
    BY <1>3 DEF ChecksTypeOK, PartTypesOK, OwnTypeOK
  <2>3. CASE Decide
    BY <2>1, <2>2, <2>3, VerdictType, <1>3 DEF OwnTypeOK
  <2>4. CASE HandlerStep \/ ShellStep \/ PathsStep \/ ProcessStep \/ GiveUpWaiting \/ UNCHANGED checksVars
    BY <2>1, <2>4, <1>3 DEF HandlerStep, ShellStep, Apart, PathsStep, ProcessStep, GiveUpWaiting,
                            OwnTypeOK, checksVars
  <2> QED
    BY <1>3, <2>3, <2>4 DEF ChecksNext, Proceed
<1>4. PartTypesOK /\ OwnTypeOK => ChecksTypeOK
  BY DEF ChecksTypeOK, PartTypesOK, OwnTypeOK
<1> QED
  BY <1>1, <1>2, <1>3, <1>4, PTL DEF ChecksSpec

-----------------------------------------------------------------------------
(* A pass is earned *)

\* The shell runs the script.
LinkInv ==
    /\ configured # <<>> => script # "local"
    /\ pc = "new" => script = "building"
    /\ script = "building" =>
         /\ ~shellUp
         /\ \/ pc = "new"
            \/ pc = "returning" /\ waitErr \in {"start", "ctx"}
            \/ pc = "returned" /\ result.err \notin {"none", "exit"}
    /\ script = "trying" => shellUp
    /\ script = "exited" => shellUp \/ cancelled \/ exitCode = rc
    /\ script = "killed" => cancelled

\* The log is read, and a verdict passed, when the command is over.
OverInv ==
    /\ pass # "waiting" => pc = "returned" /\ result.err = "none"
    /\ verdict.passed /\ verdict.kind \in {"exec", "service", "container", "logs", "action"} =>
         /\ pc = "returned" /\ result.err \in {"none", "exit"}
         /\ result.code = Wanted

LEMMA LinkStep ==
    ASSUME RunnerInv, ScriptInv, LinkInv, [ChecksNext]_checksVars
    PROVE  LinkInv'
<1>1. /\ shellUp => pc = "waiting"
      /\ pc = "returning" => ~shellUp
      /\ script = "building" /\ j \notin DOMAIN configured /\ configured # <<>> => hosts # <<>>
  <2>1. ASSUME script = "building", j \notin DOMAIN configured, configured # <<>> PROVE hosts # <<>>
    <3>1. /\ configured \in Seq(Hosts) /\ Len(configured) \in Nat /\ DOMAIN configured = 1 .. Len(configured)
          /\ j \in 1 .. Len(configured) + 1
      BY ConfiguredType DEF ScriptInv, ScriptTypeOK
    <3>2. 1 \in 1 .. j - 1
      BY <2>1, <3>1
    <3>3. PICK l \in DOMAIN hosts : hosts[l] = configured[1]
      BY <3>2 DEF ScriptInv, HostsInv
    <3> QED
      BY <3>3
  <2> QED
    BY <2>1 DEF RunnerInv, ProcessInv
<1>2. CASE UNCHANGED <<runnerVars, scriptVars>>
  BY <1>2 DEF LinkInv, runnerVars, processes, output, scriptVars
<1>3. ASSUME StartCommand PROVE LinkInv'
  <2>1. CASE shellUp'
    BY <1>1, <1>3, <2>1 DEF StartCommand, Start, BeginScript, LinkInv
  <2>2. CASE ~shellUp'
    BY <1>3, <2>2 DEF StartCommand, Start, LinkInv, scriptVars
  <2> QED
    BY <2>1, <2>2
<1>4. ASSUME CancelCommand PROVE LinkInv'
  <2>1. CASE script = "trying"
    BY <1>4, <2>1 DEF CancelCommand, Cancel, KillGroup, KillScript, LinkInv
  <2>2. CASE script # "trying"
    BY <1>1, <1>4, <2>2 DEF CancelCommand, Cancel, KillGroup, LinkInv, scriptVars
  <2> QED
    BY <2>1, <2>2
<1>5. ASSUME (Reap \/ Handover \/ EndOfOutput \/ DelayPasses), UNCHANGED scriptVars PROVE LinkInv'
  BY <1>5 DEF Reap, Handover, EndOfOutput, DelayPasses, LinkInv, processes, output, scriptVars
<1>6. ASSUME Return, UNCHANGED scriptVars PROVE LinkInv'
  <2>1. shellUp' = shellUp /\ exitCode' = exitCode
    <3>1. CASE KillGroup
      BY <1>1, <1>6, <3>1 DEF Return, KillGroup, RunnerInv, RunnerTypeOK
    <3>2. CASE UNCHANGED processes
      BY <3>2 DEF processes
    <3> QED
      BY <1>6, <3>1, <3>2 DEF Return
  <2>2. script = "building" => result'.err \notin {"none", "exit"}
    BY <1>6 DEF LinkInv, Return, RunError
  <2> QED
    BY <1>6, <2>1, <2>2 DEF Return, LinkInv, scriptVars, output
<1>7. ASSUME pc = "new", AppendHost, UNCHANGED runnerVars PROVE LinkInv'
  BY <1>7 DEF AppendHost, LinkInv, runnerVars, processes, output
<1>8. ASSUME LocalShell PROVE LinkInv'
  BY <1>1, <1>8 DEF LocalShell, Spawn, SpawnFrom, CloseOutput, Escape, ChildExit, ShellExit, LinkInv, scriptVars, output
<1>9. ASSUME shellUp, UNCHANGED runnerVars, Unreachable \/ Broken \/ \E code \in Codes : Remote(code)
      PROVE  LinkInv'
  BY <1>1, <1>9 DEF Unreachable, Broken, Remote, After, LinkInv, runnerVars, processes, output
<1>10. ASSUME script = "exited", ShellExit(rc), UNCHANGED scriptVars PROVE LinkInv'
  BY <1>1, <1>10 DEF ShellExit, LinkInv, scriptVars, output
<1>11. ASSUME Write \/ \E m \in 1 .. pipe : Copy(m), UNCHANGED scriptVars PROVE LinkInv'
  BY <1>11 DEF Write, Copy, LinkInv, scriptVars, processes
<1>12. ASSUME GiveUpWaiting PROVE LinkInv'
  BY <1>12 DEF GiveUpWaiting, Timeout, LinkInv, scriptVars, processes, output
<1>13. CASE HandlerStep
  BY <1>13, <1>3, <1>4, <1>5, <1>6, <1>7 DEF HandlerStep, RunCommand
<1>14. CASE ShellStep
  BY <1>14, <1>8, <1>9, <1>10, <1>11 DEF ShellStep, RemoteShell
<1>15. CASE PathsStep \/ ProcessStep \/ Decide \/ UNCHANGED checksVars
  BY <1>15, <1>2 DEF PathsStep, ProcessStep, Decide, JudgeExec, JudgeAction, JudgeContainer, JudgeService,
              JudgeFailedLogs, BeginLogs, ContinueLogs, JudgeLogs, JudgePaths, EndSleep, Judge, checksVars
<1> QED
  BY <1>12, <1>13, <1>14, <1>15 DEF ChecksNext, Proceed

\* What has been returned does not change.
LEMMA ReturnedStays ==
    ASSUME [RunnerNext]_runnerVars, pc = "returned"
    PROVE  pc' = "returned" /\ result' = result
BY DEF RunnerNext, Run, Start, Cancel, Reap, Handover, EndOfOutput, DelayPasses, Return, Copy, Timeout,
       Spawn, SpawnFrom, CloseOutput, Escape, ChildExit, ShellExit, Write, Reading, runnerVars

LEMMA OverStep ==
    ASSUME RunnerInv, CodeInv, OverInv, [ChecksNext]_checksVars
    PROVE  OverInv'
<1>1. pc = "returned" => pc' = "returned" /\ result' = result
  BY RunnerPart, ReturnedStays
<1>2. pc = "returned" /\ result.err = "none" => result.code = 0
  BY DEF RunnerInv, RunnerPromises, SuccessIsComplete, ExitCodeIsHonest
<1>3. ASSUME NEW v, Judge(v), UNCHANGED pass,
             v.passed /\ v.kind \in {"exec", "service", "container", "logs", "action"} =>
                pc = "returned" /\ result.err \in {"none", "exit"} /\ result.code = v.expected
      PROVE  OverInv'
  BY <1>1, <1>3 DEF Judge, OverInv, Wanted
<1>4. ASSUME NEW v, Judge(v) PROVE UNCHANGED pass
  BY <1>4 DEF Judge, logVars
<1>5. \A kind, passed : LET v == Verdict(kind, passed) IN
                          v.kind = kind /\ v.passed = passed /\ v.expected = 0
  BY DEF Verdict
<1>6. ASSUME NEW expected \in Expected, NEW o \in Outputs, JudgeExec(expected, o) PROVE OverInv'
  <2> DEFINE v == [Verdict("exec", ExecPasses(expected, o)) EXCEPT !.expected = expected]
  <2>1. v.passed = ExecPasses(expected, o) /\ v.expected = expected
    BY DEF Verdict
  <2> QED
    BY <1>3, <1>4, <1>6, <2>1 DEF JudgeExec, ExecPasses
<1>7. ASSUME NEW running \in BOOLEAN, JudgeContainer(running) PROVE OverInv'
  <2> DEFINE passes == result.err = "none" /\ running /\ broken = 0
             v == [Verdict("container", passes) EXCEPT !.running = running]
  <2>1. v.passed = passes /\ v.expected = 0
    BY DEF Verdict
  <2>2. pc = "returned" /\ Judge(v)
    BY <1>7 DEF JudgeContainer
  <2> QED
    BY <1>2, <1>3, <1>4, <2>1, <2>2
<1>8. CASE JudgeService
  BY <1>2, <1>3, <1>4, <1>5, <1>8 DEF JudgeService
<1>9. CASE JudgeAction
  <2> DEFINE v == Verdict("action", result.err = "none")
  <2>1. v.passed = (result.err = "none") /\ v.expected = 0
    BY Zenon DEF Verdict
  <2> QED
    BY <1>2, <1>3, <1>4, <1>9, <2>1 DEF JudgeAction
<1>10. CASE JudgeFailedLogs
  BY <1>3, <1>4, <1>5, <1>10 DEF JudgeFailedLogs
<1>11. CASE JudgeLogs
  BY <1>2, <1>3, <1>4, <1>5, <1>11 DEF JudgeLogs, OverInv
<1>12. CASE JudgePaths
  BY <1>3, <1>4, <1>5, <1>12 DEF JudgePaths
<1>13. CASE EndSleep
  <2>1. PICK passed \in BOOLEAN : Judge(Verdict("sleep", passed))
    BY <1>13 DEF EndSleep
  <2> QED
    BY <1>3, <1>4, <1>5, <2>1
<1>14. CASE BeginLogs \/ ContinueLogs
  <2>1. UNCHANGED verdict /\ UNCHANGED <<pc, result>>
    BY <1>14 DEF BeginLogs, ContinueLogs, runnerVars
  <2>2. pc = "returned" /\ result.err = "none"
    <3>1. CASE BeginLogs
      BY <3>1 DEF BeginLogs
    <3>2. CASE ContinueLogs
      BY <3>2 DEF ContinueLogs, ScanLog, CountLine, CollectValue, DateLine, NextPass, OverInv
    <3> QED
      BY <1>14, <3>1, <3>2
  <2> QED
    BY <2>1, <2>2 DEF OverInv, Wanted
<1>15. CASE HandlerStep \/ ShellStep \/ PathsStep \/ ProcessStep \/ GiveUpWaiting \/ UNCHANGED checksVars
  <2>1. UNCHANGED <<pass, verdict>>
    BY <1>15 DEF HandlerStep, ShellStep, Apart, PathsStep, ProcessStep, GiveUpWaiting, checksVars, logVars
  <2> QED
    BY <1>1, <2>1 DEF OverInv, Wanted
<1> QED
  BY <1>6, <1>7, <1>8, <1>9, <1>10, <1>11, <1>12, <1>13, <1>14, <1>15 DEF Decide, ChecksNext, Proceed

\* What passes after a command has earned it: the command ended by itself with the
\* wanted code, on the remote host too, and none of a success' output is missing.
THEOREM PassEarned == ChecksSpec => []PassIsEarned
<1>1. ChecksInit => LinkInv /\ OverInv
  BY DEF ChecksInit, RunnerInit, ScriptInit, LogInit, LinkInv, OverInv, Verdict
<1>2. ASSUME RunnerInv, ScriptInv, LinkInv, OverInv PROVE PassIsEarned
  <2> SUFFICES ASSUME verdict.passed, verdict.kind \in {"exec", "service", "container", "logs", "action"}
               PROVE  /\ ~cancelled /\ ~overflow
                      /\ exitCode = Wanted
                      /\ Wanted = 0 => captured = written /\ holders = {}
                      /\ configured # <<>> /\ Wanted # 255 => ended # <<>> /\ ended[Len(ended)] = Wanted
    BY DEF PassIsEarned
  <2>1. pc = "returned" /\ result.err \in {"none", "exit"} /\ result.code = Wanted
    BY <1>2 DEF OverInv
  <2>2. /\ ~cancelled /\ ~overflow /\ exitCode = Wanted /\ ~shellUp
        /\ Wanted = 0 => captured = written /\ holders = {}
    BY <1>2, <2>1 DEF RunnerInv, RunnerPromises, ExitCodeIsHonest, SuccessIsComplete, ProcessInv
  <2>3. ASSUME configured # <<>>, Wanted # 255 PROVE ended # <<>> /\ ended[Len(ended)] = Wanted
    <3>1. script \in {"building", "local", "trying", "exited", "killed"}
      BY <1>2 DEF ScriptInv, ScriptTypeOK
    <3>2. script = "exited" /\ rc = Wanted
      BY <1>2, <2>1, <2>2, <2>3, <3>1 DEF LinkInv
    <3> QED
      BY <1>2, <2>3, <3>2 DEF ScriptInv, ScriptPromises, ExitCodeIsRemote
  <2> QED
    BY <2>2, <2>3
<1> QED
  BY <1>1, <1>2, LinkStep, OverStep, CheckIsComposed, RunnerInvariant, ScriptInvariant, CodeInvariant, PTL
     DEF ChecksSpec

=============================================================================
