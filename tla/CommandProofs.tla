---------------------------- MODULE CommandProofs ----------------------------
(***************************************************************************)
(* Proofs about ShellRunner.Run, for any number of children, any exit      *)
(* codes and any limit, and about the script that falls back over hosts,   *)
(* for any target.                                                         *)
(***************************************************************************)
EXTENDS ShellRunner, HostFallback, TLAPS

\* Who is cancelled has no group any more, and only a shell being waited for runs.
ProcessInv ==
    /\ cancelled => ctxDone
    /\ NobodyLeftBehind
    /\ shellUp => pc = "waiting"
    /\ pc = "new" => exitCode = 0

\* What cmd.Run's error says of the exit code and of the output
WaitInv ==
    /\ pc \in {"new", "waiting"} => waitErr = "none"
    /\ waitErr # "overflow"
    /\ pc \in {"reaped", "draining", "returning"} =>
         /\ waitErr \in {"none", "waitdelay"} => exitCode = 0
         /\ waitErr = "exit" => exitCode # 0
    /\ pc = "returning" /\ waitErr = "none" => holders = {} /\ pipe = 0

\* No byte is lost unless the limit is passed.
OutputInv == overflow \/ captured + pipe = written

RunnerPromises == SuccessIsComplete /\ ExitCodeIsHonest

RunnerInv == RunnerTypeOK /\ ProcessInv /\ WaitInv /\ OutputInv /\ RunnerPromises

-----------------------------------------------------------------------------

LEMMA RunnerInvInit == RunnerInit => RunnerInv
<1> SUFFICES ASSUME RunnerInit PROVE RunnerInv
  OBVIOUS
<1>1. RunnerTypeOK
  <2>1. result \in [err : Errors, code : Int] /\ waitErr \in Errors /\ pc \in PCs
    BY DEF RunnerInit, PCs, Errors
  <2>2. captured \in 0 .. MaxOutput /\ written \in Nat /\ pipe \in Nat /\ exitCode \in Int
    BY RunnerAssumption DEF RunnerInit
  <2>3. {ctxDone, cancelled, shellUp, overflow} \subseteq BOOLEAN
    BY Zenon DEF RunnerInit
  <2>4. /\ group \in SUBSET Children /\ escapees \in SUBSET Children
        /\ holders \in SUBSET (group \cup escapees)
    BY DEF RunnerInit
  <2> QED
    BY <2>1, <2>2, <2>3, <2>4 DEF RunnerTypeOK
<1>2. ProcessInv /\ WaitInv /\ OutputInv
  BY DEF RunnerInit, ProcessInv, NobodyLeftBehind, WaitInv, OutputInv
<1>3. RunnerPromises
  BY DEF RunnerInit, RunnerPromises, SuccessIsComplete, ExitCodeIsHonest
<1> QED
  BY <1>1, <1>2, <1>3 DEF RunnerInv

\* Whom cmd.Cancel and the end of Run kill
LEMMA KillGroupFacts ==
    ASSUME RunnerTypeOK, KillGroup
    PROVE  /\ shellUp' = FALSE /\ exitCode' \in Int
           /\ group' = {} /\ escapees' = escapees
           /\ holders' \in SUBSET (group' \cup escapees')
           /\ ~shellUp => exitCode' = exitCode
<1>1. -1 \in Int
  OBVIOUS
<1>2. exitCode' \in Int
  BY <1>1, Zenon DEF RunnerTypeOK, KillGroup
<1> QED
  BY <1>2 DEF RunnerTypeOK, KillGroup

LEMMA RunnerTypeStep == RunnerTypeOK /\ [RunnerNext]_runnerVars => RunnerTypeOK'
<1> SUFFICES ASSUME RunnerTypeOK, [RunnerNext]_runnerVars PROVE RunnerTypeOK'
  OBVIOUS
<1> USE DEF RunnerTypeOK, PCs, Errors
<1>1. ASSUME NEW c \in Children, Spawn(c) \/ CloseOutput(c) \/ Escape(c) \/ ChildExit(c)
      PROVE  RunnerTypeOK'
  BY <1>1 DEF Spawn, CloseOutput, Escape, ChildExit, output
<1>2. ASSUME NEW code \in ExitCodes, ShellExit(code) PROVE RunnerTypeOK'
  BY <1>2, RunnerAssumption DEF ShellExit, output
<1>3. CASE Write
  BY <1>3 DEF Write, processes
<1>4. CASE Start
  BY <1>4 DEF Start, output
<1>5. ASSUME NEW n \in 1 .. pipe, Copy(n) PROVE RunnerTypeOK'
  BY <1>5, RunnerAssumption DEF Copy, processes
<1>6. CASE Timeout
  BY <1>6 DEF Timeout, processes, output
<1>7. CASE Cancel
  BY <1>7, KillGroupFacts DEF Cancel, output
<1>8. CASE Reap \/ Handover \/ EndOfOutput \/ DelayPasses
  BY <1>8 DEF Reap, Handover, EndOfOutput, DelayPasses, processes, output
<1>9. CASE Return
  <2>1. RunError \in Errors /\ OutcomeCode(RunError) \in Int
    BY DEF RunError, OutcomeCode
  <2>2. result' \in [err : Errors, code : Int]
    BY <1>9, <2>1 DEF Return
  <2>3. CASE KillGroup
    BY <1>9, <2>2, <2>3, KillGroupFacts DEF Return, output
  <2>4. CASE UNCHANGED processes
    BY <1>9, <2>2, <2>4 DEF Return, processes, output
  <2> QED
    BY <1>9, <2>3, <2>4 DEF Return
<1>10. CASE UNCHANGED runnerVars
  BY <1>10 DEF runnerVars, processes, output
<1>11. ASSUME NEW d \in Children, NEW c \in Children, SpawnFrom(d, c) PROVE RunnerTypeOK'
  <2>1. /\ group' \in SUBSET Children /\ escapees' \in SUBSET Children
        /\ holders' \in SUBSET (group' \cup escapees')
    BY <1>11 DEF SpawnFrom, Inherit
  <2> QED
    BY <1>11, <2>1 DEF SpawnFrom, output
<1> QED
  BY <1>1, <1>2, <1>3, <1>4, <1>5, <1>6, <1>7, <1>8, <1>9, <1>10, <1>11 DEF RunnerNext, Run

LEMMA RunnerOtherStep == RunnerInv /\ [RunnerNext]_runnerVars => (ProcessInv /\ WaitInv /\ OutputInv)'
<1> SUFFICES ASSUME RunnerInv, [RunnerNext]_runnerVars PROVE (ProcessInv /\ WaitInv /\ OutputInv)'
  OBVIOUS
<1> USE DEF RunnerInv, RunnerTypeOK, ProcessInv, NobodyLeftBehind, WaitInv, OutputInv, PCs, Errors
<1>1. ASSUME NEW c \in Children, Spawn(c) \/ CloseOutput(c) \/ Escape(c) \/ ChildExit(c)
      PROVE  (ProcessInv /\ WaitInv /\ OutputInv)'
  BY <1>1 DEF Spawn, CloseOutput, Escape, ChildExit, output
<1>2. ASSUME NEW code \in ExitCodes, ShellExit(code)
      PROVE  (ProcessInv /\ WaitInv /\ OutputInv)'
  BY <1>2, RunnerAssumption DEF ShellExit, output
<1>3. CASE Write
  BY <1>3 DEF Write, Reading, processes
<1>4. CASE Start
  BY <1>4 DEF Start, output
<1>5. ASSUME NEW n \in 1 .. pipe, Copy(n)
      PROVE  (ProcessInv /\ WaitInv /\ OutputInv)'
  <2>1. OutputInv'
    <3>1. CASE n > MaxOutput - captured
      BY <1>5, <3>1 DEF Copy
    <3>2. CASE ~(n > MaxOutput - captured)
      BY <1>5, <3>2, RunnerAssumption DEF Copy
    <3> QED
      BY <3>1, <3>2
  <2>2. ProcessInv' /\ WaitInv'
    BY <1>5 DEF Copy, Reading, processes
  <2> QED
    BY <2>1, <2>2
<1>6. CASE Timeout
  BY <1>6 DEF Timeout, processes, output
<1>7. CASE Cancel
  BY <1>7, KillGroupFacts DEF Cancel, output
<1>8. CASE Reap \/ Handover \/ EndOfOutput \/ DelayPasses
  BY <1>8 DEF Reap, Handover, EndOfOutput, DelayPasses, processes, output
<1>9. CASE Return
  BY <1>9 DEF Return, KillGroup, processes, output
<1>10. CASE UNCHANGED runnerVars
  BY <1>10 DEF runnerVars, processes, output
<1>11. ASSUME NEW d \in Children, NEW c \in Children, SpawnFrom(d, c)
       PROVE  (ProcessInv /\ WaitInv /\ OutputInv)'
  BY <1>11 DEF SpawnFrom, Inherit, output
<1> QED
  BY <1>1, <1>2, <1>3, <1>4, <1>5, <1>6, <1>7, <1>8, <1>9, <1>10, <1>11 DEF RunnerNext, Run

\* Run makes its promises in its last step, and nothing that happens later
\* takes them back.
LEMMA RunnerPromiseStep == RunnerInv /\ [RunnerNext]_runnerVars => RunnerPromises'
<1> SUFFICES ASSUME RunnerInv, [RunnerNext]_runnerVars, pc' = "returned" PROVE RunnerPromises'
  BY DEF RunnerPromises, SuccessIsComplete, ExitCodeIsHonest
<1> USE DEF RunnerInv, RunnerTypeOK, ProcessInv, WaitInv, OutputInv, RunnerPromises,
            SuccessIsComplete, ExitCodeIsHonest
<1>1. CASE Return
  <2>1. /\ pc = "returning" /\ ~shellUp
        /\ result' = [err |-> RunError, code |-> OutcomeCode(RunError)]
        /\ UNCHANGED <<ctxDone, cancelled, output, waitErr, exitCode>>
        /\ holders' \subseteq holders
    BY <1>1 DEF Return, KillGroup, processes, output
  <2>2. result'.err = RunError /\ result'.code = OutcomeCode(RunError)
    BY <2>1
  <2>3. SuccessIsComplete'
    BY <2>1, <2>2 DEF RunError, output
  <2>4. ExitCodeIsHonest'
    BY <2>1, <2>2 DEF RunError, OutcomeCode, output
  <2> QED
    BY <2>3, <2>4
<1>2. ASSUME NEW c \in Children, CloseOutput(c) \/ Escape(c) \/ ChildExit(c) PROVE RunnerPromises'
  BY <1>2 DEF CloseOutput, Escape, ChildExit, output
<1>3. CASE UNCHANGED runnerVars
  BY <1>3 DEF runnerVars, processes, output
<1>4. CASE \/ \E c \in Children : Spawn(c)
           \/ \E code \in ExitCodes : ShellExit(code)
           \/ Write \/ Timeout \/ Start \/ Cancel \/ Reap \/ Handover \/ EndOfOutput
           \/ DelayPasses \/ \E n \in 1 .. pipe : Copy(n)
  BY <1>4 DEF Spawn, ShellExit, Write, Timeout, Start, Cancel, Reap, Handover,
              EndOfOutput, DelayPasses, Copy, Reading
<1>5. ASSUME NEW d \in Children, NEW c \in Children, SpawnFrom(d, c) PROVE RunnerPromises'
  BY <1>5 DEF SpawnFrom, Inherit, output
<1> QED
  BY <1>1, <1>2, <1>3, <1>4, <1>5 DEF RunnerNext, Run

LEMMA RunnerInvariant == RunnerSpec => []RunnerInv
<1>1. RunnerInv /\ [RunnerNext]_runnerVars => RunnerInv'
  BY RunnerTypeStep, RunnerOtherStep, RunnerPromiseStep DEF RunnerInv
<1> QED
  BY <1>1, RunnerInvInit, PTL DEF RunnerSpec

\* The type invariant: the captured output never exceeds its limit, however
\* much is written (boundedOutput.Write).
THEOREM RunnerTypeCorrect == RunnerSpec => []RunnerTypeOK
<1>1. RunnerInv => RunnerTypeOK
  BY DEF RunnerInv
<1> QED
  BY <1>1, RunnerInvariant, PTL

\* A success of Run is complete: the shell's own exit with 0, the whole output.
THEOREM SuccessComplete == RunnerSpec => []SuccessIsComplete
<1>1. RunnerInv => SuccessIsComplete
  BY DEF RunnerInv, RunnerPromises
<1> QED
  BY <1>1, RunnerInvariant, PTL

\* An exit code that a check may accept is the shell's own.
THEOREM ExitCodeHonest == RunnerSpec => []ExitCodeIsHonest
<1>1. RunnerInv => ExitCodeIsHonest
  BY DEF RunnerInv, RunnerPromises
<1> QED
  BY <1>1, RunnerInvariant, PTL

\* A cancelled command leaves nobody in its process group, then and later
\* (cmd.Cancel kills the whole group, not only the shell).
THEOREM NobodyLeft == RunnerSpec => []NobodyLeftBehind
<1>1. RunnerInv => NobodyLeftBehind
  BY DEF RunnerInv, ProcessInv
<1> QED
  BY <1>1, RunnerInvariant, PTL

-----------------------------------------------------------------------------
(* The script *)

\* targetHosts: its result has no host twice, and every configured host so far.
HostsInv ==
    /\ \A k, l \in DOMAIN hosts : hosts[k] = hosts[l] => k = l
    /\ \A k \in 1 .. j - 1 : \E l \in DOMAIN hosts : hosts[l] = configured[k]
    /\ script # "building" => j = Len(configured) + 1

\* The script: what has happened on the hosts before the one it is at
ProgressInv ==
    /\ script = "building" => broken = 0 /\ ended = <<>> /\ \A h \in Hosts : runs[h] = 0
    /\ script \in {"trying", "exited", "killed"} => i \in 1 .. Len(hosts)
    /\ script = "trying" =>
         /\ broken + Len(ended) = i - 1
         /\ \A l \in DOMAIN hosts : l >= i => runs[hosts[l]] = 0

ScriptPromises == OncePerHost /\ RepeatedOnlyAfter255 /\ ExitCodeIsRemote

ScriptInv == ScriptTypeOK /\ HostsInv /\ ProgressInv /\ ScriptPromises

-----------------------------------------------------------------------------

LEMMA ConfiguredType ==
    ASSUME configured \in Configurations
    PROVE  configured \in Seq(Hosts) /\ Len(configured) \in Nat
           /\ DOMAIN configured = 1 .. Len(configured)
BY HostAssumption

LEMMA AppendCode ==
    ASSUME NEW s \in Seq(Nat), NEW code \in Nat
    PROVE  LET t == Append(s, code) IN
           /\ t \in Seq(Nat) /\ t # <<>>
           /\ Len(s) \in Nat /\ Len(t) = Len(s) + 1
           /\ DOMAIN s = 1 .. Len(s) /\ DOMAIN t = 1 .. Len(t)
           /\ t[Len(t)] = code
           /\ \A k \in 1 .. Len(s) : t[k] = s[k]
OBVIOUS

LEMMA ScriptInvInit == ScriptInit => ScriptInv
<1> SUFFICES ASSUME ScriptInit PROVE ScriptInv
  OBVIOUS
<1>1. ScriptTypeOK
  BY ConfiguredType DEF ScriptInit, ScriptTypeOK
<1>2. HostsInv /\ ProgressInv
  BY DEF ScriptInit, HostsInv, ProgressInv
<1>3. ScriptPromises
  BY DEF ScriptInit, ScriptPromises, OncePerHost, RepeatedOnlyAfter255, ExitCodeIsRemote
<1> QED
  BY <1>1, <1>2, <1>3 DEF ScriptInv

LEMMA AppendHostStep ==
    ASSUME ScriptInv, AppendHost
    PROVE  ScriptInv'
<1> USE DEF ScriptInv, AppendHost
<1>1. /\ configured \in Seq(Hosts) /\ Len(configured) \in Nat /\ DOMAIN configured = 1 .. Len(configured)
      /\ hosts \in Seq(Hosts) /\ j \in 1 .. Len(configured) /\ configured[j] \in Hosts
  BY ConfiguredType DEF ScriptTypeOK
<1>2. /\ hosts' \in Seq(Hosts)
      /\ Len(hosts') >= Len(hosts)
      /\ \A k \in DOMAIN hosts : k \in DOMAIN hosts' /\ hosts'[k] = hosts[k]
      /\ \E l \in DOMAIN hosts' : hosts'[l] = configured[j]
      /\ \A k, l \in DOMAIN hosts' : hosts'[k] = hosts'[l] => k = l
  <2>1. CASE Seen(configured[j])
    BY <1>1, <2>1 DEF Seen, HostsInv
  <2>2. CASE ~Seen(configured[j])
    <3>1. /\ hosts' = Append(hosts, configured[j]) /\ Len(hosts') = Len(hosts) + 1
          /\ \A k \in DOMAIN hosts : k \in DOMAIN hosts' /\ hosts'[k] = hosts[k]
          /\ hosts'[Len(hosts) + 1] = configured[j]
          /\ Len(hosts) + 1 \in DOMAIN hosts'
          /\ \A k \in DOMAIN hosts' : k \in DOMAIN hosts \/ k = Len(hosts) + 1
      BY <1>1, <2>2
    <3>2. \A k \in DOMAIN hosts : hosts[k] # configured[j]
      BY <2>2 DEF Seen
    <3>3. \A k, l \in DOMAIN hosts' : hosts'[k] = hosts'[l] => k = l
      BY <3>1, <3>2 DEF HostsInv
    <3> QED
      BY <1>1, <3>1, <3>3
  <2> QED
    BY <2>1, <2>2
<1>3. ScriptTypeOK'
  BY <1>1, <1>2 DEF ScriptTypeOK
<1>4. HostsInv'
  <2>1. ASSUME NEW k \in 1 .. j' - 1 PROVE \E l \in DOMAIN hosts' : hosts'[l] = configured'[k]
    <3>1. k \in 1 .. j - 1 \/ k = j
      BY <1>1
    <3> QED
      BY <1>2, <3>1 DEF HostsInv
  <2> QED
    BY <1>2, <2>1 DEF HostsInv
<1>5. ProgressInv' /\ ScriptPromises'
  BY DEF ProgressInv, ScriptPromises, OncePerHost, RepeatedOnlyAfter255, ExitCodeIsRemote
<1> QED
  BY <1>3, <1>4, <1>5

LEMMA BeginScriptStep ==
    ASSUME ScriptInv, BeginScript
    PROVE  ScriptInv'
<1> USE DEF ScriptInv, BeginScript
<1>1. /\ Len(configured) \in Nat /\ DOMAIN configured = 1 .. Len(configured)
      /\ j = Len(configured) + 1 /\ hosts \in Seq(Hosts)
  <2>1. j \in 1 .. Len(configured) + 1 /\ hosts \in Seq(Hosts) /\ configured \in Configurations
    BY DEF ScriptTypeOK
  <2>2. Len(configured) \in Nat /\ DOMAIN configured = 1 .. Len(configured)
    BY <2>1, ConfiguredType
  <2> QED
    BY <2>1, <2>2
<1>2. Len(hosts) \in Nat /\ DOMAIN hosts = 1 .. Len(hosts) /\ (hosts # <<>> => Len(hosts) >= 1)
  BY <1>1
<1>3. ScriptTypeOK' /\ HostsInv'
  BY <1>1, <1>2 DEF ScriptTypeOK, HostsInv
<1>4. \A k \in DOMAIN hosts : hosts[k] \in Hosts
  BY <1>1
<1>5. ProgressInv'
  BY <1>2, <1>4 DEF ProgressInv
<1>6. ScriptPromises'
  BY DEF ScriptPromises, OncePerHost, RepeatedOnlyAfter255, ExitCodeIsRemote, ProgressInv
<1> QED
  BY <1>3, <1>5, <1>6

\* What an ssh can end with: a failure of its own, or the end of the command
Fails(code) == code = 255 /\ broken' = broken + 1 /\ ended' = ended
Ends(code) == broken' = broken /\ ended' = Append(ended, code)

\* An ssh that ends: what happened on the host, and where the script goes
LEMMA AfterStep ==
    ASSUME ScriptInv, script = "trying", NEW code \in Nat, After(code),
           configured' = configured, j' = j, hosts' = hosts,
           (runs' = runs) \/ Ran,
           Fails(code) \/ Ends(code)
    PROVE  ScriptInv'
<1>1. ScriptTypeOK /\ HostsInv /\ ProgressInv /\ ScriptPromises
  BY DEF ScriptInv
<1>2. /\ hosts \in Seq(Hosts) /\ Len(hosts) \in Nat /\ DOMAIN hosts = 1 .. Len(hosts)
      /\ i \in 1 .. Len(hosts) /\ hosts[i] \in Hosts
  BY <1>1 DEF ScriptTypeOK, ProgressInv
<1>3. runs[hosts[i]] = 0 /\ broken + Len(ended) = i - 1
  BY <1>1, <1>2 DEF ProgressInv
<1>4. /\ ended \in Seq(Nat) /\ Len(ended) \in Nat /\ DOMAIN ended = 1 .. Len(ended)
      /\ broken \in Nat /\ runs \in [Hosts -> Nat]
  BY <1>1 DEF ScriptTypeOK
<1>5. /\ runs' \in [Hosts -> Nat]
      /\ \A h \in Hosts : runs'[h] <= 1
      /\ \A h \in Hosts : h # hosts[i] => runs'[h] = runs[h]
  <2>1. \A h \in Hosts : runs[h] <= 1
    BY <1>1 DEF ScriptPromises, OncePerHost
  <2>2. CASE runs' = runs
    BY <1>4, <2>1, <2>2
  <2>3. CASE Ran
    BY <1>2, <1>3, <1>4, <2>1, <2>3 DEF Ran
  <2> QED
    BY <2>2, <2>3
<1>6. /\ ended' \in Seq(Nat) /\ Len(ended') \in Nat /\ broken' \in Nat
      /\ broken' + Len(ended') = i
      /\ DOMAIN ended' = 1 .. Len(ended')
  <2>1. CASE Fails(code)
    BY <1>2, <1>3, <1>4, <2>1 DEF Fails
  <2>2. CASE Ends(code)
    BY <1>2, <1>3, <1>4, <2>2, AppendCode DEF Ends
  <2> QED
    BY <2>1, <2>2
<1>7. /\ \A k \in DOMAIN ended' : ended'[k] = 255 \/ (k = Len(ended') /\ ended'[k] = code)
      /\ code # 255 => ended' # <<>> /\ ended'[Len(ended')] = code
  <2>1. \A k \in DOMAIN ended : ended[k] = 255
    BY <1>1 DEF ScriptPromises, RepeatedOnlyAfter255
  <2>2. CASE Fails(code)
    BY <2>1, <2>2 DEF Fails
  <2>3. CASE Ends(code)
    <3>1. /\ Len(ended') = Len(ended) + 1 /\ ended'[Len(ended) + 1] = code /\ ended' # <<>>
          /\ \A k \in DOMAIN ended : ended'[k] = ended[k]
          /\ \A k \in DOMAIN ended' : k \in DOMAIN ended \/ k = Len(ended) + 1
      BY <1>4, <2>3, AppendCode DEF Ends
    <3> QED
      BY <2>1, <3>1
  <2> QED
    BY <2>2, <2>3
<1>8. \/ code = 255 /\ i' = i + 1 /\ i < Len(hosts) /\ script' = "trying"
      \/ (code # 255 \/ i = Len(hosts)) /\ i' = i /\ script' = "exited"
  BY <1>2 DEF After
<1>9. ScriptTypeOK'
  <2>1. rc' \in Int
    BY DEF After
  <2>2. i' \in 0 .. Len(hosts)
    <3>1. CASE i' = i + 1 /\ i < Len(hosts)
      BY <1>2, <3>1
    <3>2. CASE i' = i
      BY <1>2, <3>2
    <3> QED
      BY <1>8, <3>1, <3>2
  <2> QED
    BY <1>1, <1>5, <1>6, <1>8, <2>1, <2>2 DEF ScriptTypeOK
<1>10. HostsInv'
  BY <1>1, <1>8 DEF HostsInv
<1>11. ProgressInv'
  <2>1. ASSUME script' = "trying", NEW l \in DOMAIN hosts, l >= i + 1
        PROVE  runs'[hosts[l]] = 0
    <3>1. hosts[l] \in Hosts /\ hosts[l] # hosts[i] /\ l >= i
      BY <1>1, <1>2, <2>1 DEF HostsInv
    <3> QED
      BY <1>1, <1>5, <3>1 DEF ProgressInv
  <2>2. CASE i' = i + 1 /\ i < Len(hosts) /\ script' = "trying"
    BY <1>2, <1>6, <2>1, <2>2 DEF ProgressInv
  <2>3. CASE i' = i /\ script' = "exited"
    BY <1>2, <2>3 DEF ProgressInv
  <2> QED
    BY <1>8, <2>2, <2>3
<1>12. OncePerHost'
  BY <1>5 DEF OncePerHost
<1>13. RepeatedOnlyAfter255'
  BY <1>6, <1>7, <1>8 DEF RepeatedOnlyAfter255
<1>14. ExitCodeIsRemote'
  <2>1. rc' = code
    BY DEF After
  <2>2. \A k \in DOMAIN configured : \E l \in DOMAIN hosts : hosts[l] = configured[k]
    BY <1>1, ConfiguredType DEF ScriptTypeOK, HostsInv
  <2> QED
    BY <1>6, <1>7, <1>8, <2>1, <2>2 DEF ExitCodeIsRemote
<1> QED
  BY <1>9, <1>10, <1>11, <1>12, <1>13, <1>14 DEF ScriptPromises, ScriptInv

LEMMA KillScriptStep ==
    ASSUME ScriptInv, KillScript
    PROVE  ScriptInv'
<1> USE DEF ScriptInv, KillScript
<1>1. /\ hosts \in Seq(Hosts) /\ i \in 1 .. Len(hosts) /\ hosts[i] \in Hosts
      /\ runs \in [Hosts -> Nat] /\ runs[hosts[i]] = 0
  BY DEF ScriptTypeOK, ProgressInv
<1>2. runs' \in [Hosts -> Nat] /\ \A h \in Hosts : runs'[h] <= 1
  BY <1>1 DEF Ran, ScriptPromises, OncePerHost
<1>3. rc' \in Int
  OBVIOUS
<1>4. ScriptTypeOK'
  BY <1>2, <1>3 DEF ScriptTypeOK
<1>5. HostsInv' /\ ProgressInv'
  BY DEF HostsInv, ProgressInv
<1>6. ScriptPromises'
  BY <1>2 DEF ScriptPromises, OncePerHost, RepeatedOnlyAfter255, ExitCodeIsRemote
<1> QED
  BY <1>4, <1>5, <1>6

LEMMA ScriptInvStep == ScriptInv /\ [ScriptNext]_scriptVars => ScriptInv'
<1> SUFFICES ASSUME ScriptInv, [ScriptNext]_scriptVars PROVE ScriptInv'
  OBVIOUS
<1>1. CASE AppendHost
  BY <1>1, AppendHostStep
<1>2. CASE BeginScript
  BY <1>2, BeginScriptStep
<1>3. CASE Unreachable
  BY <1>3, AfterStep DEF Unreachable, Fails
<1>4. CASE Broken
  BY <1>4, AfterStep DEF Broken, Fails, Ran
<1>5. ASSUME NEW code \in Codes, Remote(code) PROVE ScriptInv'
  <2>1. code \in Nat
    BY HostAssumption
  <2> QED
    BY <1>5, <2>1, AfterStep DEF Remote, Ends, Ran
<1>6. CASE KillScript
  BY <1>6, KillScriptStep
<1>7. CASE UNCHANGED scriptVars
  BY <1>7, SMTT(40) DEF scriptVars, ScriptInv, ScriptTypeOK, HostsInv, ProgressInv, ScriptPromises, OncePerHost,
              RepeatedOnlyAfter255, ExitCodeIsRemote
<1> QED
  BY <1>1, <1>2, <1>3, <1>4, <1>5, <1>6, <1>7 DEF ScriptNext

LEMMA ScriptInvariant == ScriptSpec => []ScriptInv
BY ScriptInvInit, ScriptInvStep, PTL DEF ScriptSpec

\* No target, however it repeats its hosts, has a command run twice on one host.
THEOREM OncePerHostCorrect == ScriptSpec => []OncePerHost
<1>1. ScriptInv => OncePerHost
  BY DEF ScriptInv, ScriptPromises
<1> QED
  BY <1>1, ScriptInvariant, PTL

\* After any other end than 255 nothing is repeated.
THEOREM RepetitionCorrect == ScriptSpec => []RepeatedOnlyAfter255
<1>1. ScriptInv => RepeatedOnlyAfter255
  BY DEF ScriptInv, ScriptPromises
<1> QED
  BY <1>1, ScriptInvariant, PTL

\* The exit code of the script tells of the last host, or that all have failed.
THEOREM ScriptCodeCorrect == ScriptSpec => []ExitCodeIsRemote
<1>1. ScriptInv => ExitCodeIsRemote
  BY DEF ScriptInv, ScriptPromises
<1> QED
  BY <1>1, ScriptInvariant, PTL

=============================================================================
