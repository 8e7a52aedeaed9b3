----------------------------- MODULE ConfigProofs -----------------------------
(***************************************************************************)
(* Proofs for ConfigLoad: any files and environments, and any number of    *)
(* starts, kills and losses of power.                                      *)
(***************************************************************************)
EXTENDS ConfigLoad, TLAPS

\* c is the file of the operator, possibly without the definitions that a later
\* one replaces.
SameMeaning(c) ==
    /\ c.settings = document.settings /\ c.events_max = document.events_max
    /\ \/ c.monitors = document.monitors
       \/ LastDefinitions(c.monitors, document.monitors, Len(document.monitors))

DiskInv == \A c \in onDisk : c # Torn => SameMeaning(c)

NoBlank == \A j \in DOMAIN deduped : deduped[j].id # Blank

Kept == NoBlank /\ LastDefinitions(deduped, document.monitors, Len(document.monitors))

DedupeInv ==
    pc = "deduping" =>
        /\ SameMeaning(cfg) /\ NoBlank
        /\ next <= Len(cfg.monitors) + 1
        /\ LastDefinitions(deduped, cfg.monitors, next - 1)

WriteInv ==
    pc \in {"writing", "renaming", "overriding"} =>
        /\ Kept
        /\ cfg.settings = document.settings /\ cfg.events_max = document.events_max
        /\ cfg.monitors = deduped
        /\ pc = "renaming" => temp = cfg

NormalInv ==
    pc \in {"normalizing", "loaded"} =>
        /\ Kept /\ Current
        /\ cfg.monitors # <<>> /\ DOMAIN cfg.monitors = DOMAIN deduped
        /\ \A j \in DOMAIN deduped :
             \/ j < next /\ cfg.monitors[j] = Completed(deduped[j]) /\ Valid(cfg.monitors[j])
             \/ j >= next /\ pc = "normalizing" /\ cfg.monitors[j] = deduped[j]

ConfigInv == ConfigTypeOK /\ DiskInv /\ DedupeInv /\ WriteInv /\ NormalInv

-----------------------------------------------------------------------------
(* Trimming and completing *)

LEMMA TrimmedFacts ==
    ASSUME NEW m \in Monitors
    PROVE  /\ Trimmed(m) \in Monitors
           /\ Trimmed(m).id = Trim[m.id]
           /\ Trim[Trimmed(m).id] = Trimmed(m).id
           /\ Trim[m.id] = m.id => Trimmed(m) = m
<1>1. m.id \in Ids /\ Trim[m.id] \in Ids /\ Trim[Trim[m.id]] = Trim[m.id]
  BY ConfigAssumption DEF Monitors
<1>2. Trimmed(m) \in Monitors /\ Trimmed(m).id = Trim[m.id]
  BY <1>1 DEF Monitors, Trimmed
<1>3. Trim[m.id] = m.id => Trimmed(m) = m
  BY <1>1 DEF Monitors, Trimmed
<1> QED
  BY <1>1, <1>2, <1>3

LEMMA NamedType ==
    ASSUME NEW c \in Checks, NEW j \in Nat \ {0}
    PROVE  Named(c, j) \in Checks
BY DEF Checks, Named, Generated

LEMMA CompletedFacts ==
    ASSUME NEW m \in Monitors
    PROVE  /\ Completed(m) \in Monitors
           /\ Completed(m).id = m.id
           /\ Completed(m).threshold > 0
<1>1. m.checks \in Seq(Checks) /\ Len(m.checks) \in Nat /\ DOMAIN m.checks = 1 .. Len(m.checks)
  BY DEF Monitors
<1> DEFINE named == [j \in DOMAIN m.checks |-> Named(m.checks[j], j)]
<1>2. named \in Seq(Checks)
  <2>1. \A j \in DOMAIN m.checks : Named(m.checks[j], j) \in Checks
    BY <1>1, NamedType
  <2> QED
    BY <1>1, <2>1
<1>3. m.target \in Targets /\ [m.target EXCEPT !.transport = Else(@, "local")] \in Targets
  BY DEF Monitors, Targets, Else
<1> DEFINE target == [m.target EXCEPT !.transport = Else(@, "local")]
<1>4. Completed(m) = [m EXCEPT !.interval = Else(m.interval, "positive"),
                               !.cooldown = Else(m.cooldown, "positive"),
                               !.threshold = IF m.threshold <= 0 THEN 1 ELSE m.threshold,
                               !.target = target, !.checks = named]
  BY DEF Completed, Monitors
<1>5. Else(m.interval, "positive") \in Durations /\ Else(m.cooldown, "positive") \in Durations
  BY DEF Else, Monitors, Durations
<1> HIDE DEF named, target
<1>6. target \in Targets
  BY <1>3 DEF target
<1>7. /\ m.id \in Ids /\ m.attempts \in Int /\ m.recovery \in Seq(Actions) /\ m.threshold \in Int
  BY DEF Monitors
<1> DEFINE threshold == IF m.threshold <= 0 THEN 1 ELSE m.threshold
<1>8. threshold \in Int /\ threshold > 0
  BY <1>7
<1> HIDE DEF threshold
<1>9. Completed(m) =
        [id |-> m.id, interval |-> Else(m.interval, "positive"),
         cooldown |-> Else(m.cooldown, "positive"), threshold |-> threshold,
         attempts |-> m.attempts, target |-> target, checks |-> named, recovery |-> m.recovery]
  BY <1>4 DEF Monitors, threshold
<1> QED
  BY <1>2, <1>5, <1>6, <1>7, <1>8, <1>9 DEF Monitors

-----------------------------------------------------------------------------
(* The last definitions *)

LEMMA PutFacts ==
    ASSUME NEW s \in Seq(Monitors), NEW m \in Monitors
    PROVE  /\ Put(s, m) \in Seq(Monitors)
           /\ m.id \in IdsOf(s) =>
                /\ DOMAIN Put(s, m) = DOMAIN s
                /\ \A j \in DOMAIN s : Put(s, m)[j] = IF s[j].id = m.id THEN m ELSE s[j]
           /\ m.id \notin IdsOf(s) =>
                /\ Len(Put(s, m)) = Len(s) + 1 /\ DOMAIN Put(s, m) = 1 .. Len(s) + 1
                /\ \A j \in DOMAIN s : Put(s, m)[j] = s[j]
                /\ Put(s, m)[Len(s) + 1] = m
<1>1. CASE m.id \in IdsOf(s)
  BY <1>1 DEF Put
<1>2. CASE m.id \notin IdsOf(s)
  BY <1>2 DEF Put
<1> QED
  BY <1>1, <1>2

LEMMA LastDefinitionsEmpty ==
    ASSUME NEW monitors \in Seq(Monitors)
    PROVE  LastDefinitions(<<>>, monitors, 0)
BY DEF LastDefinitions

LEMMA LastDefinitionsStep ==
    ASSUME NEW monitors \in Seq(Monitors), NEW s \in Seq(Monitors),
           NEW n \in Nat, n + 1 \in DOMAIN monitors,
           LastDefinitions(s, monitors, n)
    PROVE  LastDefinitions(Put(s, Trimmed(monitors[n + 1])), monitors, n + 1)
<1> DEFINE m == Trimmed(monitors[n + 1])
           t == Put(s, m)
           Id(k) == Trim[monitors[k].id]
<1>1. /\ m \in Monitors /\ m.id = Id(n + 1)
      /\ Len(s) \in Nat /\ DOMAIN s = 1 .. Len(s)
  BY TrimmedFacts
<1>2. /\ \A j, k \in DOMAIN s : s[j].id = s[k].id => j = k
      /\ \A j \in DOMAIN s : \E k \in 1 .. n :
           s[j] = Trimmed(monitors[k]) /\ \A l \in k + 1 .. n : Id(l) # s[j].id
      /\ \A k \in 1 .. n : \E j \in DOMAIN s : s[j].id = Id(k)
      /\ \A j, k \in DOMAIN s : j < k =>
           \E l \in 1 .. n : Id(l) = s[j].id /\ \A o \in 1 .. l : Id(o) # s[k].id
  BY DEF LastDefinitions
<1>3. t \in Seq(Monitors)
  BY <1>1, PutFacts
<1>4. /\ \A j \in DOMAIN s : j \in DOMAIN t /\ t[j].id = s[j].id
      /\ \A j \in DOMAIN s : (t[j] = s[j] /\ s[j].id # m.id) \/ (t[j] = m /\ s[j].id = m.id)
      /\ \A j \in DOMAIN t : \/ j \in DOMAIN s
                             \/ j = Len(s) + 1 /\ t[j] = m /\ m.id \notin IdsOf(s)
      /\ \E j \in DOMAIN t : t[j].id = m.id
  <2>1. CASE m.id \in IdsOf(s)
    <3>1. /\ DOMAIN t = DOMAIN s
          /\ \A j \in DOMAIN s : t[j] = IF s[j].id = m.id THEN m ELSE s[j]
      BY <1>1, <2>1, PutFacts
    <3>2. \E j \in DOMAIN s : s[j].id = m.id
      BY <2>1 DEF IdsOf
    <3> HIDE DEF m, t
    <3> QED
      BY <3>1, <3>2
  <2>2. CASE m.id \notin IdsOf(s)
    <3>1. /\ DOMAIN t = 1 .. Len(s) + 1
          /\ \A j \in DOMAIN s : t[j] = s[j]
          /\ t[Len(s) + 1] = m
      <4>1. t = Append(s, m)
        BY <2>2 DEF Put
      <4> HIDE DEF m, t
      <4> QED
        BY <1>1, <4>1
    <3>2. \A j \in DOMAIN s : s[j].id # m.id
      BY <2>2 DEF IdsOf
    <3> HIDE DEF m, t
    <3> QED
      BY <1>1, <2>2, <3>1, <3>2
  <2> QED
    BY <2>1, <2>2
<1> HIDE DEF m, t
<1>5. ASSUME NEW j \in DOMAIN t, NEW k \in DOMAIN t, t[j].id = t[k].id
      PROVE  j = k
  <2>1. CASE j \in DOMAIN s /\ k \in DOMAIN s
    BY <1>2, <1>4, <1>5, <2>1
  <2>2. CASE j \notin DOMAIN s \/ k \notin DOMAIN s
    <3>1. m.id \notin IdsOf(s)
      BY <1>4, <2>2
    <3>2. \A o \in DOMAIN s : t[o].id # m.id
      BY <1>4, <3>1 DEF IdsOf
    <3> QED
      BY <1>4, <1>5, <2>2, <3>2
  <2> QED
    BY <2>1, <2>2
<1>6. ASSUME NEW j \in DOMAIN t
      PROVE  \E k \in 1 .. n + 1 :
               t[j] = Trimmed(monitors[k]) /\ \A l \in k + 1 .. n + 1 : Id(l) # t[j].id
  <2>1. CASE t[j] = m
    BY <2>1 DEF m
  <2>2. CASE t[j] # m
    <3>1. j \in DOMAIN s /\ t[j] = s[j] /\ s[j].id # Id(n + 1)
      BY <1>1, <1>4, <2>2
    <3>2. PICK k \in 1 .. n : s[j] = Trimmed(monitors[k]) /\ \A l \in k + 1 .. n : Id(l) # s[j].id
      BY <1>2, <3>1
    <3> QED
      BY <3>1, <3>2
  <2> QED
    BY <2>1, <2>2
<1>7. ASSUME NEW k \in 1 .. n + 1
      PROVE  \E j \in DOMAIN t : t[j].id = Id(k)
  <2>1. CASE k = n + 1
    BY <1>1, <1>4, <2>1
  <2>2. CASE k \in 1 .. n
    BY <1>2, <1>4, <2>2
  <2> QED
    BY <2>1, <2>2
<1>8. ASSUME NEW j \in DOMAIN t, NEW k \in DOMAIN t, j < k
      PROVE  \E l \in 1 .. n + 1 : Id(l) = t[j].id /\ \A o \in 1 .. l : Id(o) # t[k].id
  <2>1. j \in DOMAIN s
    BY <1>1, <1>3, <1>4, <1>8
  <2>2. CASE k \in DOMAIN s
    <3>1. PICK l \in 1 .. n : Id(l) = s[j].id /\ \A o \in 1 .. l : Id(o) # s[k].id
      BY <1>2, <1>8, <2>1, <2>2
    <3>2. t[j].id = s[j].id /\ t[k].id = s[k].id
      BY <1>4, <2>1, <2>2
    <3> QED
      BY <3>1, <3>2
  <2>3. CASE k \notin DOMAIN s
    <3>1. t[k] = m /\ m.id \notin IdsOf(s)
      BY <1>4, <2>3
    <3>2. PICK i \in 1 .. n : s[j] = Trimmed(monitors[i])
      BY <1>2, <2>1
    <3>3. Id(i) = t[j].id
      BY <1>4, <2>1, <3>2, TrimmedFacts
    <3>4. \A o \in 1 .. n : Id(o) # m.id
      <4>1. \A i_ \in DOMAIN s : s[i_].id # m.id
        BY <3>1 DEF IdsOf
      <4> QED
        BY <1>2, <4>1
    <3> QED
      BY <3>1, <3>3, <3>4
  <2> QED
    BY <2>2, <2>3
<1> QED
  BY <1>5, <1>6, <1>7, <1>8 DEF LastDefinitions, t, m

LEMMA LastDefinitionsTwice ==
    ASSUME NEW monitors \in Seq(Monitors), NEW s \in Seq(Monitors), NEW t \in Seq(Monitors),
           LastDefinitions(s, monitors, Len(monitors)), LastDefinitions(t, s, Len(s))
    PROVE  LastDefinitions(t, monitors, Len(monitors))
<1> DEFINE N == Len(monitors)
           Id(k) == Trim[monitors[k].id]
<1>1. /\ N \in Nat /\ DOMAIN monitors = 1 .. N
      /\ Len(s) \in Nat /\ DOMAIN s = 1 .. Len(s)
  OBVIOUS
<1>2. /\ \A j, k \in DOMAIN s : s[j].id = s[k].id => j = k
      /\ \A j \in DOMAIN s : \E k \in 1 .. N :
           s[j] = Trimmed(monitors[k]) /\ \A l \in k + 1 .. N : Id(l) # s[j].id
      /\ \A k \in 1 .. N : \E j \in DOMAIN s : s[j].id = Id(k)
      /\ \A j, k \in DOMAIN s : j < k =>
           \E l \in 1 .. N : Id(l) = s[j].id /\ \A o \in 1 .. l : Id(o) # s[k].id
  BY DEF LastDefinitions
<1>3. /\ \A j, k \in DOMAIN t : t[j].id = t[k].id => j = k
      /\ \A j \in DOMAIN t : \E k \in 1 .. Len(s) : t[j] = Trimmed(s[k])
      /\ \A k \in 1 .. Len(s) : \E j \in DOMAIN t : t[j].id = Trim[s[k].id]
      /\ \A j, k \in DOMAIN t : j < k =>
           \E l \in 1 .. Len(s) : Trim[s[l].id] = t[j].id /\ \A o \in 1 .. l : Trim[s[o].id] # t[k].id
  <2> HIDE DEF N
  <2> QED
    BY ZenonT(60) DEF LastDefinitions
<1>4. \A k \in DOMAIN s : Trimmed(s[k]) = s[k] /\ Trim[s[k].id] = s[k].id
  <2> TAKE k \in DOMAIN s
  <2>1. PICK i \in 1 .. N : s[k] = Trimmed(monitors[i])
    BY <1>2
  <2>2. monitors[i] \in Monitors /\ s[k] \in Monitors
    BY <1>1, <2>1
  <2> QED
    BY <2>1, <2>2, TrimmedFacts
<1>5. ASSUME NEW j \in DOMAIN t
      PROVE  \E k \in DOMAIN s : t[j] = s[k]
  <2>1. PICK k \in 1 .. Len(s) : t[j] = Trimmed(s[k])
    BY <1>3
  <2> QED
    BY <1>1, <1>4, <2>1
<1>6. \A j \in DOMAIN t : \E k \in 1 .. N :
         t[j] = Trimmed(monitors[k]) /\ \A l \in k + 1 .. N : Id(l) # t[j].id
  <2> TAKE j \in DOMAIN t
  <2>1. PICK k \in DOMAIN s : t[j] = s[k]
    BY <1>5
  <2> QED
    BY <1>2, <2>1
<1>7. ASSUME NEW k \in 1 .. N
      PROVE  \E j \in DOMAIN t : t[j].id = Id(k)
  <2>1. PICK i \in DOMAIN s : s[i].id = Id(k)
    BY <1>2
  <2>2. PICK j \in DOMAIN t : t[j].id = Trim[s[i].id]
    BY <1>1, <1>3
  <2> QED
    BY <1>4, <2>1, <2>2
<1>8. ASSUME NEW j \in DOMAIN t, NEW k \in DOMAIN t, j < k
      PROVE  \E l \in 1 .. N : Id(l) = t[j].id /\ \A o \in 1 .. l : Id(o) # t[k].id
  <2>1. PICK a \in 1 .. Len(s) : Trim[s[a].id] = t[j].id /\ \A o \in 1 .. a : Trim[s[o].id] # t[k].id
    BY <1>3, <1>8
  <2>2. PICK b \in DOMAIN s : t[k] = s[b]
    BY <1>5
  <2>3. a < b
    BY <1>1, <1>4, <2>1, <2>2
  <2>4. s[a].id = t[j].id /\ s[b].id = t[k].id
    BY <1>1, <1>4, <2>1, <2>2
  <2>5. PICK l \in 1 .. N : Id(l) = s[a].id /\ \A o \in 1 .. l : Id(o) # s[b].id
    <3>1. a \in DOMAIN s
      BY <1>1
    <3>2. \A p, q \in DOMAIN s : p < q =>
            \E l \in 1 .. N : Id(l) = s[p].id /\ \A o \in 1 .. l : Id(o) # s[q].id
      BY <1>2
    <3> HIDE DEF N, Id
    <3> QED
      BY <2>3, <3>1, <3>2
  <2> QED
    BY <2>4, <2>5
<1> QED
  BY <1>3, <1>6, <1>7, <1>8 DEF LastDefinitions

-----------------------------------------------------------------------------
(* What validation establishes *)

LEMMA ValidCheckRuns ==
    ASSUME NEW c \in Checks, ValidCheck(c)
    PROVE  RunnableCheck(c)
<1>1. c.regexps = "compile"
  BY DEF ValidCheck
<1>2. CheckRequires[c.type] \subseteq c.given
  BY DEF ValidCheck
<1>3. /\ CheckRequires["docker_container"] = {"container"}
      /\ CheckRequires["docker_log_pattern"] = {"container", "patterns"}
      /\ CheckRequires["docker_exec"] = {"container", "docker_command"}
      /\ CheckRequires["command"] = {"command"} /\ CheckRequires["systemd_service"] = {"service"}
  BY DEF CheckRequires
<1>4. c.type = "http_json" => c.duration \in {"blank", "positive"}
  BY DEF ValidCheck
<1> QED
  BY <1>1, <1>2, <1>3, <1>4 DEF RunnableCheck

LEMMA ValidActionRuns ==
    ASSUME NEW a \in Actions, ValidAction(a)
    PROVE  RunnableAction(a)
<1>1. ActionRequires[a.type] \subseteq a.given
  BY DEF ValidAction
<1>2. /\ ActionRequires["docker_exec"] = {"container", "command"}
      /\ ActionRequires["restart_docker_container"] = {"container"}
      /\ ActionRequires["restart_systemd_service"] = {"service"}
      /\ ActionRequires["command"] = {"command"}
  BY DEF ActionRequires
<1>3. a.type = "sleep" => a.duration \in {"positive", "zero"}
  BY DEF ValidAction
<1> QED
  BY <1>1, <1>2, <1>3 DEF RunnableAction

LEMMA ValidTargetHasHost ==
    ASSUME NEW t, ValidTarget(t)
    PROVE  t.transport # "local" => t.host # "blank"
BY DEF ValidTarget

LEMMA ValidRuns ==
    ASSUME NEW m \in Monitors, Valid(m), m.id # Blank, m.threshold > 0
    PROVE  Runnable(m)
<1>1. /\ m.checks \in Seq(Checks) /\ DOMAIN m.checks = 1 .. Len(m.checks) /\ Len(m.checks) \in Nat
      /\ m.recovery \in Seq(Actions)
  BY DEF Monitors
<1>2. /\ m.interval = "positive" /\ ValidTarget(m.target)
      /\ \A j \in DOMAIN m.checks : ValidCheck(m.checks[j])
      /\ \A j, k \in DOMAIN m.checks : j < k => m.checks[j].id # m.checks[k].id
      /\ \A j \in DOMAIN m.recovery : ValidAction(m.recovery[j])
  BY DEF Valid
<1>3. m.target.transport # "local" => m.target.host # "blank"
  BY <1>2, ValidTargetHasHost
<1>4. \A c \in DOMAIN m.checks : RunnableCheck(m.checks[c])
  BY <1>1, <1>2, ValidCheckRuns
<1>5. \A c, d \in DOMAIN m.checks : m.checks[c].id = m.checks[d].id => c = d
  BY <1>1, <1>2
<1>6. \A a \in DOMAIN m.recovery : RunnableAction(m.recovery[a])
  BY <1>1, <1>2, ValidActionRuns
<1> QED
  BY <1>2, <1>3, <1>4, <1>5, <1>6 DEF Runnable

-----------------------------------------------------------------------------
(* The invariant *)

LEMMA NoConfigType == NoConfig \in Configs
<1>1. <<>> \in Seq(Monitors)
  OBVIOUS
<1> QED
  BY <1>1 DEF NoConfig, Configs

LEMMA ConfigFields ==
    ASSUME NEW c \in Configs
    PROVE  /\ c.settings \in [Settings -> Texts \cup {Blank}] /\ c.events_max \in Int
           /\ c.monitors \in Seq(Monitors) /\ Len(c.monitors) \in Nat
           /\ DOMAIN c.monitors = 1 .. Len(c.monitors)
           /\ c # Torn
BY ConfigAssumption DEF Configs

LEMMA ConfigInvInit == ConfigInit => ConfigInv
<1> SUFFICES ASSUME ConfigInit PROVE ConfigInv
  OBVIOUS
<1>1. /\ document \in Documents /\ document \in Configs /\ env \in Environments /\ file = document
      /\ onDisk = {document} /\ temp = Torn /\ pc = "down" /\ cfg = NoConfig
      /\ next = 1 /\ deduped = <<>> /\ again = FALSE
  BY ConfigAssumption DEF ConfigInit
<1>2. ConfigTypeOK
  <2>1. <<>> \in Seq(Monitors) /\ 1 \in Nat \ {0} /\ FALSE \in BOOLEAN
    OBVIOUS
  <2> QED
    BY <1>1, <2>1, NoConfigType, Zenon DEF ConfigTypeOK
<1>3. DiskInv
  BY <1>1 DEF DiskInv, SameMeaning
<1>4. DedupeInv /\ WriteInv /\ NormalInv
  BY <1>1 DEF DedupeInv, WriteInv, NormalInv
<1> QED
  BY <1>2, <1>3, <1>4 DEF ConfigInv

LEMMA ReadConfigStep ==
    ASSUME ConfigInv, ReadConfig
    PROVE  ConfigInv'
<1>1. /\ ConfigTypeOK /\ DiskInv
      /\ UNCHANGED <<document, env, file, onDisk, temp>>
      /\ next' = 1 /\ deduped' = <<>> /\ again' = FALSE
  BY DEF ConfigInv, ReadConfig, Unloaded
<1>0. <<>> \in Seq(Monitors) /\ 1 \in Nat \ {0} /\ FALSE \in BOOLEAN
  OBVIOUS
<1>2. CASE pc' = "failed" /\ cfg' = cfg
  <2>1. ConfigTypeOK'
    BY <1>0, <1>1, <1>2, Zenon DEF ConfigTypeOK, Ended
  <2>2. DiskInv'
    BY <1>1 DEF DiskInv, SameMeaning
  <2>3. DedupeInv' /\ WriteInv' /\ NormalInv'
    BY <1>2 DEF DedupeInv, WriteInv, NormalInv
  <2> QED
    BY <2>1, <2>2, <2>3 DEF ConfigInv
<1>3. CASE file # Torn /\ pc' = "deduping" /\ cfg' = file
  <2>1. cfg' \in Configs /\ SameMeaning(cfg')
    BY <1>1, <1>3 DEF ConfigTypeOK, DiskInv
  <2>2. ConfigTypeOK'
    BY <1>0, <1>1, <1>3, <2>1, Zenon DEF ConfigTypeOK, Loading
  <2>3. DiskInv'
    BY <1>1 DEF DiskInv, SameMeaning
  <2>4. DedupeInv'
    <3>1. next' - 1 = 0 /\ LastDefinitions(<<>>, cfg'.monitors, 0)
      BY <1>1, <2>1, ConfigFields, LastDefinitionsEmpty
    <3>2. SameMeaning(cfg)' /\ NoBlank' /\ next' <= Len(cfg'.monitors) + 1
      BY <1>1, <2>1, ConfigFields DEF SameMeaning, NoBlank
    <3> QED
      BY <1>1, <3>1, <3>2 DEF DedupeInv
  <2>5. WriteInv' /\ NormalInv'
    BY <1>3 DEF WriteInv, NormalInv
  <2> QED
    BY <2>2, <2>3, <2>4, <2>5 DEF ConfigInv
<1> QED
  BY <1>2, <1>3 DEF ReadConfig

LEMMA DedupeMonitorStep ==
    ASSUME ConfigInv, DedupeMonitor
    PROVE  ConfigInv'
<1> DEFINE m == Trimmed(cfg.monitors[next])
<1>1. /\ ConfigTypeOK /\ DiskInv
      /\ pc = "deduping" /\ next \in DOMAIN cfg.monitors /\ UNCHANGED <<document, env, file, onDisk, temp, cfg>>
  BY DEF ConfigInv, DedupeMonitor, Unloaded
<1>2. /\ SameMeaning(cfg) /\ NoBlank
      /\ LastDefinitions(deduped, cfg.monitors, next - 1)
      /\ cfg \in Configs /\ deduped \in Seq(Monitors) /\ next \in Nat \ {0}
  BY <1>1 DEF ConfigInv, DedupeInv, ConfigTypeOK
<1>3. DiskInv'
  BY <1>1 DEF DiskInv, SameMeaning
<1>4. CASE pc' = "rejected" /\ UNCHANGED <<next, deduped, again>>
  BY <1>1, <1>3, <1>4 DEF ConfigInv, ConfigTypeOK, Ended, DedupeInv, WriteInv, NormalInv
<1>5. CASE /\ m.id # Blank /\ deduped' = Put(deduped, m) /\ next' = next + 1 /\ pc' = pc
           /\ again' = (again \/ m.id \in IdsOf(deduped))
  <2>1. /\ cfg.monitors \in Seq(Monitors) /\ DOMAIN cfg.monitors = 1 .. Len(cfg.monitors)
        /\ Len(cfg.monitors) \in Nat
    BY <1>2, ConfigFields
  <2>2. m \in Monitors
    BY <1>1, <2>1, TrimmedFacts
  <2>3. deduped' \in Seq(Monitors)
    BY <1>2, <1>5, <2>2, PutFacts
  <2>4. again' \in BOOLEAN
    BY <1>1, <1>5 DEF ConfigTypeOK
  <2>5. ConfigTypeOK'
    BY <1>1, <1>5, <2>3, <2>4 DEF ConfigTypeOK
  <2>6. NoBlank'
    <3> HIDE DEF m
    <3>1. \A j \in DOMAIN deduped : deduped[j].id # Blank
      BY <1>2 DEF NoBlank
    <3>2. CASE m.id \in IdsOf(deduped)
      <4>1. /\ DOMAIN deduped' = DOMAIN deduped
            /\ \A j \in DOMAIN deduped : deduped'[j] = IF deduped[j].id = m.id THEN m ELSE deduped[j]
        BY <1>2, <1>5, <2>2, <3>2, PutFacts
      <4> QED
        BY <1>5, <3>1, <4>1 DEF NoBlank
    <3>3. CASE m.id \notin IdsOf(deduped)
      <4>1. deduped' = Append(deduped, m)
        BY <1>5, <3>3 DEF Put
      <4> QED
        BY <1>2, <1>5, <2>2, <3>1, <4>1 DEF NoBlank
    <3> QED
      BY <3>2, <3>3
  <2>7. LastDefinitions(deduped', cfg.monitors, next)
    <3> DEFINE n == next - 1
    <3>1. n \in Nat /\ n + 1 = next /\ n + 1 \in DOMAIN cfg.monitors /\ LastDefinitions(deduped, cfg.monitors, n)
      BY <1>1, <1>2
    <3> HIDE DEF n
    <3>2. LastDefinitions(Put(deduped, Trimmed(cfg.monitors[n + 1])), cfg.monitors, n + 1)
      BY <1>2, <2>1, <3>1, LastDefinitionsStep
    <3> QED
      BY <1>5, <3>1, <3>2
  <2>8. DedupeInv'
    <3>1. next' - 1 = next /\ next' <= Len(cfg.monitors) + 1
      BY <1>1, <1>2, <1>5, <2>1
    <3>2. SameMeaning(cfg)'
      BY <1>1, <1>2 DEF SameMeaning
    <3> QED
      BY <1>1, <2>6, <2>7, <3>1, <3>2 DEF DedupeInv
  <2>9. WriteInv' /\ NormalInv'
    BY <1>1, <1>5 DEF WriteInv, NormalInv
  <2> QED
    BY <1>3, <2>5, <2>8, <2>9 DEF ConfigInv
<1> QED
  BY <1>4, <1>5 DEF DedupeMonitor

LEMMA EndDedupeStep ==
    ASSUME ConfigInv, EndDedupe
    PROVE  ConfigInv'
<1>1. /\ ConfigTypeOK /\ DiskInv
      /\ pc = "deduping" /\ next \notin DOMAIN cfg.monitors
      /\ UNCHANGED <<document, env, file, onDisk, temp, next, deduped, again>>
      /\ cfg' = [cfg EXCEPT !.monitors = deduped]
      /\ pc' \in {"writing", "overriding"}
  BY DEF ConfigInv, EndDedupe, Unloaded
<1>2. /\ SameMeaning(cfg) /\ NoBlank /\ next <= Len(cfg.monitors) + 1
      /\ LastDefinitions(deduped, cfg.monitors, next - 1)
      /\ cfg \in Configs /\ deduped \in Seq(Monitors) /\ next \in Nat \ {0}
      /\ document \in Configs
  BY <1>1, ConfigAssumption DEF ConfigInv, DedupeInv, ConfigTypeOK
<1>3. /\ cfg.monitors \in Seq(Monitors) /\ document.monitors \in Seq(Monitors)
      /\ Len(cfg.monitors) \in Nat /\ DOMAIN cfg.monitors = 1 .. Len(cfg.monitors)
  BY <1>2, ConfigFields
<1>4. next - 1 = Len(cfg.monitors)
  BY <1>1, <1>2, <1>3
<1>5. LastDefinitions(deduped, document.monitors, Len(document.monitors))
  <2>1. CASE cfg.monitors = document.monitors
    BY <1>2, <1>4, <2>1
  <2>2. CASE LastDefinitions(cfg.monitors, document.monitors, Len(document.monitors))
    BY <1>2, <1>3, <1>4, <2>2, LastDefinitionsTwice
  <2> QED
    BY <1>2, <2>1, <2>2 DEF SameMeaning
<1>6. /\ cfg' \in Configs /\ cfg'.monitors = deduped
      /\ cfg'.settings = document.settings /\ cfg'.events_max = document.events_max
  BY <1>1, <1>2 DEF Configs, SameMeaning
<1>7. ConfigTypeOK'
  BY <1>1, <1>6 DEF ConfigTypeOK, Loading
<1>8. DiskInv'
  BY <1>1 DEF DiskInv, SameMeaning
<1>9. Kept'
  BY <1>1, <1>2, <1>5 DEF Kept, NoBlank
<1>10. DedupeInv' /\ NormalInv'
  BY <1>1 DEF DedupeInv, NormalInv
<1>11. WriteInv'
  BY <1>1, <1>6, <1>9 DEF WriteInv
<1> QED
  BY <1>7, <1>8, <1>10, <1>11 DEF ConfigInv

LEMMA WriteTempStep ==
    ASSUME ConfigInv, WriteTemp
    PROVE  ConfigInv'
<1>1. /\ ConfigTypeOK /\ DiskInv /\ WriteInv /\ pc = "writing" /\ pc' = "renaming" /\ temp' = cfg
      /\ UNCHANGED <<document, env, file, onDisk, cfg, next, deduped, again>>
  BY DEF ConfigInv, WriteTemp, ToFile
<1>2. ConfigTypeOK'
  BY <1>1 DEF ConfigTypeOK, Loading
<1>3. DiskInv'
  BY <1>1 DEF DiskInv, SameMeaning
<1>4. Kept'
  BY <1>1 DEF WriteInv, Kept, NoBlank
<1>5. WriteInv'
  BY <1>1, <1>4 DEF WriteInv
<1>6. DedupeInv' /\ NormalInv'
  BY <1>1 DEF DedupeInv, NormalInv
<1> QED
  BY <1>2, <1>3, <1>5, <1>6 DEF ConfigInv

LEMMA RenameTempStep ==
    ASSUME ConfigInv, RenameTemp
    PROVE  ConfigInv'
<1>1. /\ ConfigTypeOK /\ DiskInv /\ WriteInv /\ pc = "renaming" /\ pc' = "overriding"
      /\ file' = temp /\ onDisk' = onDisk \cup {temp, Torn} /\ temp' = Torn
      /\ UNCHANGED <<document, env, cfg, next, deduped, again>>
  BY DEF ConfigInv, RenameTemp
<1>2. temp = cfg /\ SameMeaning(cfg) /\ Kept
  BY <1>1 DEF WriteInv, SameMeaning, Kept
<1>3. ConfigTypeOK'
  BY <1>1, <1>2 DEF ConfigTypeOK, Loading
<1>4. DiskInv'
  BY <1>1, <1>2 DEF DiskInv, SameMeaning
<1>5. Kept'
  BY <1>1, <1>2 DEF Kept, NoBlank
<1>6. WriteInv'
  BY <1>1, <1>5 DEF WriteInv
<1>7. DedupeInv' /\ NormalInv'
  BY <1>1 DEF DedupeInv, NormalInv
<1> QED
  BY <1>3, <1>4, <1>6, <1>7 DEF ConfigInv

LEMMA SettledFacts ==
    ASSUME NEW c \in Configs, NEW e \in Environments, NEW r, r = Filled(Overridden(c, e))
    PROVE  /\ r \in Configs /\ r.monitors = c.monitors
           /\ r.settings = [s \in Settings |->
                 IF e.settings[s] # Blank THEN e.settings[s]
                 ELSE IF c.settings[s] # Blank THEN c.settings[s]
                 ELSE IF s \in Defaulted THEN "default" ELSE Blank]
           /\ r.events_max =
                 LET max == IF e.events_max # Blank THEN e.events_max ELSE c.events_max IN
                   IF max > 0 THEN max ELSE 1000
<1>1. /\ c.settings \in [Settings -> Texts \cup {Blank}] /\ c.events_max \in Int
      /\ e.settings \in [Settings -> Texts \cup {Blank}] /\ e.events_max \in Int \cup {Blank}
      /\ "default" \in Texts /\ c.monitors \in Seq(Monitors)
  BY ConfigAssumption DEF Configs
<1> DEFINE texts == [s \in Settings |-> IF e.settings[s] # Blank THEN e.settings[s] ELSE c.settings[s]]
           max == IF e.events_max # Blank THEN e.events_max ELSE c.events_max
           all == [s \in Settings |-> IF texts[s] = Blank /\ s \in Defaulted THEN "default" ELSE texts[s]]
<1>2. Overridden(c, e) = [settings |-> texts, events_max |-> max, monitors |-> c.monitors]
  <2>1. Overridden(c, e) = [c EXCEPT !.settings = texts, !.events_max = max]
    BY DEF Overridden
  <2> HIDE DEF texts, max
  <2> QED
    BY <2>1 DEF Configs
<1>3. texts \in [Settings -> Texts \cup {Blank}] /\ max \in Int /\ all \in [Settings -> Texts \cup {Blank}]
  BY <1>1
<1>4. all = [s \in Settings |->
                 IF e.settings[s] # Blank THEN e.settings[s]
                 ELSE IF c.settings[s] # Blank THEN c.settings[s]
                 ELSE IF s \in Defaulted THEN "default" ELSE Blank]
  BY <1>1
<1> HIDE DEF texts, max
<1>5. Filled(Overridden(c, e)) =
        [settings |-> all, events_max |-> IF max <= 0 THEN 1000 ELSE max, monitors |-> c.monitors]
  <2> DEFINE o == Overridden(c, e)
             filled == [s \in Settings |-> IF o.settings[s] = Blank /\ s \in Defaulted THEN "default" ELSE o.settings[s]]
             capped == IF o.events_max <= 0 THEN 1000 ELSE o.events_max
  <2>1. Filled(o) = [o EXCEPT !.settings = filled, !.events_max = capped]
    BY DEF Filled
  <2>2. filled = all
    BY <1>2
  <2>3. capped = IF max <= 0 THEN 1000 ELSE max
    BY <1>2
  <2>4. o = [settings |-> texts, events_max |-> max, monitors |-> c.monitors]
    BY <1>2
  <2> HIDE DEF filled, capped, all, o
  <2>5. Filled(o) = [settings |-> all, events_max |-> capped, monitors |-> c.monitors]
    BY <2>1, <2>2, <2>4
  <2> QED
    BY <2>3, <2>5 DEF o
<1>6. (IF max <= 0 THEN 1000 ELSE max) = (IF max > 0 THEN max ELSE 1000)
      /\ (IF max <= 0 THEN 1000 ELSE max) \in Int
  BY <1>3
<1> HIDE DEF all
<1>7. r \in Configs
  BY <1>1, <1>3, <1>5, <1>6 DEF Configs
<1>8. r.events_max = (IF max > 0 THEN max ELSE 1000) /\ r.settings = all /\ r.monitors = c.monitors
  BY <1>5, <1>6
<1> QED
  BY <1>4, <1>7, <1>8 DEF max

LEMMA SettleStep ==
    ASSUME ConfigInv, Settle
    PROVE  ConfigInv'
<1>1. /\ ConfigTypeOK /\ DiskInv /\ WriteInv /\ pc = "overriding"
      /\ cfg' = Filled(Overridden(cfg, env)) /\ next' = 1
      /\ UNCHANGED <<document, env, file, onDisk, temp, deduped, again>>
      /\ \/ cfg.monitors = <<>> /\ pc' = "rejected"
         \/ cfg.monitors # <<>> /\ pc' = "normalizing"
  BY DEF ConfigInv, Settle, Unloaded
<1>2. /\ Kept /\ cfg.monitors = deduped
      /\ cfg.settings = document.settings /\ cfg.events_max = document.events_max
      /\ cfg \in Configs /\ env \in Environments /\ deduped \in Seq(Monitors)
  BY <1>1 DEF WriteInv, ConfigTypeOK
<1>0. cfg'.settings = [s \in Settings |->
               IF env.settings[s] # Blank THEN env.settings[s]
               ELSE IF cfg.settings[s] # Blank THEN cfg.settings[s]
               ELSE IF s \in Defaulted THEN "default" ELSE Blank]
  BY <1>1, <1>2, SettledFacts
<1>3. cfg' \in Configs /\ cfg'.monitors = deduped
  BY <1>0, <1>1, <1>2, SettledFacts
<1>4. Current'
  <2>1. cfg'.settings = [s \in Settings |->
                 IF env.settings[s] # Blank THEN env.settings[s]
                 ELSE IF document.settings[s] # Blank THEN document.settings[s]
                 ELSE IF s \in Defaulted THEN "default" ELSE Blank]
    BY <1>0, <1>2
  <2>2. cfg'.events_max = LET max == IF env.events_max # Blank THEN env.events_max ELSE document.events_max IN
                            IF max > 0 THEN max ELSE 1000
    BY <1>0, <1>1, <1>2, SettledFacts
  <2> QED
    BY <1>1, <2>1, <2>2 DEF Current
<1>5. ConfigTypeOK'
  <2>1. next' \in Nat \ {0}
    BY <1>1
  <2>2. pc' \in Loading \cup Ended \cup {"down"}
    BY <1>1 DEF Loading, Ended
  <2> QED
    BY <1>1, <1>3, <2>1, <2>2 DEF ConfigTypeOK
<1>6. DiskInv' /\ Kept'
  BY <1>1, <1>2 DEF DiskInv, SameMeaning, Kept, NoBlank
<1>7. DedupeInv' /\ WriteInv'
  BY <1>1 DEF DedupeInv, WriteInv
<1>8. NormalInv'
  <2>1. CASE pc' = "rejected"
    BY <2>1 DEF NormalInv
  <2>2. CASE pc' = "normalizing" /\ deduped # <<>>
    <3>1. \A j \in DOMAIN deduped : j >= 1
      BY <1>2
    <3>2. cfg'.monitors # <<>> /\ DOMAIN cfg'.monitors = DOMAIN deduped
          /\ \A j \in DOMAIN deduped : cfg'.monitors[j] = deduped[j]
      BY <1>3, <2>2
    <3> QED
      BY <1>1, <1>4, <1>6, <2>2, <3>1, <3>2 DEF NormalInv
  <2> QED
    BY <1>1, <1>2, <2>1, <2>2
<1> QED
  BY <1>5, <1>6, <1>7, <1>8 DEF ConfigInv

LEMMA NormalizeMonitorStep ==
    ASSUME ConfigInv, NormalizeMonitor
    PROVE  ConfigInv'
<1> DEFINE m == Completed(cfg.monitors[next])
<1>1. /\ ConfigTypeOK /\ DiskInv /\ NormalInv /\ pc = "normalizing" /\ next \in DOMAIN cfg.monitors
      /\ UNCHANGED <<document, env, file, onDisk, temp, deduped, again>>
  BY DEF ConfigInv, NormalizeMonitor, Unloaded
<1>2. /\ Kept /\ Current /\ cfg.monitors # <<>> /\ DOMAIN cfg.monitors = DOMAIN deduped
      /\ \A j \in DOMAIN deduped :
           \/ j < next /\ cfg.monitors[j] = Completed(deduped[j]) /\ Valid(cfg.monitors[j])
           \/ j >= next /\ cfg.monitors[j] = deduped[j]
      /\ cfg \in Configs /\ deduped \in Seq(Monitors) /\ next \in Nat \ {0}
  BY <1>1 DEF NormalInv, ConfigTypeOK
<1>3. DiskInv' /\ Kept'
  BY <1>1, <1>2 DEF DiskInv, SameMeaning, Kept, NoBlank
<1>4. CASE pc' = "rejected" /\ UNCHANGED <<cfg, next>>
  BY <1>1, <1>3, <1>4 DEF ConfigInv, ConfigTypeOK, Ended, DedupeInv, WriteInv, NormalInv
<1>5. CASE Valid(m) /\ cfg' = [cfg EXCEPT !.monitors[next] = m] /\ next' = next + 1 /\ pc' = pc
  <2>1. cfg.monitors \in Seq(Monitors) /\ DOMAIN cfg.monitors = 1 .. Len(cfg.monitors)
        /\ Len(cfg.monitors) \in Nat
    BY <1>2, ConfigFields
  <2>2. m \in Monitors /\ m = Completed(deduped[next])
    <3>1. cfg.monitors[next] = deduped[next] /\ cfg.monitors[next] \in Monitors
      BY <1>1, <1>2, <2>1
    <3> QED
      BY <3>1, CompletedFacts
  <2> DEFINE monitors == [cfg.monitors EXCEPT ![next] = m]
  <2>3. cfg' = [cfg EXCEPT !.monitors = monitors]
    BY <1>5
  <2> HIDE DEF m
  <2>4. /\ monitors \in Seq(Monitors) /\ DOMAIN monitors = DOMAIN cfg.monitors
        /\ Len(monitors) = Len(cfg.monitors)
        /\ monitors[next] = m /\ \A j \in DOMAIN cfg.monitors : j # next => monitors[j] = cfg.monitors[j]
    BY <1>1, <2>1, <2>2
  <2>5. monitors # <<>>
    BY <1>1, <2>1, <2>4
  <2> HIDE DEF monitors
  <2>6. cfg' \in Configs /\ cfg'.monitors = monitors
        /\ cfg'.settings = cfg.settings /\ cfg'.events_max = cfg.events_max
    BY <1>2, <2>3, <2>4 DEF Configs
  <2>7. ConfigTypeOK'
    BY <1>1, <1>2, <1>5, <2>6 DEF ConfigTypeOK
  <2>8. Current'
    BY <1>1, <1>2, <2>6 DEF Current
  <2>9. ASSUME NEW k \in DOMAIN deduped
        PROVE  \/ k < next + 1 /\ monitors[k] = Completed(deduped[k]) /\ Valid(monitors[k])
               \/ k >= next + 1 /\ monitors[k] = deduped[k]
    <3>1. CASE k = next
      BY <1>2, <1>5, <2>2, <2>4, <3>1 DEF m
    <3>2. CASE k # next
      <4>1. monitors[k] = cfg.monitors[k] /\ k \in Nat
        BY <1>2, <2>1, <2>4, <3>2
      <4> QED
        BY <1>2, <3>2, <4>1
    <3> QED
      BY <3>1, <3>2
  <2>10. NormalInv'
    BY <1>1, <1>2, <1>3, <1>5, <2>4, <2>5, <2>6, <2>8, <2>9 DEF NormalInv
  <2>11. DedupeInv' /\ WriteInv'
    BY <1>1, <1>5 DEF DedupeInv, WriteInv
  <2> QED
    BY <1>3, <2>7, <2>10, <2>11 DEF ConfigInv
<1> QED
  BY <1>4, <1>5 DEF NormalizeMonitor

LEMMA EndNormalizeStep ==
    ASSUME ConfigInv, EndNormalize
    PROVE  ConfigInv'
<1>1. /\ ConfigTypeOK /\ DiskInv /\ NormalInv /\ pc = "normalizing" /\ pc' = "loaded"
      /\ next \notin DOMAIN cfg.monitors
      /\ UNCHANGED <<document, env, file, onDisk, temp, cfg, next, deduped, again>>
  BY DEF ConfigInv, EndNormalize, Unloaded
<1>2. cfg \in Configs /\ deduped \in Seq(Monitors) /\ next \in Nat \ {0}
  BY <1>1 DEF ConfigTypeOK
<1>3. ConfigTypeOK' /\ DiskInv'
  BY <1>1 DEF ConfigTypeOK, Ended, DiskInv, SameMeaning
<1>4. DedupeInv' /\ WriteInv'
  BY <1>1 DEF DedupeInv, WriteInv
<1>5. Kept' /\ Current'
  BY <1>1 DEF NormalInv, Kept, NoBlank, Current
<1>6. \A j \in DOMAIN deduped : j < next /\ cfg.monitors[j] = Completed(deduped[j]) /\ Valid(cfg.monitors[j])
  <2> TAKE j \in DOMAIN deduped
  <2>1. CASE j < next
    BY <1>1, <1>2, <2>1 DEF NormalInv
  <2>2. CASE j >= next
    <3>1. next \in DOMAIN deduped
      BY <1>2, <2>2
    <3> QED
      BY <1>1, <3>1 DEF NormalInv
  <2> QED
    BY <1>2, <2>1, <2>2
<1>7. NormalInv'
  BY <1>1, <1>5, <1>6 DEF NormalInv
<1> QED
  BY <1>3, <1>4, <1>7 DEF ConfigInv

LEMMA FailLoadStep ==
    ASSUME ConfigInv, FailLoad
    PROVE  ConfigInv'
<1>1. /\ ConfigTypeOK /\ DiskInv /\ pc' = "failed"
      /\ UNCHANGED <<document, env, file, onDisk, temp, cfg, next, deduped, again>>
  BY DEF ConfigInv, FailLoad, Unloaded
<1> QED
  BY <1>1 DEF ConfigInv, ConfigTypeOK, Ended, DiskInv, SameMeaning, DedupeInv, WriteInv, NormalInv

LEMMA StopFacts ==
    ASSUME ConfigTypeOK, Stop
    PROVE  /\ UNCHANGED <<document, env>> /\ temp' \in Configs \cup {Torn}
           /\ pc' = "down" /\ pc' \in Loading \cup Ended \cup {"down"}
           /\ cfg' \in Configs /\ deduped' \in Seq(Monitors) /\ next' \in Nat \ {0} /\ again' \in BOOLEAN
           /\ DedupeInv' /\ WriteInv' /\ NormalInv'
<1>1. /\ UNCHANGED <<document, env>> /\ temp' = Torn /\ pc' = "down"
      /\ cfg' = NoConfig /\ deduped' = <<>> /\ next' = 1 /\ again' = FALSE
  BY DEF Stop
<1>2. deduped' \in Seq(Monitors) /\ next' \in Nat \ {0} /\ again' \in BOOLEAN
  <2>1. <<>> \in Seq(Monitors) /\ 1 \in Nat \ {0} /\ FALSE \in BOOLEAN
    OBVIOUS
  <2> QED
    BY <1>1, <2>1, Zenon
<1> QED
  BY <1>1, <1>2, NoConfigType DEF DedupeInv, WriteInv, NormalInv

LEMMA EnvironmentStep ==
    ASSUME ConfigInv, EndProcess \/ LosePower \/ Flush \/ Edit
    PROVE  ConfigInv'
<1>1. /\ ConfigTypeOK /\ DiskInv /\ DedupeInv /\ WriteInv /\ NormalInv
      /\ file \in onDisk /\ file \in Configs \cup {Torn} /\ onDisk \subseteq Configs \cup {Torn}
      /\ document \in Documents /\ env \in Environments
  BY DEF ConfigInv, ConfigTypeOK
<1>2. CASE EndProcess
  <2>1. Stop /\ UNCHANGED <<file, onDisk>>
    BY <1>2 DEF EndProcess
  <2> QED
    BY <1>1, <2>1, StopFacts DEF ConfigInv, ConfigTypeOK, DiskInv, SameMeaning
<1>3. CASE LosePower
  <2>1. PICK c \in onDisk : Stop /\ file' = c /\ onDisk' = {c}
    BY <1>3 DEF LosePower
  <2> QED
    BY <1>1, <2>1, StopFacts DEF ConfigInv, ConfigTypeOK, DiskInv, SameMeaning
<1>4. CASE Flush
  <2>1. onDisk' = {file} /\ UNCHANGED <<document, env, file, temp, pc, cfg, next, deduped, again>>
    BY <1>4 DEF Flush
  <2>2. ConfigTypeOK' /\ DiskInv'
    BY <1>1, <2>1 DEF ConfigTypeOK, DiskInv, SameMeaning
  <2>3. DedupeInv' /\ WriteInv' /\ NormalInv'
    BY <1>1, <2>1 DEF DedupeInv, WriteInv, NormalInv, SameMeaning, Kept, NoBlank, Current
  <2> QED
    BY <2>2, <2>3 DEF ConfigInv
<1>5. CASE Edit
  <2>1. /\ pc = "down" /\ UNCHANGED <<temp, pc, cfg, next, deduped, again>>
    BY <1>5 DEF Edit
  <2>2. DedupeInv' /\ WriteInv' /\ NormalInv'
    BY <2>1 DEF DedupeInv, WriteInv, NormalInv
  <2>3. CASE \E d \in Documents : document' = d /\ file' = d /\ onDisk' = {d} /\ UNCHANGED env
    <3>1. PICK d \in Documents : document' = d /\ file' = d /\ onDisk' = {d} /\ UNCHANGED env
      BY <2>3
    <3>2. d \in Configs
      BY ConfigAssumption
    <3>3. DiskInv'
      BY <3>1 DEF DiskInv, SameMeaning
    <3>4. ConfigTypeOK'
      BY <1>1, <2>1, <3>1, <3>2 DEF ConfigTypeOK
    <3> QED
      BY <2>2, <3>3, <3>4 DEF ConfigInv
  <2>4. CASE \E e \in Environments : env' = e /\ UNCHANGED <<document, file, onDisk>>
    <3>1. env' \in Environments /\ UNCHANGED <<document, file, onDisk>>
      BY <2>4
    <3>2. DiskInv' /\ ConfigTypeOK'
      BY <1>1, <2>1, <3>1 DEF DiskInv, SameMeaning, ConfigTypeOK
    <3> QED
      BY <2>2, <3>2 DEF ConfigInv
  <2> QED
    BY <1>5, <2>3, <2>4 DEF Edit
<1> QED
  BY <1>2, <1>3, <1>4, <1>5

LEMMA ConfigInvStep == ConfigInv /\ [ConfigNext]_configVars => ConfigInv'
<1> SUFFICES ASSUME ConfigInv, [ConfigNext]_configVars PROVE ConfigInv'
  OBVIOUS
<1>1. CASE UNCHANGED configVars
  BY <1>1 DEF configVars, ConfigInv, ConfigTypeOK, DiskInv, DedupeInv, WriteInv, NormalInv,
              SameMeaning, Kept, NoBlank, Current
<1>2. CASE Load
  BY <1>2, ReadConfigStep, DedupeMonitorStep, EndDedupeStep, WriteTempStep, RenameTempStep, SettleStep,
     NormalizeMonitorStep, EndNormalizeStep, FailLoadStep DEF Load
<1>3. CASE EndProcess \/ LosePower \/ Flush \/ Edit
  BY <1>3, EnvironmentStep
<1> QED
  BY <1>1, <1>2, <1>3 DEF ConfigNext

LEMMA ConfigInvariant == ConfigSpec => []ConfigInv
BY ConfigInvInit, ConfigInvStep, PTL DEF ConfigSpec

-----------------------------------------------------------------------------
(* The properties *)

\* Every variable of the load keeps its type (config.Load).
THEOREM ConfigTypeCorrect == ConfigSpec => []ConfigTypeOK
<1>1. ConfigInv => ConfigTypeOK
  BY DEF ConfigInv
<1> QED
  BY <1>1, ConfigInvariant, PTL

\* The last definition of every monitor wins, in files of any length and after
\* any broken-off loads (dedupeMonitors, rewriteConfig).
THEOREM LastDefinitionCorrect == ConfigSpec => []LastDefinitionWins
<1>1. ConfigInv => LastDefinitionWins
  <2> SUFFICES ASSUME ConfigInv, pc = "loaded"
               PROVE  /\ LastDefinitions(deduped, document.monitors, Len(document.monitors))
                      /\ cfg.monitors = [j \in DOMAIN deduped |-> Completed(deduped[j])]
    BY DEF LastDefinitionWins
  <2>1. /\ Kept /\ DOMAIN cfg.monitors = DOMAIN deduped
        /\ \A j \in DOMAIN deduped : cfg.monitors[j] = Completed(deduped[j])
        /\ cfg.monitors \in Seq(Monitors)
    BY ConfigFields DEF ConfigInv, NormalInv, ConfigTypeOK
  <2>2. cfg.monitors = [j \in DOMAIN cfg.monitors |-> cfg.monitors[j]]
    BY <2>1
  <2> QED
    BY <2>1, <2>2 DEF Kept
<1> QED
  BY <1>1, ConfigInvariant, PTL

\* The settings are today's: the file written back has nothing of the environment
\* (applyEnvOverrides, applyDefaults, rewriteConfig).
THEOREM SettingsCorrect == ConfigSpec => []SettingsAreCurrent
<1>1. ConfigInv => SettingsAreCurrent
  BY DEF ConfigInv, NormalInv, SettingsAreCurrent
<1> QED
  BY <1>1, ConfigInvariant, PTL

\* What is loaded has what the engine and the handlers rely on (Normalize,
\* validateTarget, validateCheck, validateAction).
THEOREM EngineRuns == ConfigSpec => []EngineCanRun
<1>1. ConfigInv => EngineCanRun
  <2> SUFFICES ASSUME ConfigInv, pc = "loaded"
               PROVE  /\ cfg.monitors # <<>>
                      /\ \A j \in DOMAIN cfg.monitors : Runnable(cfg.monitors[j])
                      /\ \A j, k \in DOMAIN cfg.monitors : cfg.monitors[j].id = cfg.monitors[k].id => j = k
    BY DEF EngineCanRun
  <2>1. /\ Kept /\ DOMAIN cfg.monitors = DOMAIN deduped /\ cfg.monitors # <<>>
        /\ \A j \in DOMAIN deduped : cfg.monitors[j] = Completed(deduped[j]) /\ Valid(cfg.monitors[j])
        /\ deduped \in Seq(Monitors)
    BY DEF ConfigInv, NormalInv, ConfigTypeOK
  <2>2. ASSUME NEW j \in DOMAIN deduped
        PROVE  /\ cfg.monitors[j] \in Monitors /\ cfg.monitors[j].id = deduped[j].id
               /\ cfg.monitors[j].threshold > 0 /\ cfg.monitors[j].id # Blank
    <3>1. deduped[j] \in Monitors /\ deduped[j].id # Blank /\ cfg.monitors[j] = Completed(deduped[j])
      BY <2>1 DEF Kept, NoBlank
    <3> QED
      BY <3>1, CompletedFacts
  <2>3. \A j \in DOMAIN cfg.monitors : Runnable(cfg.monitors[j])
    BY <2>1, <2>2, ValidRuns
  <2>4. \A j, k \in DOMAIN deduped : deduped[j].id = deduped[k].id => j = k
    BY <2>1 DEF Kept, LastDefinitions
  <2> QED
    BY <2>1, <2>2, <2>3, <2>4
<1> QED
  BY <1>1, ConfigInvariant, PTL

=============================================================================
