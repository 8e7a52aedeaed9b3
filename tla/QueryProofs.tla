----------------------------- MODULE QueryProofs -----------------------------
(***************************************************************************)
(* Proofs for the two readers of the engine's state: Snapshot with any     *)
(* number of monitors in any order, and EventQuery with any history, any   *)
(* filter and any limits.                                                  *)
(***************************************************************************)
EXTENDS Snapshot, EventQuery, TLAPS

-----------------------------------------------------------------------------
(* Snapshot.  The inductive invariant: overall and the counters say what  *)
(* the loop has seen.                                                      *)

\* What the loop knows of the monitors that it has visited
Visited == 1 .. next - 1

CountsInv ==
    \A c \in Counted : count[c] > 0 <=> \E i \in Visited : CountedAs(Statused(i)) = c

HealthLoopInv == next > 0 => IsWorst(overall, next - 1) /\ CountsInv

SnapshotInv == HealthTypeOK /\ HealthLoopInv

-----------------------------------------------------------------------------

LEMMA ConfiguredType ==
    ASSUME HealthTypeOK, NEW i \in DOMAIN Configured
    PROVE  Configured[i] \in Watched /\ Statused(i) \in Statuses
  BY OrderAssumption DEF HealthTypeOK, Statused

LEMMA LengthType == Len(Configured) \in Nat /\ DOMAIN Configured = 1 .. Len(Configured)
  BY OrderAssumption

\* One more monitor: the worse of the two.
LEMMA WorsenIsMax ==
    ASSUME NEW o \in Overalls, NEW s \in Statuses
    PROVE  /\ Worsen(o, s) \in Overalls
           /\ Severity[o] <= Severity[Worsen(o, s)]
           /\ Severity[Seen(s)] <= Severity[Worsen(o, s)]
           /\ Worsen(o, s) = o \/ Worsen(o, s) = Seen(s)
  BY DEF Worsen, Severity, Seen, Overalls, Statuses

LEMMA SeveritiesAreNumbers ==
    /\ \A o \in Overalls : Severity[o] \in Nat
    /\ \A s \in Statuses : Seen(s) \in Overalls
  BY DEF Severity, Overalls, Statuses, Seen

LEMMA HealthTypeStep == HealthTypeOK /\ [HealthNext]_healthVars => HealthTypeOK'
<1> SUFFICES ASSUME HealthTypeOK, [HealthNext]_healthVars PROVE HealthTypeOK'
  OBVIOUS
<1> USE LengthType DEF HealthTypeOK
<1>1. CASE \E m \in Watched, s \in Statuses : SetStatus(m, s)
  BY <1>1 DEF SetStatus
<1>2. CASE BeginHealth
  BY <1>2 DEF BeginHealth, Overalls
<1>3. CASE Visit
  <2>1. Statused(next) \in Statuses
    BY <1>3, ConfiguredType DEF Visit
  <2>2. overall' \in Overalls
    BY <1>3, <2>1, WorsenIsMax DEF Visit, Statused
  <2>3. count' \in [Counted -> Nat]
    BY <1>3 DEF Visit
  <2> QED
    BY <1>3, <2>2, <2>3 DEF Visit
<1>4. CASE AnswerHealth
  BY <1>4 DEF AnswerHealth
<1>5. CASE UNCHANGED healthVars
  BY <1>5 DEF healthVars
<1> QED
  BY <1>1, <1>2, <1>3, <1>4, <1>5 DEF HealthNext

LEMMA VisitIsWorst ==
    ASSUME SnapshotInv, Visit
    PROVE  IsWorst(overall, next - 1)'
<1> DEFINE s == Statused(next)
<1>1. next \in 1 .. Len(Configured) /\ next' = next + 1 /\ status' = status
  BY LengthType DEF Visit
<1>2. s \in Statuses /\ overall \in Overalls /\ overall' = Worsen(overall, s)
  BY <1>1, LengthType, ConfiguredType DEF SnapshotInv, HealthTypeOK, Visit, Statused
<1>3. IsWorst(overall, next - 1)
  BY <1>1 DEF SnapshotInv, HealthLoopInv
<1>4. \A i \in 1 .. next :
        Statused(i)' = Statused(i) /\ Severity[Seen(Statused(i))] \in Nat
  BY <1>1, LengthType, ConfiguredType, SeveritiesAreNumbers DEF Statused, SnapshotInv
<1>5. /\ overall' \in Overalls
      /\ Severity[overall] <= Severity[overall']
      /\ Severity[Seen(s)] <= Severity[overall']
      /\ overall' = overall \/ overall' = Seen(s)
  BY <1>2, WorsenIsMax
<1>6. Severity[overall] \in Nat /\ Severity[overall'] \in Nat
  BY <1>2, <1>5, SeveritiesAreNumbers
<1>7. ASSUME NEW i \in 1 .. next
      PROVE  Severity[Seen(Statused(i))] <= Severity[overall']
  <2>1. CASE i = next
    BY <1>5, <2>1
  <2>2. CASE i \in 1 .. next - 1
    <3>1. Severity[Seen(Statused(i))] <= Severity[overall]
      BY <1>3, <2>2 DEF IsWorst
    <3> QED
      BY <1>4, <1>5, <1>6, <3>1
  <2> QED
    BY <1>1, <2>1, <2>2
<1>8. overall' = "healthy" \/ \E i \in 1 .. next : Seen(Statused(i)) = overall'
  <2>1. overall = "healthy" \/ \E i \in 1 .. next : Seen(Statused(i)) = overall
    BY <1>1, <1>3 DEF IsWorst
  <2>2. next \in 1 .. next
    BY <1>1
  <2> QED
    BY <1>5, <2>1, <2>2
<1>9. (next - 1)' = next
  BY <1>1
<1> HIDE DEF s
<1> QED
  BY <1>4, <1>7, <1>8, <1>9 DEF IsWorst

LEMMA VisitCounts ==
    ASSUME SnapshotInv, Visit
    PROVE  CountsInv'
<1>1. next \in 1 .. Len(Configured) /\ next' = next + 1 /\ status' = status
  BY LengthType DEF Visit
<1>2. SUFFICES ASSUME NEW c \in Counted
               PROVE  count'[c] > 0 <=> \E i \in 1 .. next : CountedAs(Statused(i)) = c
  BY <1>1 DEF CountsInv, Visited, Statused
<1>3. count[c] \in Nat /\ (count[c] > 0 <=> \E i \in 1 .. next - 1 : CountedAs(Statused(i)) = c)
  BY <1>1 DEF SnapshotInv, HealthTypeOK, HealthLoopInv, CountsInv, Visited
<1>4. count'[c] = count[c] + IF c = CountedAs(Statused(next)) THEN 1 ELSE 0
  BY DEF Visit, Statused
<1>5. CASE c = CountedAs(Statused(next))
  <2>1. count'[c] > 0
    BY <1>3, <1>4, <1>5
  <2>2. next \in 1 .. next
    BY <1>1
  <2> QED
    BY <1>5, <2>1, <2>2
<1>6. CASE c # CountedAs(Statused(next))
  <2>1. count'[c] = count[c]
    BY <1>3, <1>4, <1>6
  <2>2. \A i \in 1 .. next : i \in 1 .. next - 1 \/ i = next
    BY <1>1
  <2>3. \A i \in 1 .. next - 1 : i \in 1 .. next
    BY <1>1
  <2> QED
    BY <1>3, <1>6, <2>1, <2>2, <2>3
<1> QED
  BY <1>5, <1>6

LEMMA SnapshotInvInit == HealthInit => SnapshotInv
  BY LengthType DEF HealthInit, SnapshotInv, HealthTypeOK, HealthLoopInv, Overalls

LEMMA SnapshotInvStep == SnapshotInv /\ [HealthNext]_healthVars => SnapshotInv'
<1> SUFFICES ASSUME SnapshotInv, [HealthNext]_healthVars PROVE SnapshotInv'
  OBVIOUS
<1>1. HealthTypeOK'
  BY HealthTypeStep DEF SnapshotInv
<1>2. HealthLoopInv'
  <2>1. CASE \E m \in Watched, s \in Statuses : SetStatus(m, s)
    BY <2>1 DEF SetStatus, HealthLoopInv
  <2>2. CASE BeginHealth
    BY <2>2 DEF BeginHealth, HealthLoopInv, IsWorst, CountsInv, Visited
  <2>3. CASE Visit
    BY <2>3, VisitIsWorst, VisitCounts DEF HealthLoopInv
  <2>4. CASE AnswerHealth
    BY <2>4 DEF AnswerHealth, HealthLoopInv
  <2>5. CASE UNCHANGED healthVars
    BY <2>5 DEF healthVars, HealthLoopInv, IsWorst, CountsInv, Visited, Statused, SnapshotInv
  <2> QED
    BY <2>1, <2>2, <2>3, <2>4, <2>5 DEF HealthNext
<1> QED
  BY <1>1, <1>2 DEF SnapshotInv

LEMMA SnapshotInvariant == HealthSpec => []SnapshotInv
  BY SnapshotInvInit, SnapshotInvStep, PTL DEF HealthSpec

\* Every variable of the loops keeps its type, for any number of monitors
\* (Manager.Snapshot).
THEOREM HealthTypeCorrect == HealthSpec => []HealthTypeOK
<1>1. SnapshotInv => HealthTypeOK
  BY DEF SnapshotInv
<1> QED
  BY <1>1, SnapshotInvariant, PTL

\* The loop returns the worst status of any number of monitors, whatever their
\* order (Manager.Snapshot).
THEOREM OverallCorrect == HealthSpec => []OverallIsWorst
<1>1. SnapshotInv => OverallIsWorst
  BY LengthType DEF SnapshotInv, HealthLoopInv, OverallIsWorst, Finished
<1> QED
  BY <1>1, SnapshotInvariant, PTL

\* The counters agree with the overall status.
THEOREM CountsCorrect == HealthSpec => []CountsAgree
<1>1. SnapshotInv => CountsAgree
  <2> SUFFICES ASSUME SnapshotInv, Finished PROVE CountsAgree
    BY DEF CountsAgree
  <2> DEFINE N == Len(Configured)
  <2>1. IsWorst(overall, N) /\ N \in Nat /\ Visited = 1 .. N /\ CountsInv /\ overall \in Overalls
    BY LengthType DEF SnapshotInv, HealthTypeOK, HealthLoopInv, Finished, Visited
  <2>2. \A i \in 1 .. N : Statused(i) \in Statuses
    BY LengthType, ConfiguredType DEF SnapshotInv
  <2>3. \A c \in Counted : count[c] \in Nat /\ (count[c] > 0 <=> \E i \in 1 .. N : CountedAs(Statused(i)) = c)
    BY <2>1 DEF SnapshotInv, HealthTypeOK, CountsInv
  <2>4. \A i \in 1 .. N, c \in {"failed", "degraded", "recovering"} :
          CountedAs(Statused(i)) = c <=> Seen(Statused(i)) = c
    BY <2>2 DEF CountedAs, Seen, Statuses
  <2>5. \A c \in {"failed", "degraded", "recovering"} :
          count[c] \in Nat /\ (count[c] > 0 <=> \E i \in 1 .. N : Seen(Statused(i)) = c)
    BY <2>3, <2>4 DEF Counted
  <2>6. \A i \in 1 .. N : Severity[Seen(Statused(i))] <= Severity[overall]
    BY <2>1 DEF IsWorst
  <2>7. overall = "healthy" \/ \E i \in 1 .. N : Seen(Statused(i)) = overall
    BY <2>1 DEF IsWorst
  <2>8. overall = "failed" <=> count["failed"] > 0
    BY <2>1, <2>5, <2>6, <2>7 DEF Severity, Overalls
  <2>9. overall = "degraded" <=> count["failed"] = 0 /\ count["degraded"] > 0
    BY <2>1, <2>5, <2>6, <2>7, <2>8 DEF Severity, Overalls
  <2>10. overall = "recovering" => count["recovering"] > 0
    BY <2>5, <2>7
  <2>11. overall = "healthy" => count["recovering"] = 0
    BY <2>5, <2>6 DEF Severity
  <2> QED
    BY <2>8, <2>9, <2>10, <2>11 DEF CountsAgree
<1> QED
  BY <1>1, SnapshotInvariant, PTL

\* GET /health answers for all monitors of one moment (serveHealth).
THEOREM HealthCorrect == HealthSpec => HealthIsHonest
<1>1. SnapshotInv /\ [HealthNext]_healthVars =>
        [next' = 0 /\ next # 0 =>
           (code' = 503 <=> \E m \in Watched : status[m] \in {"failed", "degraded", "unknown"})]_healthVars
  <2> SUFFICES ASSUME SnapshotInv, [HealthNext]_healthVars, next' = 0, next # 0
               PROVE  code' = 503 <=> \E m \in Watched : status[m] \in {"failed", "degraded", "unknown"}
    OBVIOUS
  <2> DEFINE N == Len(Configured)
  <2>1. N \in Nat /\ next \in Nat /\ overall \in Overalls
    BY LengthType DEF SnapshotInv, HealthTypeOK
  <2>2. AnswerHealth
    BY <2>1 DEF HealthNext, SetStatus, BeginHealth, Visit, healthVars
  <2>3. IsWorst(overall, N)
    BY <2>1, <2>2 DEF AnswerHealth, SnapshotInv, HealthLoopInv
  <2>4. code' = 503 <=> overall \in {"unknown", "degraded", "failed"}
    BY <2>1, <2>2 DEF AnswerHealth, OverallStatusHealthy, Overalls
  <2>5. \A i \in 1 .. N : Statused(i) \in Statuses /\ Configured[i] \in Watched
    BY LengthType, ConfiguredType DEF SnapshotInv
  <2>6. ASSUME overall \in {"unknown", "degraded", "failed"}
        PROVE  \E m \in Watched : status[m] \in {"failed", "degraded", "unknown"}
    <3>1. PICK i \in 1 .. N : Seen(Statused(i)) = overall
      BY <2>3, <2>6 DEF IsWorst
    <3>2. Statused(i) \in {"failed", "degraded", "unknown"}
      BY <2>5, <2>6, <3>1 DEF Seen, Statuses
    <3> QED
      BY <2>5, <3>2 DEF Statused
  <2>7. ASSUME NEW m \in Watched, status[m] \in {"failed", "degraded", "unknown"}
        PROVE  overall \in {"unknown", "degraded", "failed"}
    <3>1. PICK i \in 1 .. N : Configured[i] = m
      BY LengthType DEF Watched
    <3>2. Seen(Statused(i)) = status[m] /\ Severity[Seen(Statused(i))] <= Severity[overall]
      BY <2>3, <2>7, <3>1 DEF IsWorst, Seen, Statused
    <3> QED
      BY <2>1, <2>7, <3>2 DEF Severity, Overalls
  <2> QED
    BY <2>4, <2>6, <2>7
<1> QED
  BY <1>1, SnapshotInvariant, PTL DEF HealthSpec, HealthIsHonest

-----------------------------------------------------------------------------
(* EventQuery.  The inductive invariant: of the part of the history that   *)
(* the loop has seen, every match is in the result, newest first.          *)

Sorted == \A k, l \in DOMAIN result : k < l => result[k] > result[l]

QueryLoopInv ==
    reading =>
        /\ Sorted
        /\ \A k \in DOMAIN result : result[k] > index /\ result[k] \in Matching
        /\ \A j \in Matching : j > index => \E k \in DOMAIN result : result[k] = j

QueryInv == QueryTypeOK /\ QueryLoopInv

-----------------------------------------------------------------------------

LEMMA LimitType ==
    ASSUME NEW f \in Filters \cup {NoFilter}
    PROVE  NormalizeEventLimit(f.limit) \in Nat \ {0}
<1>1. f.limit \in Nat
  <2>1. CASE f \in Filters
    <3>1. f.limit \in Limits
      BY <2>1 DEF Filters
    <3> QED
      BY <3>1, QueryAssumption
  <2>2. CASE f = NoFilter
    BY <2>2 DEF NoFilter
  <2> QED
    BY <2>1, <2>2
<1> QED
  BY <1>1, QueryAssumption DEF NormalizeEventLimit

LEMMA TrimType ==
    ASSUME NEW h \in Seq(Events), NEW e \in Events
    PROVE  TrimToLimit(Append(h, e)) \in Seq(Events)
<1> DEFINE g == Append(h, e)
<1>1. g \in Seq(Events) /\ Len(g) \in Nat
  OBVIOUS
<1>2. TrimToLimit(g) \in Seq(Events)
  BY <1>1, QueryAssumption DEF TrimToLimit
<1> QED
  BY <1>2

LEMMA ScanFacts ==
    ASSUME QueryTypeOK, Scan
    PROVE  /\ index \in 1 .. Len(history) /\ index' = index - 1
           /\ history' = history /\ filter' = filter /\ reading' = reading
           /\ Matching' = Matching
           /\ index \in Matching <=> Matches(history[index], filter)
  BY DEF QueryTypeOK, Scan, Matching, Matches

LEMMA QueryTypeStep == QueryTypeOK /\ [QueryNext]_queryVars => QueryTypeOK'
<1> SUFFICES ASSUME QueryTypeOK, [QueryNext]_queryVars PROVE QueryTypeOK'
  OBVIOUS
<1>1. CASE \E e \in Events : AppendEvent(e)
  <2>1. PICK e \in Events : AppendEvent(e)
    BY <1>1
  <2>2. history' \in Seq(Events) /\ reading' = FALSE
    BY <2>1, TrimType DEF AppendEvent, QueryTypeOK
  <2>3. index' = 0 /\ result' = <<>> /\ Len(history') \in Nat
    BY <2>1, <2>2 DEF AppendEvent, QueryTypeOK
  <2>4. result' \in Seq(1 .. Len(history')) /\ Len(result') = Len(result)
    BY <2>1, <2>3 DEF AppendEvent
  <2> QED
    BY <2>1, <2>2, <2>3, <2>4 DEF AppendEvent, QueryTypeOK
<1>2. CASE \E f \in Filters : BeginQuery(f)
  <2>1. PICK f \in Filters : BeginQuery(f)
    BY <1>2
  <2>2. NormalizeEventLimit(f.limit) \in Nat
    BY LimitType
  <2> QED
    BY <2>1, <2>2 DEF BeginQuery, QueryTypeOK
<1>3. CASE Scan
  <2>1. index \in 1 .. Len(history) /\ result \in Seq(1 .. Len(history))
    BY <1>3 DEF Scan, QueryTypeOK
  <2>2. Len(result) < NormalizeEventLimit(filter.limit)
    BY <1>3, LimitType DEF Scan, Full, QueryTypeOK
  <2>3. NormalizeEventLimit(filter.limit) \in Nat /\ Len(result) \in Nat
    BY <2>1, LimitType DEF QueryTypeOK
  <2>4. result' \in Seq(1 .. Len(history)) /\ Len(result') <= Len(result) + 1
    <3>1. CASE Matches(history[index], filter)
      <4>1. result' = Append(result, index)
        BY <1>3, <3>1 DEF Scan
      <4> QED
        BY <2>1, <4>1
    <3>2. CASE ~Matches(history[index], filter)
      <4>1. result' = result
        BY <1>3, <3>2 DEF Scan
      <4> QED
        BY <2>1, <2>3, <4>1
    <3> QED
      BY <3>1, <3>2
  <2>5. Len(result') <= NormalizeEventLimit(filter.limit)
    BY <2>1, <2>2, <2>3, <2>4
  <2> QED
    BY <1>3, <2>1, <2>4, <2>5 DEF Scan, QueryTypeOK
<1>4. CASE AnswerQuery
  <2>1. NormalizeEventLimit(NoFilter.limit) \in Nat
    BY LimitType
  <2>2. /\ <<>> \in Seq(1 .. Len(history)) /\ Len(<<>>) = 0
        /\ 0 \in 0 .. Len(history) /\ Len(<<>>) <= NormalizeEventLimit(NoFilter.limit)
    BY <2>1 DEF QueryTypeOK
  <2> QED
    BY <1>4, <2>1, <2>2 DEF AnswerQuery, QueryTypeOK
<1>5. CASE UNCHANGED queryVars
  BY <1>5 DEF queryVars, QueryTypeOK
<1> QED
  BY <1>1, <1>2, <1>3, <1>4, <1>5 DEF QueryNext

LEMMA ScanLoop ==
    ASSUME QueryTypeOK, QueryLoopInv, Scan
    PROVE  QueryLoopInv'
<1>1. /\ index \in 1 .. Len(history) /\ index' = index - 1 /\ index \in Nat
      /\ Matching' = Matching /\ reading
      /\ index \in Matching <=> Matches(history[index], filter)
  BY ScanFacts DEF Scan, QueryTypeOK
<1>2. /\ Sorted
      /\ \A k \in DOMAIN result : result[k] > index /\ result[k] \in Matching
      /\ \A j \in Matching : j > index => \E k \in DOMAIN result : result[k] = j
  BY <1>1 DEF QueryLoopInv
<1>3. result \in Seq(1 .. Len(history)) /\ Len(history) \in Nat
  BY DEF QueryTypeOK
<1>4. \A j \in Matching : j \in Nat
  BY <1>3 DEF Matching, QueryTypeOK
<1>5. CASE index \notin Matching
  <2>1. result' = result
    BY <1>1, <1>5 DEF Scan
  <2>2. \A j \in Matching : j > index - 1 => j > index
    BY <1>1, <1>4, <1>5
  <2>3. \A k \in DOMAIN result : result[k] > index - 1
    BY <1>1, <1>2, <1>3
  <2> QED
    BY <1>1, <1>2, <2>1, <2>2, <2>3 DEF QueryLoopInv, Sorted
<1>6. CASE index \in Matching
  <2>1. /\ result' = Append(result, index) /\ DOMAIN result' = 1 .. Len(result) + 1
        /\ DOMAIN result = 1 .. Len(result) /\ Len(result) \in Nat
        /\ \A k \in 1 .. Len(result) : result'[k] = result[k]
        /\ result'[Len(result) + 1] = index
    BY <1>1, <1>3, <1>6 DEF Scan
  <2>2. \A k \in 1 .. Len(result) + 1 : k \in DOMAIN result \/ k = Len(result) + 1
    BY <2>1
  <2>3. Sorted'
    <3> SUFFICES ASSUME NEW k \in 1 .. Len(result) + 1, NEW l \in 1 .. Len(result) + 1, k < l
                 PROVE  result'[k] > result'[l]
      BY <2>1 DEF Sorted
    <3>1. k \in DOMAIN result
      BY <2>1
    <3>2. CASE l \in DOMAIN result
      BY <1>2, <2>1, <3>1, <3>2 DEF Sorted
    <3>3. CASE l = Len(result) + 1
      BY <1>2, <2>1, <3>1, <3>3
    <3> QED
      BY <2>2, <3>2, <3>3
  <2>4. \A k \in DOMAIN result' : result'[k] > index - 1 /\ result'[k] \in Matching
    <3> SUFFICES ASSUME NEW k \in 1 .. Len(result) + 1
                 PROVE  result'[k] > index - 1 /\ result'[k] \in Matching
      BY <2>1
    <3>1. CASE k \in DOMAIN result
      <4>1. result'[k] = result[k] /\ result[k] \in Nat
        BY <1>3, <2>1, <3>1
      <4> QED
        BY <1>1, <1>2, <3>1, <4>1
    <3>2. CASE k = Len(result) + 1
      BY <1>1, <1>6, <2>1, <3>2
    <3> QED
      BY <2>2, <3>1, <3>2
  <2>5. ASSUME NEW j \in Matching, j > index - 1
        PROVE  \E k \in DOMAIN result' : result'[k] = j
    <3>1. CASE j = index
      BY <2>1, <3>1
    <3>2. CASE j > index
      <4>1. PICK k \in DOMAIN result : result[k] = j
        BY <1>2, <3>2
      <4>2. k \in 1 .. Len(result) + 1 /\ result'[k] = j
        BY <2>1, <4>1
      <4> QED
        BY <2>1, <4>2
    <3> QED
      BY <1>1, <1>4, <2>5, <3>1, <3>2
  <2> QED
    BY <1>1, <2>3, <2>4, <2>5 DEF QueryLoopInv
<1> QED
  BY <1>5, <1>6

LEMMA QueryInvInit == QueryInit => QueryInv
<1>1. NormalizeEventLimit(NoFilter.limit) \in Nat
  BY LimitType
<1>2. <<>> \in Seq(Events) /\ <<>> \in Seq(1 .. Len(<<>>)) /\ Len(<<>>) = 0
  OBVIOUS
<1>3. 0 \in 0 .. Len(<<>>) /\ Len(<<>>) <= NormalizeEventLimit(NoFilter.limit)
  BY <1>1, <1>2
<1> QED
  BY <1>2, <1>3 DEF QueryInit, QueryInv, QueryTypeOK, QueryLoopInv

LEMMA QueryInvStep == QueryInv /\ [QueryNext]_queryVars => QueryInv'
<1> SUFFICES ASSUME QueryInv, [QueryNext]_queryVars PROVE QueryInv'
  OBVIOUS
<1>1. QueryTypeOK'
  BY QueryTypeStep DEF QueryInv
<1>2. QueryLoopInv'
  <2>1. CASE \E e \in Events : AppendEvent(e)
    BY <2>1 DEF AppendEvent, QueryLoopInv
  <2>2. CASE \E f \in Filters : BeginQuery(f)
    <3>1. PICK f \in Filters : BeginQuery(f)
      BY <2>2
    <3>2. result' = <<>> /\ \A j \in Matching' : j \in 1 .. Len(history) /\ ~(j > index')
      BY <3>1 DEF BeginQuery, Matching, QueryInv, QueryTypeOK
    <3> QED
      BY <3>2 DEF QueryLoopInv, Sorted
  <2>3. CASE Scan
    BY <2>3, ScanLoop DEF QueryInv
  <2>4. CASE AnswerQuery
    BY <2>4 DEF AnswerQuery, QueryLoopInv
  <2>5. CASE UNCHANGED queryVars
    BY <2>5 DEF queryVars, QueryLoopInv, Sorted, Matching, QueryInv
  <2> QED
    BY <2>1, <2>2, <2>3, <2>4, <2>5 DEF QueryNext
<1> QED
  BY <1>1, <1>2 DEF QueryInv

LEMMA QueryInvariant == QuerySpec => []QueryInv
  BY QueryInvInit, QueryInvStep, PTL DEF QuerySpec

\* No answer exceeds the limit, and the other types.
THEOREM QueryTypeCorrect == QuerySpec => []QueryTypeOK
<1>1. QueryInv => QueryTypeOK
  BY DEF QueryInv
<1> QED
  BY <1>1, QueryInvariant, PTL

\* GET /events returns the newest matches, all of them up to the limit, sorted
\* (Manager.EventsSnapshot).
THEOREM QueryCorrect == QuerySpec => []AnswerIsExact
<1>1. QueryInv => AnswerIsExact
  <2> SUFFICES ASSUME QueryInv, Done PROVE AnswerIsExact
    BY DEF AnswerIsExact
  <2>1. /\ Sorted
        /\ \A k \in DOMAIN result : result[k] > index /\ result[k] \in Matching
        /\ \A j \in Matching : j > index => \E k \in DOMAIN result : result[k] = j
    BY DEF QueryInv, QueryLoopInv, Done
  <2>2. /\ index \in Nat /\ Len(history) \in Nat /\ result \in Seq(1 .. Len(history))
        /\ Len(result) \in Nat /\ NormalizeEventLimit(filter.limit) \in Nat
        /\ Len(result) <= NormalizeEventLimit(filter.limit)
    BY LimitType DEF QueryInv, QueryTypeOK
  <2>3. \A j \in Matching : j \in Nat /\ j > 0
    BY <2>2 DEF Matching, QueryInv, QueryTypeOK
  <2>4. ASSUME NEW j \in Matching \ Returned
        PROVE  /\ Len(result) = NormalizeEventLimit(filter.limit)
               /\ \A r \in Returned : j < r
    <3>1. j <= index
      BY <2>1, <2>2, <2>3, <2>4 DEF Returned
    <3>2. Full
      BY <2>2, <2>3, <3>1 DEF Done
    <3>3. \A k \in DOMAIN result : j < result[k]
      <4> TAKE k \in DOMAIN result
      <4>1. result[k] > index /\ result[k] \in Nat
        BY <2>1, <2>2
      <4> QED
        BY <2>2, <2>3, <3>1, <4>1
    <3> QED
      BY <2>2, <3>2, <3>3 DEF Full, Returned
  <2>5. Returned \subseteq Matching
    BY <2>1 DEF Returned
  <2> QED
    BY <2>1, <2>4, <2>5 DEF AnswerIsExact, Sorted
<1> QED
  BY <1>1, QueryInvariant, PTL

=============================================================================
