---------------------------- MODULE MCPagesProofs ----------------------------
(***************************************************************************)
(* Proofs about the pages together (MCPages): where each device and job of *)
(* a bulk action is (BulkJobs), the types of what every page holds, with   *)
(* the invariants of PageProofs and, where those say too little, what they *)
(* leave out; and that the composition keeps what each page promises.      *)
(***************************************************************************)
EXTENDS MCPages, PageProofs, FiniteSetTheorems, SequenceTheorems, TLAPS

-----------------------------------------------------------------------------
(* An action on many devices: each device of the plan is in one place, and *)
(* each job of an action until it has finished.                            *)

BarRow ==
    {b \in [phase: {"closed", "asking", "running"}, kind: {"job", "tag"}, tag: Tags \cup {""},
            plan: Seq(Dev), set: {<<>>} \cup [Dev -> SUBSET Tags], next: Nat, sent: SUBSET Dev,
            ok: Seq(Dev), failed: SUBSET Dev] :
        b.kind = "tag" => b.set \in [Dev -> SUBSET Tags]}
TrackRow == [state: {"none", "polling", "stuck", "over"}, queue: Seq(Dev), polled: SUBSET Dev,
             total: SUBSET Dev, finished: SUBSET Dev, gen: Generation]
JobState == {"none", "running"} \cup JobEnd
BulkShapes ==
    /\ connected \subseteq Dev /\ jobs \in [Op -> [Dev -> JobState]] /\ tags \in [Dev -> SUBSET Tags]
    /\ seen \in [connected: SUBSET Dev, tags: [Dev -> SUBSET Tags]]
    /\ refetch \in BOOLEAN /\ ops \in 0 .. MaxOps /\ generation \in Generation
    /\ bar \in BarRow /\ trackers \in [Op -> TrackRow]
    /\ results \in Seq(Result) /\ Len(results) <= MaxResults
    /\ born \in [Op -> Generation] /\ astray \subseteq Op

\* Three sets that share nothing and make up a fourth.
Parts(A, B, C, whole) ==
    /\ A \cup B \cup C = whole
    /\ A \cap B = {} /\ A \cap C = {} /\ B \cap C = {}
Taken == {bar.plan[i] : i \in 1 .. bar.next - 1}
PlanFine == IsInjective(bar.plan) /\ Len(bar.plan) <= Devices
BarFine ==
    /\ bar.next >= 1 /\ bar.next <= Devices + 1
    /\ bar.phase = "asking" => /\ PlanFine /\ ops < MaxOps /\ bar.next = 1
                               /\ bar.sent = {} /\ bar.ok = <<>> /\ bar.failed = {}
    /\ bar.phase = "running" => /\ PlanFine /\ ops \in Op /\ bar.next <= Len(bar.plan) + 1
                                /\ IsInjective(bar.ok) /\ Parts(bar.sent, ToSet(bar.ok), bar.failed, Taken)
    /\ bar.phase = "closed" => bar.sent = {}
TrackFine(t) == IsInjective(t.queue) /\ Parts(ToSet(t.queue), t.polled, t.finished, t.total)
TracksFine ==
    \A k \in Op : /\ trackers[k].gen <= generation
                  /\ Polling(k) /\ Current(k) => TrackFine(trackers[k])
\* What is running or followed for this session was asked for in it, unless
\* its run saw a change of account.
AskedStays ==
    /\ bar.phase = "running" => AskedHere(ops)
    /\ \A k \in Op : Polling(k) /\ Current(k) => AskedHere(k)
OfThisSession(r) == r.gen = generation /\ AskedHere(r.op)
BulkInv == BulkShapes /\ BarFine /\ TracksFine /\ AskedStays /\ ResultsOfSession

-----------------------------------------------------------------------------
(* Sequences without repetition.                                           *)

LEMMA SeqSet ==
    ASSUME NEW S, NEW s \in Seq(S)
    PROVE  /\ ToSet(s) = {s[i] : i \in 1 .. Len(s)} /\ ToSet(s) \subseteq S /\ Len(s) \in Nat
           /\ DOMAIN s = 1 .. Len(s)
BY LenProperties DEF ToSet

\* The first n of them are n.
LEMMA CountOfFirst ==
    ASSUME NEW S, NEW s \in Seq(S), IsInjective(s), NEW n \in 0 .. Len(s)
    PROVE  /\ IsFiniteSet({s[i] : i \in 1 .. n}) /\ Cardinality({s[i] : i \in 1 .. n}) = n
<1> DEFINE T == {s[i] : i \in 1 .. n}
           f == [i \in 1 .. n |-> s[i]]
<1>1. Len(s) \in Nat /\ DOMAIN s = 1 .. Len(s)
  BY LenProperties
<1>2. f \in Bijection(1 .. n, T)
  <2>1. f \in [1 .. n -> T] /\ \A t \in T : \E i \in 1 .. n : f[i] = t
    OBVIOUS
  <2>2. \A a, b \in 1 .. n : f[a] = f[b] => a = b
    BY <1>1 DEF IsInjective
  <2> QED BY <2>1, <2>2 DEF Bijection, Injection, Surjection, IsInjective
<1>3. ExistsBijection(1 .. n, T)
  BY <1>2 DEF ExistsBijection
<1>4. n \in Nat /\ IsFiniteSet(1 .. n) /\ Cardinality(1 .. n) = n
  BY <1>1, FS_Interval
<1> QED BY <1>3, <1>4, FS_Bijection

LEMMA CountOfSeq ==
    ASSUME NEW S, NEW s \in Seq(S), IsInjective(s)
    PROVE  IsFiniteSet(ToSet(s)) /\ Cardinality(ToSet(s)) = Len(s)
<1>1. PICK n \in 0 .. Len(s) : n = Len(s)
  BY LenProperties
<1>2. IsFiniteSet({s[i] : i \in 1 .. n}) /\ Cardinality({s[i] : i \in 1 .. n}) = n
  BY CountOfFirst
<1>3. ToSet(s) = {s[i] : i \in 1 .. n}
  BY <1>1, SeqSet
<1> QED BY <1>1, <1>2, <1>3

LEMMA CountOfParts ==
    ASSUME NEW A, NEW B, NEW C, NEW whole, Parts(A, B, C, whole), IsFiniteSet(whole)
    PROVE  /\ IsFiniteSet(A) /\ IsFiniteSet(B) /\ IsFiniteSet(C)
           /\ Cardinality(A) + Cardinality(B) + Cardinality(C) = Cardinality(whole)
<1>1. IsFiniteSet(A) /\ IsFiniteSet(B) /\ IsFiniteSet(C)
  BY FS_Subset DEF Parts
<1>2. IsFiniteSet(A \cup B) /\ Cardinality(A \cup B) = Cardinality(A) + Cardinality(B)
  <2>1. Cardinality(A) \in Nat /\ Cardinality(B) \in Nat
    BY <1>1, FS_CardinalityType
  <2>2. A \cap B = {} /\ Cardinality({}) = 0
    BY FS_EmptySet DEF Parts
  <2>3. Cardinality(A \cap B) = 0
    BY <2>2
  <2>4. IsFiniteSet(A \cup B) /\ Cardinality(A \cup B) = Cardinality(A) + Cardinality(B) - Cardinality(A \cap B)
    BY <1>1, FS_Union
  <2> QED BY <2>1, <2>3, <2>4
<1>3. (A \cup B) \cup C = whole /\ Cardinality((A \cup B) \cap C) = 0
  <2>1. (A \cup B) \cap C = {} /\ Cardinality({}) = 0
    BY FS_EmptySet DEF Parts
  <2>2. (A \cup B) \cup C = whole
    BY DEF Parts
  <2> QED BY <2>1, <2>2
<1>4. Cardinality((A \cup B) \cup C) = Cardinality(A \cup B) + Cardinality(C) - Cardinality((A \cup B) \cap C)
  BY <1>1, <1>2, FS_Union
<1>5. Cardinality(A) \in Nat /\ Cardinality(B) \in Nat /\ Cardinality(C) \in Nat
  BY <1>1, FS_CardinalityType
<1> QED BY <1>1, <1>2, <1>3, <1>4, <1>5

LEMMA AppendNew ==
    ASSUME NEW S, NEW s \in Seq(S), NEW x \in S, IsInjective(s), x \notin ToSet(s)
    PROVE  /\ Append(s, x) \in Seq(S) /\ IsInjective(Append(s, x)) /\ ToSet(Append(s, x)) = ToSet(s) \cup {x}
<1> DEFINE t == Append(s, x)
<1>1. /\ t \in Seq(S) /\ Len(t) = Len(s) + 1 /\ Len(s) \in Nat /\ t[Len(s) + 1] = x
      /\ \A i \in 1 .. Len(s) : t[i] = s[i]
  BY AppendProperties, LenProperties
<1>2. /\ DOMAIN t = 1 .. Len(s) + 1 /\ DOMAIN s = 1 .. Len(s)
      /\ ToSet(t) = {t[i] : i \in 1 .. Len(s) + 1} /\ ToSet(s) = {s[i] : i \in 1 .. Len(s)}
  BY <1>1, SeqSet
<1> HIDE DEF t
<1>3. \A i \in 1 .. Len(s) + 1 : i \in 1 .. Len(s) \/ i = Len(s) + 1
  BY <1>1
<1>4. IsInjective(t)
  BY <1>1, <1>2, <1>3 DEF IsInjective
<1>5. ToSet(t) = ToSet(s) \cup {x}
  BY <1>1, <1>2, <1>3
<1> QED BY <1>1, <1>4, <1>5 DEF t

\* A sequence cut in two.
LEMMA CutInTwo ==
    ASSUME NEW S, NEW s \in Seq(S), NEW n \in 0 .. Len(s), IsInjective(s)
    PROVE  LET a == SubSeq(s, 1, n)
               b == SubSeq(s, n + 1, Len(s)) IN
           /\ a \in Seq(S) /\ b \in Seq(S) /\ IsInjective(b)
           /\ ToSet(a) \cup ToSet(b) = ToSet(s) /\ ToSet(a) \cap ToSet(b) = {}
<1> DEFINE a == SubSeq(s, 1, n)
           b == SubSeq(s, n + 1, Len(s))
           l == Len(s)
<1>1. l \in Nat /\ n \in Nat /\ n <= l /\ s \in [1 .. l -> S] /\ DOMAIN s = 1 .. l
  BY LenProperties
<1>2. a \in Seq(S) /\ Len(a) = n /\ \A i \in 1 .. n : a[i] = s[i]
  BY <1>1, SubSeqProperties
<1>3. b \in Seq(S) /\ Len(b) = l - n /\ \A i \in 1 .. l - n : b[i] = s[n + i]
  <2>1. n + 1 \in Int /\ l \in Int /\ \A i \in n + 1 .. l : s[i] \in S
    BY <1>1
  <2>2. /\ b \in Seq(S) /\ Len(b) = IF n + 1 <= l THEN l - (n + 1) + 1 ELSE 0
        /\ \A i \in 1 .. l - (n + 1) + 1 : b[i] = s[(n + 1) + i - 1]
    BY <2>1, SubSeqProperties
  <2>3. l - (n + 1) + 1 = l - n /\ \A i \in 1 .. l - n : (n + 1) + i - 1 = n + i
    BY <1>1
  <2> HIDE DEF b, l
  <2> QED BY <1>1, <2>2, <2>3
<1> HIDE DEF a, b
<1>4. /\ ToSet(a) = {a[i] : i \in 1 .. n} /\ ToSet(b) = {b[i] : i \in 1 .. l - n} /\ DOMAIN b = 1 .. l - n
      /\ ToSet(s) = {s[i] : i \in 1 .. l}
  BY <1>2, <1>3, SeqSet
<1> HIDE DEF l
<1>5. IsInjective(b)
  <2> SUFFICES ASSUME NEW i \in 1 .. l - n, NEW j \in 1 .. l - n, b[i] = b[j] PROVE i = j
    BY <1>4 DEF IsInjective
  <2>1. n + i \in 1 .. l /\ n + j \in 1 .. l /\ s[n + i] = s[n + j]
    BY <1>1, <1>3
  <2> QED BY <1>1, <2>1 DEF IsInjective
<1>6. ToSet(a) \cup ToSet(b) = ToSet(s)
  <2>1. ASSUME NEW i \in 1 .. l PROVE s[i] \in ToSet(a) \cup ToSet(b)
    <3>1. CASE i <= n
      BY <1>1, <1>2, <1>4, <3>1
    <3>2. CASE i > n
      <4>1. i - n \in 1 .. l - n /\ n + (i - n) = i
        BY <1>1, <3>2
      <4> QED BY <1>3, <1>4, <4>1
    <3> QED BY <1>1, <3>1, <3>2
  <2>2. \A i \in 1 .. n : i \in 1 .. l
    BY <1>1
  <2>3. \A i \in 1 .. l - n : n + i \in 1 .. l
    BY <1>1
  <2>4. ToSet(a) \subseteq ToSet(s)
    BY <1>2, <1>4, <2>2
  <2>5. ToSet(b) \subseteq ToSet(s)
    BY <1>3, <1>4, <2>3
  <2>6. ToSet(s) \subseteq ToSet(a) \cup ToSet(b)
    BY <1>4, <2>1
  <2> QED BY <2>4, <2>5, <2>6
<1>7. ToSet(a) \cap ToSet(b) = {}
  <2> SUFFICES ASSUME NEW i \in 1 .. n, NEW j \in 1 .. l - n, a[i] = b[j] PROVE FALSE
    BY <1>4
  <2>1. i \in 1 .. l /\ n + j \in 1 .. l /\ i # n + j
    BY <1>1
  <2>2. s[i] = s[n + j]
    BY <1>2, <1>3
  <2> QED BY <1>1, <2>1, <2>2 DEF IsInjective
<1> QED BY <1>2, <1>3, <1>5, <1>6, <1>7 DEF a, b, l

-----------------------------------------------------------------------------
(* The plan of a dialog.                                                   *)

LEMMA DevCount == /\ Devices \in Nat /\ IsFiniteSet(Dev) /\ Cardinality(Dev) = Devices
                  /\ \A S \in SUBSET Dev : IsFiniteSet(S) /\ Cardinality(S) \in 0 .. Devices
<1>1. Devices \in Nat /\ Devices >= 1
  BY BulkAssumption
<1>2. IsFiniteSet(Dev) /\ Cardinality(Dev) = Devices
  BY <1>1, FS_Interval DEF Dev
<1>3. ASSUME NEW S \in SUBSET Dev PROVE IsFiniteSet(S) /\ Cardinality(S) \in 0 .. Devices
  <2>1. IsFiniteSet(S) /\ Cardinality(S) <= Cardinality(Dev)
    BY <1>2, FS_Subset
  <2>2. Cardinality(S) \in Nat
    BY <2>1, FS_CardinalityType
  <2> QED BY <1>1, <1>2, <2>1, <2>2
<1> QED BY <1>1, <1>2, <1>3

\* A plan names devices, each once.
LEMMA PlanNames ==
    ASSUME NEW S \in SUBSET Dev, NEW P, NEW targets \in Targets(S, P)
    PROVE  targets \in Seq(Dev) /\ IsInjective(targets) /\ Len(targets) \in Nat /\ Len(targets) <= Devices
<1> DEFINE n == Cardinality(S \cap P)
<1>1. n \in Nat /\ n <= Devices
  BY DevCount
<1>2. targets \in [1 .. n -> Dev] /\ \A i, j \in DOMAIN targets : i < j => targets[i] < targets[j]
  BY DEF Targets
<1> HIDE DEF n
<1>3. targets \in Seq(Dev) /\ Len(targets) = n
  BY <1>1, <1>2
<1>4. IsInjective(targets)
  <2> SUFFICES ASSUME NEW i \in 1 .. n, NEW j \in 1 .. n, targets[i] = targets[j] PROVE i = j
    BY <1>2 DEF IsInjective
  <2>1. targets[i] \in Nat /\ targets[j] \in Nat /\ i \in Int /\ j \in Int /\ DOMAIN targets = 1 .. n
    BY <1>1, <1>2, DevCount DEF Dev
  <2>2. ~(i < j) /\ ~(j < i)
    BY <1>2, <2>1
  <2> QED BY <2>1, <2>2
<1> QED BY <1>1, <1>3, <1>4

LEMMA NoneRepeats == <<>> \in Seq(Dev) /\ IsInjective(<<>>) /\ ToSet(<<>>) = {} /\ Len(<<>>) = 0
BY DEF IsInjective, ToSet

LEMMA BulkInvInit == BulkInit => BulkInv
<1> SUFFICES ASSUME BulkInit PROVE BulkInv
  OBVIOUS
<1>1. MaxSignOuts \in Nat /\ MaxOps \in Nat /\ MaxResults \in Nat /\ Devices \in Nat /\ 0 \in Generation /\ 0 \in 0 .. MaxOps
  BY BulkAssumption DEF Generation
<1>2. ClosedBar \in BarRow
  BY NoneRepeats DEF ClosedBar, BarRow
<1>3. NoTracker \in TrackRow
  BY <1>1, NoneRepeats DEF NoTracker, TrackRow
<1>4. trackers \in [Op -> TrackRow]
  BY <1>3 DEF BulkInit
<1>5. results \in Seq(Result) /\ Len(results) <= MaxResults /\ Len(results) = 0
  BY <1>1 DEF BulkInit
<1>6. jobs \in [Op -> [Dev -> JobState]] /\ tags \in [Dev -> SUBSET Tags]
  BY DEF BulkInit, JobState
<1>7. seen \in [connected: SUBSET Dev, tags: [Dev -> SUBSET Tags]]
  BY DEF BulkInit
<1>8. BulkShapes
  <2>1. born \in [Op -> Generation] /\ astray \subseteq Op
    BY <1>1 DEF BulkInit
  <2> QED BY <1>1, <1>2, <1>4, <1>5, <1>6, <1>7, <2>1 DEF BulkShapes, BulkInit
<1>9. BarFine
  <2>1. bar.phase = "closed" /\ bar.sent = {} /\ bar.next = 1
    BY DEF BulkInit, ClosedBar
  <2> QED BY <1>1, <2>1 DEF BarFine
<1>10. TracksFine
  <2>1. \A k \in Op : trackers[k] = NoTracker
    BY DEF BulkInit
  <2> QED BY <1>1, <2>1 DEF TracksFine, BulkInit, NoTracker, Polling
<1>11. ResultsOfSession
  BY <1>5 DEF ResultsOfSession
<1>12. AskedStays
  <2>1. bar.phase = "closed" /\ \A k \in Op : trackers[k] = NoTracker
    BY DEF BulkInit, ClosedBar
  <2> QED BY <2>1 DEF AskedStays, NoTracker, Polling
<1> QED BY <1>8, <1>9, <1>10, <1>11, <1>12 DEF BulkInv

-----------------------------------------------------------------------------
(* The steps of the bar: what is followed and what has come of it stay.    *)

BarStep ==
    /\ UNCHANGED <<connected, seen, refetch, trackers, results, generation, bulkPast>>
    /\ bar'.phase = "running" => bar.phase = "running" /\ ops' = ops
    /\ jobs' \in [Op -> [Dev -> JobState]] /\ tags' \in [Dev -> SUBSET Tags]

LEMMA BarStepOf ==
    ASSUME BulkInv, BarStep, ops' \in 0 .. MaxOps, bar' \in BarRow, BarFine' PROVE BulkInv'
<1>1. BulkShapes'
  BY DEF BulkInv, BulkShapes, BarStep, bulkPast
<1>2. TracksFine'
  BY DEF BulkInv, TracksFine, BarStep, Polling, Current
<1>3. ResultsOfSession'
  BY DEF BulkInv, ResultsOfSession, AskedHere, BarStep, bulkPast
<1>4. AskedStays'
  BY DEF BulkInv, AskedStays, AskedHere, BarStep, bulkPast, Polling, Current
<1> QED BY <1>1, <1>2, <1>3, <1>4 DEF BulkInv

LEMMA AskJobsStep == ASSUME BulkInv, NEW S \in SUBSET Dev, AskJobs(S) PROVE BulkInv'
<1>1. PICK targets \in Targets(S, seen.connected) :
        /\ bar.phase = "closed" /\ ops < MaxOps /\ targets # <<>>
        /\ bar' = [ClosedBar EXCEPT !.phase = "asking", !.plan = targets]
        /\ UNCHANGED <<connected, jobs, tags, seen, refetch, ops, trackers, results, generation, bulkPast>>
  BY DEF AskJobs
<1>2. targets \in Seq(Dev) /\ IsInjective(targets) /\ Len(targets) \in Nat /\ Len(targets) <= Devices
  BY PlanNames
<1>3. bar' = [phase |-> "asking", kind |-> "job", tag |-> "", plan |-> targets, set |-> <<>>,
              next |-> 1, sent |-> {}, ok |-> <<>>, failed |-> {}]
  BY <1>1 DEF ClosedBar
<1>4. bar' \in BarRow
  BY <1>2, <1>3, NoneRepeats DEF BarRow
<1>5. BarFine'
  <2>1. /\ bar'.phase = "asking" /\ bar'.plan = targets /\ bar'.next = 1
        /\ bar'.sent = {} /\ bar'.ok = <<>> /\ bar'.failed = {}
    BY <1>3
  <2>2. ops' = ops /\ ops < MaxOps /\ Devices \in Nat
    BY <1>1, BulkAssumption
  <2> QED BY <1>2, <2>1, <2>2 DEF BarFine, PlanFine
<1>6. ops' \in 0 .. MaxOps /\ BarStep
  BY <1>1, <1>3 DEF BarStep, BulkInv, BulkShapes
<1> QED BY <1>4, <1>5, <1>6, BarStepOf

LEMMA AskTagsStep == ASSUME BulkInv, NEW S \in SUBSET Dev, NEW t \in Tags, AskTags(S, t) PROVE BulkInv'
<1> DEFINE lists == [d \in Dev |-> seen.tags[d] \cup {t}]
<1>1. PICK targets \in Targets(S, {d \in Dev : t \notin seen.tags[d]}) :
        /\ bar.phase = "closed" /\ ops < MaxOps /\ targets # <<>>
        /\ bar' = [ClosedBar EXCEPT !.phase = "asking", !.kind = "tag", !.tag = t, !.plan = targets,
                                    !.set = lists]
        /\ UNCHANGED <<connected, jobs, tags, seen, refetch, ops, trackers, results, generation, bulkPast>>
  BY DEF AskTags
<1>2. targets \in Seq(Dev) /\ IsInjective(targets) /\ Len(targets) \in Nat /\ Len(targets) <= Devices
  BY PlanNames
<1>3. lists \in [Dev -> SUBSET Tags]
  BY DEF BulkInv, BulkShapes
<1> HIDE DEF lists
<1>4. bar' = [phase |-> "asking", kind |-> "tag", tag |-> t, plan |-> targets, set |-> lists,
              next |-> 1, sent |-> {}, ok |-> <<>>, failed |-> {}]
  BY <1>1 DEF ClosedBar
<1>5. bar' \in BarRow
  BY <1>2, <1>3, <1>4, NoneRepeats DEF BarRow
<1>6. BarFine'
  <2>1. /\ bar'.phase = "asking" /\ bar'.plan = targets /\ bar'.next = 1
        /\ bar'.sent = {} /\ bar'.ok = <<>> /\ bar'.failed = {}
    BY <1>4
  <2>2. ops' = ops /\ ops < MaxOps /\ Devices \in Nat
    BY <1>1, BulkAssumption
  <2> QED BY <1>2, <2>1, <2>2 DEF BarFine, PlanFine
<1>7. ops' \in 0 .. MaxOps /\ BarStep
  BY <1>1, <1>4 DEF BarStep, BulkInv, BulkShapes
<1> QED BY <1>5, <1>6, <1>7, BarStepOf

LEMMA DismissStep == ASSUME BulkInv, Dismiss PROVE BulkInv'
<1>1. bar' = ClosedBar /\ ClosedBar \in BarRow
  BY NoneRepeats DEF Dismiss, ClosedBar, BarRow
<1>2. bar'.phase = "closed" /\ bar'.sent = {} /\ bar'.next = 1 /\ Devices \in Nat
  BY <1>1, BulkAssumption DEF ClosedBar
<1>3. BarFine'
  BY <1>2 DEF BarFine
<1>4. ops' \in 0 .. MaxOps /\ BarStep
  BY <1>2 DEF BarStep, Dismiss, BulkInv, BulkShapes
<1> QED BY <1>1, <1>3, <1>4, BarStepOf

LEMMA BulkConfirmStep == ASSUME BulkInv, Confirm PROVE BulkInv'
<1>1. bar \in BarRow /\ ops \in 0 .. MaxOps /\ MaxOps \in Nat
  BY BulkAssumption DEF BulkInv, BulkShapes
<1>2. /\ PlanFine /\ ops < MaxOps /\ bar.next = 1 /\ bar.sent = {} /\ bar.ok = <<>> /\ bar.failed = {}
      /\ bar.phase = "asking"
  BY DEF Confirm, BulkInv, BarFine
<1>3. bar' \in BarRow /\ bar'.phase = "running" /\ ops' \in Op /\ bar'.plan = bar.plan /\ bar'.next = 1
      /\ bar'.sent = {} /\ bar'.ok = <<>> /\ bar'.failed = {}
  <2>1. bar' = [bar EXCEPT !.phase = "running"] /\ ops' = ops + 1
    BY DEF Confirm
  <2>2. ops' \in Op
    BY <1>1, <1>2, <2>1 DEF Op
  <2>3. bar' \in BarRow /\ bar'.phase = "running" /\ bar'.plan = bar.plan /\ bar'.next = bar.next
        /\ bar'.sent = bar.sent /\ bar'.ok = bar.ok /\ bar'.failed = bar.failed
    BY <1>1, <2>1 DEF BarRow
  <2> QED BY <1>2, <2>2, <2>3
<1>4. Taken' = {}
  BY <1>3 DEF Taken
<1>5. bar'.next <= Len(bar'.plan) + 1
  <2>1. bar'.plan \in Seq(Dev)
    BY <1>3 DEF BarRow
  <2>2. Len(bar'.plan) \in Nat
    BY <2>1, LenProperties
  <2> QED BY <1>3, <2>2
<1>6. Parts(bar'.sent, ToSet(bar'.ok), bar'.failed, Taken')
  BY <1>3, <1>4, NoneRepeats DEF Parts
<1>7. PlanFine'
  BY <1>2, <1>3 DEF PlanFine
<1>8. BarFine'
  BY <1>3, <1>5, <1>6, <1>7, NoneRepeats, DevCount DEF BarFine
<1>9. ops' \in 0 .. MaxOps
  BY <1>1, <1>3 DEF Op
<1>10. /\ UNCHANGED <<connected, jobs, tags, seen, refetch, trackers, results, generation, astray>>
       /\ born' = [born EXCEPT ![ops'] = generation]
  BY DEF Confirm
<1>11. BulkShapes'
  <2>1. born' \in [Op -> Generation]
    BY <1>3, <1>10 DEF BulkInv, BulkShapes
  <2> QED BY <1>3, <1>9, <1>10, <2>1 DEF BulkInv, BulkShapes
<1>12. TracksFine'
  BY <1>10 DEF BulkInv, TracksFine, Polling, Current
<1>13. born'[ops'] = generation /\ \A k \in Op : AskedHere(k) => AskedHere(k)'
  BY <1>3, <1>10 DEF BulkInv, BulkShapes, AskedHere
<1>14. AskedStays'
  BY <1>10, <1>13 DEF BulkInv, AskedStays, AskedHere, Polling, Current
<1>15. ResultsOfSession'
  <2>1. results' = results /\ generation' = generation /\ results \in Seq(Result)
    BY <1>10 DEF BulkInv, BulkShapes
  <2>2. ASSUME NEW i \in 1 .. Len(results)
        PROVE  results[i].op \in Op /\ results[i].gen = generation /\ AskedHere(results[i].op)
    <3>1. results[i] \in Result
      BY <2>1, ElementOfSeq
    <3> QED BY <3>1 DEF Result, BulkInv, ResultsOfSession
  <2>3. ASSUME NEW i \in 1 .. Len(results) PROVE AskedHere(results[i].op)'
    BY <1>10, <1>13, <2>1, <2>2 DEF AskedHere
  <2> QED BY <2>1, <2>2, <2>3 DEF ResultsOfSession
<1> QED BY <1>8, <1>11, <1>12, <1>14, <1>15 DEF BulkInv

-----------------------------------------------------------------------------
(* The steps of a run.                                                     *)

\* Requests are out only while a run is on.
LEMMA RunOn ==
    ASSUME BulkInv, bar.phase = "running" \/ bar.sent # {}
    PROVE  /\ bar.phase = "running" /\ PlanFine /\ ops \in Op /\ IsInjective(bar.ok)
           /\ Parts(bar.sent, ToSet(bar.ok), bar.failed, Taken)
           /\ bar.next \in Nat /\ bar.next >= 1 /\ bar.next <= Len(bar.plan) + 1
           /\ bar.plan \in Seq(Dev) /\ bar.ok \in Seq(Dev) /\ bar.sent \subseteq Dev /\ bar.failed \subseteq Dev
           /\ bar.kind \in {"job", "tag"} /\ Len(bar.plan) \in Nat /\ Len(bar.plan) <= Devices /\ Devices \in Nat
<1>1. bar \in BarRow /\ BarFine /\ Devices \in Nat
  BY BulkAssumption DEF BulkInv, BulkShapes
<1>2. /\ bar.plan \in Seq(Dev) /\ bar.ok \in Seq(Dev) /\ bar.sent \subseteq Dev /\ bar.failed \subseteq Dev
      /\ bar.kind \in {"job", "tag"} /\ bar.next \in Nat /\ bar.phase \in {"closed", "asking", "running"}
  BY <1>1 DEF BarRow
<1>3. bar.phase = "running"
  BY <1>1, <1>2 DEF BarFine
<1>4. Len(bar.plan) \in Nat
  BY <1>2, LenProperties
<1> QED BY <1>1, <1>2, <1>3, <1>4 DEF BarFine, PlanFine

\* While the run is on, its plan stays.
LEMMA RunStaysFine ==
    ASSUME BulkInv, BarStep, bar.phase = "running", bar' \in BarRow, ops' = ops,
           bar'.phase = "running", bar'.plan = bar.plan,
           bar'.next >= 1, bar'.next <= Len(bar.plan) + 1, IsInjective(bar'.ok),
           Parts(bar'.sent, ToSet(bar'.ok), bar'.failed, Taken')
    PROVE  BulkInv'
<1>1. /\ PlanFine /\ ops \in Op /\ Len(bar.plan) \in Nat /\ Len(bar.plan) <= Devices /\ Devices \in Nat
  BY RunOn
<1>2. bar'.next \in Nat
  BY DEF BarRow
<1>3. PlanFine'
  BY <1>1 DEF PlanFine
<1>4. BarFine'
  BY <1>1, <1>2, <1>3 DEF BarFine
<1>5. ops' \in 0 .. MaxOps
  BY DEF BulkInv, BulkShapes
<1> QED BY <1>4, <1>5, BarStepOf

LEMMA SendNextStep == ASSUME BulkInv, SendNext PROVE BulkInv'
<1> DEFINE x == bar.plan[bar.next]
<1>1. /\ bar.phase = "running" /\ bar.next <= Len(bar.plan)
      /\ bar' = [bar EXCEPT !.sent = @ \cup {x}, !.next = @ + 1] /\ ops' = ops
  BY DEF SendNext, WorkerTakes
<1>2. BarStep /\ bar \in BarRow
  BY <1>1 DEF BarStep, SendNext, BulkInv, BulkShapes
<1>3. /\ PlanFine /\ IsInjective(bar.ok) /\ Parts(bar.sent, ToSet(bar.ok), bar.failed, Taken)
      /\ bar.next \in Nat /\ bar.next >= 1 /\ bar.plan \in Seq(Dev) /\ Len(bar.plan) \in Nat
      /\ bar.sent \subseteq Dev
  BY <1>1, RunOn
<1>4. bar.next \in 1 .. Len(bar.plan) /\ DOMAIN bar.plan = 1 .. Len(bar.plan)
  BY <1>1, <1>3, LenProperties
<1>5. x \in Dev
  BY <1>3, <1>4, ElementOfSeq
<1>6. x \notin Taken
  <2> SUFFICES ASSUME NEW i \in 1 .. bar.next - 1, bar.plan[i] = x PROVE FALSE
    BY DEF Taken
  <2>1. i \in 1 .. Len(bar.plan) /\ i # bar.next
    BY <1>1, <1>3
  <2> QED BY <1>3, <1>4, <2>1 DEF PlanFine, IsInjective
<1> HIDE DEF x
<1>7. /\ bar' \in BarRow /\ bar'.phase = "running" /\ bar'.plan = bar.plan /\ bar'.next = bar.next + 1
      /\ bar'.ok = bar.ok /\ bar'.failed = bar.failed /\ bar'.sent = bar.sent \cup {x}
  <2>1. bar.sent \cup {x} \in SUBSET Dev /\ bar.next + 1 \in Nat
    BY <1>3, <1>5
  <2>2. bar' = [bar EXCEPT !.sent = bar.sent \cup {x}, !.next = bar.next + 1]
    BY <1>1
  <2> QED BY <1>1, <1>2, <2>1, <2>2 DEF BarRow
<1>8. Taken' = Taken \cup {x}
  <2>1. Taken' = {bar.plan[i] : i \in 1 .. bar.next}
    BY <1>3, <1>7 DEF Taken
  <2>2. \A i \in 1 .. bar.next : i \in 1 .. bar.next - 1 \/ i = bar.next
    BY <1>3
  <2>3. (1 .. bar.next - 1) \subseteq 1 .. bar.next /\ bar.next \in 1 .. bar.next
    BY <1>3
  <2> QED BY <2>1, <2>2, <2>3 DEF Taken, x
<1>9. Parts(bar'.sent, ToSet(bar'.ok), bar'.failed, Taken')
  BY <1>3, <1>6, <1>7, <1>8 DEF Parts
<1>10. bar'.next >= 1 /\ bar'.next <= Len(bar.plan) + 1
  BY <1>1, <1>3, <1>7
<1> QED BY <1>1, <1>2, <1>3, <1>7, <1>9, <1>10, RunStaysFine

LEMMA JobServedStep == ASSUME BulkInv, NEW d \in Dev, RequestServed(d) PROVE BulkInv'
<1>1. d \in bar.sent /\ bar' = [bar EXCEPT !.sent = @ \ {d}, !.ok = Append(@, d)] /\ ops' = ops
      /\ UNCHANGED <<connected, seen, refetch, ops, trackers, results, generation, bulkPast>>
  BY DEF RequestServed
<1>2. /\ bar.phase = "running" /\ IsInjective(bar.ok) /\ Parts(bar.sent, ToSet(bar.ok), bar.failed, Taken)
      /\ bar.ok \in Seq(Dev) /\ bar.next >= 1 /\ bar.next <= Len(bar.plan) + 1 /\ ops \in Op
  BY <1>1, RunOn
<1>3. bar \in BarRow
  BY DEF BulkInv, BulkShapes
<1>4. jobs \in [Op -> [Dev -> JobState]] /\ tags \in [Dev -> SUBSET Tags]
  BY DEF BulkInv, BulkShapes
<1>5. jobs' \in [Op -> [Dev -> JobState]] /\ tags' \in [Dev -> SUBSET Tags]
  <2>1. CASE bar.kind = "job"
    <3>1. jobs' = [jobs EXCEPT ![ops][d] = IF d \in connected THEN "running" ELSE "failed"] /\ tags' = tags
      BY <2>1 DEF RequestServed
    <3> QED BY <1>2, <1>4, <3>1 DEF JobState, JobEnd
  <2>2. CASE bar.kind # "job"
    <3>1. tags' = [tags EXCEPT ![d] = bar.set[d]] /\ jobs' = jobs
      BY <2>2 DEF RequestServed
    <3>2. bar.set[d] \in SUBSET Tags
      BY <1>3, <2>2 DEF BarRow
    <3> QED BY <1>4, <3>1, <3>2
  <2> QED BY <2>1, <2>2
<1>6. BarStep
  BY <1>1, <1>2, <1>5 DEF BarStep
<1>7. d \notin ToSet(bar.ok)
  BY <1>1, <1>2 DEF Parts
<1>8. /\ Append(bar.ok, d) \in Seq(Dev) /\ IsInjective(Append(bar.ok, d))
      /\ ToSet(Append(bar.ok, d)) = ToSet(bar.ok) \cup {d}
  BY <1>2, <1>7, AppendNew
<1>9. /\ bar' \in BarRow /\ bar'.phase = "running" /\ bar'.plan = bar.plan /\ bar'.next = bar.next
      /\ bar'.ok = Append(bar.ok, d) /\ bar'.failed = bar.failed /\ bar'.sent = bar.sent \ {d}
  BY <1>1, <1>2, <1>3, <1>8 DEF BarRow
<1>10. Taken' = Taken
  BY <1>9 DEF Taken
<1>11. Parts(bar'.sent, ToSet(bar'.ok), bar'.failed, Taken')
  BY <1>1, <1>2, <1>8, <1>9, <1>10 DEF Parts
<1>12. IsInjective(bar'.ok)
  BY <1>8, <1>9
<1> QED BY <1>1, <1>2, <1>6, <1>9, <1>11, <1>12, RunStaysFine

LEMMA RequestFailsStep == ASSUME BulkInv, NEW d \in Dev, RequestFails(d) PROVE BulkInv'
<1>1. d \in bar.sent /\ bar' = [bar EXCEPT !.sent = @ \ {d}, !.failed = @ \cup {d}] /\ ops' = ops
  BY DEF RequestFails
<1>2. /\ bar.phase = "running" /\ IsInjective(bar.ok) /\ Parts(bar.sent, ToSet(bar.ok), bar.failed, Taken)
      /\ bar.next >= 1 /\ bar.next <= Len(bar.plan) + 1
  BY <1>1, RunOn
<1>3. bar \in BarRow /\ BarStep
  BY <1>1, <1>2 DEF BulkInv, BulkShapes, BarStep, RequestFails
<1>4. /\ bar' \in BarRow /\ bar'.phase = "running" /\ bar'.plan = bar.plan /\ bar'.next = bar.next
      /\ bar'.ok = bar.ok /\ bar'.failed = bar.failed \cup {d} /\ bar'.sent = bar.sent \ {d}
  BY <1>1, <1>2, <1>3 DEF BarRow
<1>5. Taken' = Taken
  BY <1>4 DEF Taken
<1>6. Parts(bar'.sent, ToSet(bar'.ok), bar'.failed, Taken')
  BY <1>1, <1>2, <1>4, <1>5 DEF Parts
<1> QED BY <1>1, <1>2, <1>3, <1>4, <1>6, RunStaysFine

-----------------------------------------------------------------------------
(* The steps of the trackers.                                              *)

ResultsFine == results \in Seq(Result) /\ Len(results) <= MaxResults /\ ResultsOfSession

LEMMA ResultsAre == BulkInv => ResultsFine
BY DEF BulkInv, BulkShapes, ResultsFine

LEMMA TrackersAre == ASSUME BulkInv, NEW k \in Op
    PROVE  /\ trackers[k] \in TrackRow /\ trackers[k].gen <= generation
           /\ Polling(k) /\ Current(k) => TrackFine(trackers[k]) /\ AskedHere(k)
           /\ generation \in Nat /\ trackers[k].gen \in Nat
BY DEF BulkInv, BulkShapes, TracksFine, AskedStays, TrackRow, Generation

\* One tracker moves, and its results with it.
LEMMA TrackStepOf ==
    ASSUME BulkInv, UNCHANGED <<connected, jobs, tags, seen, refetch, ops, bar, generation, bulkPast>>,
           NEW k \in Op, NEW t \in TrackRow, trackers' = [trackers EXCEPT ![k] = t],
           t.gen = trackers[k].gen, Polling(k), t.state = "polling" /\ t.gen = generation => TrackFine(t),
           ResultsFine'
    PROVE  BulkInv'
<1>1. trackers \in [Op -> TrackRow]
  BY DEF BulkInv, BulkShapes
<1>2. trackers' \in [Op -> TrackRow] /\ trackers'[k] = t /\ \A j \in Op : j # k => trackers'[j] = trackers[j]
  BY <1>1
<1>3. BulkShapes'
  BY <1>2 DEF BulkInv, BulkShapes, ResultsFine, bulkPast
<1>4. BarFine'
  BY DEF BulkInv, BarFine, PlanFine, Taken
<1>5. TracksFine'
  <2> SUFFICES ASSUME NEW j \in Op
               PROVE  /\ trackers'[j].gen <= generation'
                      /\ trackers'[j].state = "polling" /\ trackers'[j].gen = generation' => TrackFine(trackers'[j])
    BY DEF TracksFine, Polling, Current
  <2>1. CASE j = k
    BY <1>2, <2>1, TrackersAre
  <2>2. CASE j # k
    BY <1>2, <2>2, TrackersAre DEF Polling, Current
  <2> QED BY <2>1, <2>2
<1>6. AskedStays'
  <2>1. UNCHANGED <<bar, ops, generation, born, astray>>
    BY DEF bulkPast
  <2>2. ASSUME NEW j \in Op, trackers'[j].state = "polling", trackers'[j].gen = generation PROVE AskedHere(j)
    <3>1. CASE j = k
      BY <1>2, <2>2, <3>1, TrackersAre DEF Current
    <3>2. CASE j # k
      BY <1>2, <2>2, <3>2, TrackersAre DEF Polling, Current
    <3> QED BY <3>1, <3>2
  <2> QED BY <2>1, <2>2 DEF BulkInv, AskedStays, AskedHere, Polling, Current
<1> QED BY <1>3, <1>4, <1>5, <1>6 DEF BulkInv, ResultsFine

LEMMA TrackRoundStep == ASSUME BulkInv, NEW k \in Op, Round(k) PROVE BulkInv'
<1> DEFINE t == trackers[k]
           l == Len(t.queue)
           n == IF l < Batch THEN l ELSE Batch
<1>1. /\ Polling(k) /\ t.polled = {} /\ UNCHANGED <<connected, jobs, tags, seen, refetch, ops, bar, results, generation, bulkPast>>
      /\ trackers' = [trackers EXCEPT ![k] =
             IF Current(k) THEN [t EXCEPT !.queue = SubSeq(t.queue, n + 1, l),
                                          !.polled = ToSet(SubSeq(t.queue, 1, n))]
                           ELSE [t EXCEPT !.state = "over"]]
  BY DEF Round
<1>2. t \in TrackRow /\ t.queue \in Seq(Dev) /\ l \in Nat /\ Batch \in Nat
  BY TrackersAre, LenProperties, BulkAssumption DEF TrackRow
<1>3. n \in 0 .. l
  BY <1>2
<1>4. ResultsFine'
  BY <1>1, ResultsAre DEF ResultsFine, ResultsOfSession, AskedHere, bulkPast
<1>5. CASE Current(k)
  <2> DEFINE a == SubSeq(t.queue, 1, n)
             b == SubSeq(t.queue, n + 1, l)
             u == [t EXCEPT !.queue = b, !.polled = ToSet(a)]
  <2>1. TrackFine(t)
    BY <1>1, <1>5, TrackersAre
  <2>2. /\ a \in Seq(Dev) /\ b \in Seq(Dev) /\ IsInjective(b)
        /\ ToSet(a) \cup ToSet(b) = ToSet(t.queue) /\ ToSet(a) \cap ToSet(b) = {}
    BY <1>2, <1>3, <2>1, CutInTwo DEF TrackFine
  <2>3. trackers' = [trackers EXCEPT ![k] = u]
    BY <1>1, <1>5
  <2> HIDE DEF a, b, n, l
  <2>4. ToSet(a) \subseteq Dev
    BY <2>2, SeqSet
  <2>5. /\ u \in TrackRow /\ u.queue = b /\ u.polled = ToSet(a) /\ u.finished = t.finished
        /\ u.total = t.total /\ u.gen = t.gen
    BY <1>2, <2>2, <2>4 DEF TrackRow
  <2>6. TrackFine(u)
    BY <1>1, <2>1, <2>2, <2>5 DEF TrackFine, Parts
  <2> HIDE DEF u
  <2> QED BY <1>1, <1>4, <2>3, <2>5, <2>6, TrackStepOf
<1>6. CASE ~Current(k)
  <2> DEFINE u == [t EXCEPT !.state = "over"]
  <2>1. u \in TrackRow /\ u.state = "over" /\ u.gen = t.gen /\ trackers' = [trackers EXCEPT ![k] = u]
    BY <1>1, <1>2, <1>6 DEF TrackRow
  <2> HIDE DEF u
  <2> QED BY <1>1, <1>4, <2>1, TrackStepOf
<1> QED BY <1>5, <1>6

LEMMA PollFailsStep == ASSUME BulkInv, NEW k \in Op, NEW d \in Dev, PollFails(k, d) PROVE BulkInv'
<1> DEFINE t == trackers[k]
           u == [t EXCEPT !.polled = @ \ {d}, !.queue = Append(@, d)]
<1>1. /\ Polling(k) /\ d \in t.polled /\ UNCHANGED <<connected, jobs, tags, seen, refetch, ops, bar, results, generation, bulkPast>>
      /\ trackers' = [trackers EXCEPT ![k].polled = @ \ {d}, ![k].queue = Append(@, d)]
  BY DEF PollFails
<1>2. t \in TrackRow /\ t.queue \in Seq(Dev) /\ trackers \in [Op -> TrackRow]
  BY TrackersAre DEF TrackRow, BulkInv, BulkShapes
<1>3. ResultsFine'
  BY <1>1, ResultsAre DEF ResultsFine, ResultsOfSession, AskedHere, bulkPast
<1>4. trackers' = [trackers EXCEPT ![k] = u]
  BY <1>1, <1>2
<1>5. Append(t.queue, d) \in Seq(Dev)
  BY <1>2, AppendProperties
<1>6. /\ u \in TrackRow /\ u.queue = Append(t.queue, d) /\ u.polled = t.polled \ {d} /\ u.gen = t.gen
      /\ u.finished = t.finished /\ u.total = t.total /\ u.state = t.state
  BY <1>2, <1>5 DEF TrackRow
<1>7. t.gen = generation => TrackFine(u)
  <2> SUFFICES ASSUME t.gen = generation PROVE TrackFine(u)
    OBVIOUS
  <2>1. TrackFine(t)
    BY <1>1, TrackersAre DEF Current
  <2>2. d \notin ToSet(t.queue)
    BY <1>1, <2>1 DEF TrackFine, Parts
  <2>3. IsInjective(Append(t.queue, d)) /\ ToSet(Append(t.queue, d)) = ToSet(t.queue) \cup {d}
    BY <1>2, <2>1, <2>2, AppendNew DEF TrackFine
  <2> HIDE DEF u
  <2> QED BY <1>1, <1>6, <2>1, <2>3 DEF TrackFine, Parts
<1> HIDE DEF u
<1> QED BY <1>1, <1>3, <1>4, <1>6, <1>7, TrackStepOf

LEMMA GiveUpStep == ASSUME BulkInv, NEW k \in Op, GiveUp(k) PROVE BulkInv'
<1> DEFINE t == trackers[k]
<1>1. UNCHANGED <<connected, jobs, tags, seen, refetch, ops, bar, results, generation, bulkPast>> /\ Polling(k)
  BY DEF GiveUp
<1>2. PICK st \in {"over", "stuck"} : trackers' = [trackers EXCEPT ![k].state = st, ![k].queue = <<>>]
  BY DEF GiveUp
<1> DEFINE u == [t EXCEPT !.state = st, !.queue = <<>>]
<1>3. t \in TrackRow /\ trackers \in [Op -> TrackRow]
  BY TrackersAre DEF BulkInv, BulkShapes
<1>4. trackers' = [trackers EXCEPT ![k] = u]
  BY <1>2, <1>3
<1>5. u \in TrackRow /\ u.state = st /\ u.gen = t.gen
  BY <1>3, NoneRepeats DEF TrackRow
<1>6. ResultsFine'
  BY <1>1, ResultsAre DEF ResultsFine, ResultsOfSession, AskedHere, bulkPast
<1> HIDE DEF u
<1> QED BY <1>1, <1>4, <1>5, <1>6, TrackStepOf

-----------------------------------------------------------------------------
(* What the notification centre gets.                                      *)

LEMMA PushedFine ==
    ASSUME BulkInv, NEW r \in Result, AskedHere(r.op) PROVE LET p == Pushed(r) IN
        p \in Seq(Result) /\ Len(p) <= MaxResults /\ \A i \in 1 .. Len(p) : OfThisSession(p[i])
<1>1. /\ results \in Seq(Result) /\ Len(results) <= MaxResults /\ Len(results) \in Nat /\ MaxResults \in Nat
      /\ MaxResults >= 1 /\ \A i \in 1 .. Len(results) : OfThisSession(results[i])
  BY ResultsAre, LenProperties, BulkAssumption DEF ResultsFine, ResultsOfSession, OfThisSession
<1>2. CASE r.gen # generation
  BY <1>1, <1>2 DEF Pushed
<1>3. CASE r.gen = generation
  <2> DEFINE old == {i \in DOMAIN results : <<results[i].op, results[i].dev>> = <<r.op, r.dev>>}
             kept == IF old = {} THEN results ELSE RemoveAt(results, CHOOSE i \in old : TRUE)
             q == <<r>> \o kept
             m == IF Len(q) < MaxResults THEN Len(q) ELSE MaxResults
  <2>1. kept \in Seq(Result) /\ \A i \in 1 .. Len(kept) : OfThisSession(kept[i])
    <3>1. CASE old = {}
      BY <1>1, <3>1
    <3>2. CASE old # {}
      <4> DEFINE x == CHOOSE i \in old : TRUE
      <4>1. x \in DOMAIN results
        BY <3>2
      <4> DEFINE a == SubSeq(results, 1, x - 1)
                 b == SubSeq(results, x + 1, Len(results))
      <4> HIDE DEF x
      <4>2. x \in 1 .. Len(results) /\ results \in [1 .. Len(results) -> Result]
        BY <1>1, <4>1, LenProperties
      <4>3. /\ a \in Seq(Result) /\ Len(a) \in Nat /\ Len(a) = x - 1 /\ \A i \in 1 .. Len(a) : a[i] = results[i]
        BY <1>1, <4>2, SubSeqProperties
      <4>4. /\ b \in Seq(Result) /\ Len(b) = Len(results) - x
            /\ \A i \in 1 .. Len(b) : b[i] = results[x + i]
        <5>1. x + 1 \in Int /\ Len(results) \in Int /\ \A i \in x + 1 .. Len(results) : results[i] \in Result
          BY <1>1, <4>2
        <5>2. /\ b \in Seq(Result) /\ Len(b) = IF x + 1 <= Len(results) THEN Len(results) - (x + 1) + 1 ELSE 0
              /\ \A i \in 1 .. Len(results) - (x + 1) + 1 : b[i] = results[(x + 1) + i - 1]
          BY <5>1, SubSeqProperties
        <5>3. /\ Len(results) - (x + 1) + 1 = Len(results) - x
              /\ \A i \in 1 .. Len(results) - x : (x + 1) + i - 1 = x + i
          BY <1>1, <4>2
        <5> HIDE DEF b
        <5>4. Len(b) = Len(results) - x
          <6>1. x \in Nat /\ Len(results) \in Nat /\ x <= Len(results)
            BY <1>1, <4>2
          <6>2. Len(b) = IF x + 1 <= Len(results) THEN Len(results) - (x + 1) + 1 ELSE 0
            BY <5>2
          <6> QED BY <6>1, <6>2
        <5>5. \A i \in 1 .. Len(results) - x : b[i] = results[x + i]
          BY <5>2, <5>3
        <5> QED BY <5>2, <5>4, <5>5
      <4> HIDE DEF a, b
      <4>5. a \o b \in Seq(Result) /\ Len(a \o b) = Len(a) + Len(b)
            /\ \A i \in 1 .. Len(a) + Len(b) : (a \o b)[i] = IF i <= Len(a) THEN a[i] ELSE b[i - Len(a)]
        BY <4>3, <4>4, ConcatProperties
      <4>6. kept = a \o b
        BY <3>2 DEF RemoveAt, a, b, x
      <4> SUFFICES ASSUME NEW i \in 1 .. Len(a) + Len(b) PROVE OfThisSession((a \o b)[i])
        BY <4>5, <4>6
      <4>7. CASE i <= Len(a)
        <5>1. i \in 1 .. Len(a) /\ i \in 1 .. Len(results)
          BY <1>1, <4>2, <4>3, <4>7
        <5> QED BY <1>1, <4>3, <4>5, <4>7, <5>1
      <4>8. CASE ~(i <= Len(a))
        <5>1. i - Len(a) \in 1 .. Len(b) /\ x + (i - Len(a)) \in 1 .. Len(results)
          BY <1>1, <4>2, <4>3, <4>4, <4>8
        <5> QED BY <1>1, <4>4, <4>5, <4>8, <5>1
      <4> QED BY <4>7, <4>8
    <3> QED BY <3>1, <3>2
  <2>2. Pushed(r) = SubSeq(q, 1, m)
    BY <1>3 DEF Pushed, Newest
  <2> HIDE DEF kept
  <2>3. <<r>> \in Seq(Result) /\ Len(<<r>>) = 1 /\ <<r>>[1] = r /\ Len(kept) \in Nat
    BY <2>1, LenProperties
  <2>4. /\ q \in Seq(Result) /\ Len(q) = 1 + Len(kept)
        /\ \A i \in 1 .. 1 + Len(kept) : q[i] = IF i <= 1 THEN <<r>>[i] ELSE kept[i - 1]
    BY <2>1, <2>3, ConcatProperties
  <2>5. \A i \in 1 .. Len(q) : OfThisSession(q[i])
    <3> SUFFICES ASSUME NEW i \in 1 .. 1 + Len(kept) PROVE OfThisSession(q[i])
      BY <2>4
    <3>1. CASE i = 1
      BY <1>3, <2>3, <2>4, <3>1 DEF OfThisSession
    <3>2. CASE i # 1
      <4>1. i - 1 \in 1 .. Len(kept) /\ ~(i <= 1)
        BY <2>3, <3>2
      <4> QED BY <2>1, <2>4, <4>1
    <3> QED BY <3>1, <3>2
  <2> HIDE DEF q
  <2>6. m \in Nat /\ m <= Len(q) /\ m <= MaxResults
    BY <1>1, <2>3, <2>4
  <2> HIDE DEF m
  <2>7. SubSeq(q, 1, m) \in Seq(Result) /\ Len(SubSeq(q, 1, m)) = m /\ \A i \in 1 .. m : SubSeq(q, 1, m)[i] = q[i]
    <3>1. q \in [1 .. Len(q) -> Result] /\ Len(q) \in Nat
      BY <2>4, LenProperties
    <3> QED BY <2>6, <3>1, SubSeqProperties
  <2>8. \A i \in 1 .. m : i \in 1 .. Len(q)
    BY <2>3, <2>4, <2>6
  <2> QED BY <2>2, <2>5, <2>6, <2>7, <2>8
<1> QED BY <1>2, <1>3

LEMMA AfterRoundFine ==
    ASSUME NEW t \in TrackRow
    PROVE  AfterRound(t) \in TrackRow /\ AfterRound(t).gen = t.gen /\ (TrackFine(t) => TrackFine(AfterRound(t)))
<1> DEFINE u == [t EXCEPT !.state = "over"]
<1>1. /\ u \in TrackRow /\ u.gen = t.gen /\ u.queue = t.queue /\ u.polled = t.polled
      /\ u.finished = t.finished /\ u.total = t.total
  BY DEF TrackRow
<1>2. AfterRound(t) = u \/ AfterRound(t) = t
  BY DEF AfterRound
<1> HIDE DEF u
<1> QED BY <1>1, <1>2 DEF TrackFine

LEMMA PollAnsweredStep == ASSUME BulkInv, NEW k \in Op, NEW d \in Dev, PollAnswered(k, d) PROVE BulkInv'
<1> DEFINE t == trackers[k]
           rest == [t EXCEPT !.polled = @ \ {d}]
<1>1. /\ Polling(k) /\ d \in t.polled /\ UNCHANGED <<connected, jobs, tags, seen, refetch, ops, bar, generation, bulkPast>>
  BY DEF PollAnswered
<1>2. t \in TrackRow /\ t.queue \in Seq(Dev) /\ trackers \in [Op -> TrackRow] /\ t.gen \in Generation
  BY TrackersAre DEF TrackRow, BulkInv, BulkShapes
<1>3. /\ rest \in TrackRow /\ rest.gen = t.gen /\ rest.queue = t.queue /\ rest.polled = t.polled \ {d}
      /\ rest.finished = t.finished /\ rest.total = t.total
  BY <1>2 DEF TrackRow
<1>4. CASE ~Current(k)
  <2>1. trackers' = [trackers EXCEPT ![k] = AfterRound(rest)] /\ results' = results
    BY <1>4 DEF PollAnswered
  <2>2. ResultsFine'
    BY <1>1, <2>1, ResultsAre DEF ResultsFine, ResultsOfSession, AskedHere, bulkPast
  <2>3. AfterRound(rest) \in TrackRow /\ AfterRound(rest).gen = t.gen
    BY <1>3, AfterRoundFine
  <2>4. t.gen # generation
    BY <1>4 DEF Current
  <2> HIDE DEF rest
  <2> QED BY <1>1, <2>1, <2>2, <2>3, <2>4, TrackStepOf
<1>5. CASE Current(k) /\ jobs[k][d] \notin JobEnd
  <2>1. trackers' = [trackers EXCEPT ![k].polled = @ \ {d}, ![k].queue = Append(@, d)] /\ results' = results
    BY <1>5 DEF PollAnswered
  <2>2. PollFails(k, d)
    BY <1>1, <2>1 DEF PollFails
  <2> QED BY <2>2, PollFailsStep
<1>6. CASE Current(k) /\ jobs[k][d] \in JobEnd
  <2> DEFINE u == [rest EXCEPT !.finished = @ \cup {d}]
             r == [op |-> k, dev |-> d, status |-> jobs[k][d], gen |-> t.gen]
  <2>1. trackers' = [trackers EXCEPT ![k] = AfterRound(u)] /\ results' = Pushed(r)
    BY <1>6 DEF PollAnswered
  <2>2. r \in Result /\ AskedHere(r.op)
    BY <1>1, <1>2, <1>6, TrackersAre DEF Result
  <2> HIDE DEF r
  <2>3. ResultsFine'
    <3>1. /\ Pushed(r) \in Seq(Result) /\ Len(Pushed(r)) <= MaxResults
          /\ \A i \in 1 .. Len(Pushed(r)) : OfThisSession(Pushed(r)[i])
      BY <2>2, PushedFine
    <3> QED BY <1>1, <2>1, <3>1 DEF ResultsFine, ResultsOfSession, OfThisSession, AskedHere, bulkPast
  <2> HIDE DEF rest
  <2>4. /\ u \in TrackRow /\ u.gen = t.gen /\ u.queue = t.queue /\ u.polled = t.polled \ {d}
        /\ u.finished = t.finished \cup {d} /\ u.total = t.total
    BY <1>3 DEF TrackRow
  <2>5. TrackFine(t)
    BY <1>1, <1>6, TrackersAre
  <2> HIDE DEF u
  <2>6. TrackFine(u)
    BY <1>1, <2>4, <2>5 DEF TrackFine, Parts
  <2>7. AfterRound(u) \in TrackRow /\ AfterRound(u).gen = t.gen /\ TrackFine(AfterRound(u))
    BY <2>4, <2>6, AfterRoundFine
  <2> QED BY <1>1, <2>1, <2>3, <2>7, TrackStepOf
<1> QED BY <1>4, <1>5, <1>6

-----------------------------------------------------------------------------
(* A run that ends hands over to a tracker; the session changes.           *)

LEMMA BulkRunEndsStep == ASSUME BulkInv, RunEnds PROVE BulkInv'
<1> DEFINE t == IF bar.ok = <<>> THEN NoTracker
                ELSE [state |-> "polling", queue |-> bar.ok, polled |-> {}, total |-> ToSet(bar.ok),
                      finished |-> {}, gen |-> generation]
<1>1. /\ bar.phase = "running" /\ bar' = ClosedBar
      /\ UNCHANGED <<connected, jobs, tags, seen, ops, results, generation, bulkPast>>
  BY DEF RunEnds
<1>2. refetch' \in BOOLEAN /\ (trackers' = trackers \/ trackers' = [trackers EXCEPT ![ops] = t])
  BY DEF RunEnds, BulkInv, BulkShapes
<1>3. ops \in Op /\ IsInjective(bar.ok) /\ bar.ok \in Seq(Dev)
  BY <1>1, RunOn
<1>4. generation \in Generation /\ 0 \in Generation /\ generation >= 0
  BY BulkAssumption DEF BulkInv, BulkShapes, Generation
<1>5. ToSet(bar.ok) \subseteq Dev
  BY <1>3, SeqSet
<1>6. t \in TrackRow /\ t.gen <= generation /\ (t.state = "polling" => TrackFine(t))
  <2>1. CASE bar.ok = <<>>
    <3>1. t = NoTracker
      BY <2>1
    <3>2. NoTracker \in TrackRow /\ NoTracker.gen = 0 /\ NoTracker.state = "none"
      BY <1>4, NoneRepeats DEF NoTracker, TrackRow
    <3> QED BY <1>4, <3>1, <3>2
  <2>2. CASE bar.ok # <<>>
    <3>1. t = [state |-> "polling", queue |-> bar.ok, polled |-> {}, total |-> ToSet(bar.ok),
               finished |-> {}, gen |-> generation]
      BY <2>2
    <3>2. t \in TrackRow
      BY <1>3, <1>4, <1>5, <3>1 DEF TrackRow
    <3>3. t.gen = generation /\ t.queue = bar.ok /\ t.polled = {} /\ t.finished = {} /\ t.total = ToSet(bar.ok)
      BY <3>1
    <3> HIDE DEF t
    <3>4. TrackFine(t)
      BY <1>3, <3>3 DEF TrackFine, Parts
    <3> QED BY <1>4, <3>2, <3>3, <3>4 DEF Generation
  <2> QED BY <2>1, <2>2
<1> HIDE DEF t
<1>7. trackers \in [Op -> TrackRow]
  BY DEF BulkInv, BulkShapes
<1>8. trackers' \in [Op -> TrackRow] /\ \A j \in Op : trackers'[j] = trackers[j] \/ trackers'[j] = t
  BY <1>2, <1>3, <1>6, <1>7
<1>9. ClosedBar \in BarRow /\ ClosedBar.phase = "closed" /\ ClosedBar.sent = {} /\ ClosedBar.next = 1
  BY NoneRepeats DEF ClosedBar, BarRow
<1>10. BulkShapes'
  BY <1>1, <1>2, <1>8, <1>9 DEF BulkInv, BulkShapes, bulkPast
<1>11. BarFine'
  <2>1. bar'.phase = "closed" /\ bar'.sent = {} /\ bar'.next = 1 /\ Devices \in Nat
    BY <1>1, <1>9, BulkAssumption
  <2> QED BY <2>1 DEF BarFine
<1>12. TracksFine'
  <2> SUFFICES ASSUME NEW j \in Op
               PROVE  /\ trackers'[j].gen <= generation
                      /\ trackers'[j].state = "polling" /\ trackers'[j].gen = generation => TrackFine(trackers'[j])
    BY <1>1 DEF TracksFine, Polling, Current
  <2>1. CASE trackers'[j] = trackers[j]
    BY <2>1, TrackersAre DEF Polling, Current
  <2>2. CASE trackers'[j] = t
    BY <1>6, <2>2
  <2> QED BY <1>8, <2>1, <2>2
<1>13. ResultsOfSession'
  BY <1>1 DEF BulkInv, ResultsOfSession, AskedHere, bulkPast
<1>14. AskedStays'
  <2>1. bar'.phase = "closed" /\ UNCHANGED <<generation, born, astray>> /\ AskedHere(ops)
    BY <1>1, <1>9 DEF bulkPast, BulkInv, AskedStays
  <2>2. ASSUME NEW j \in Op, trackers'[j].state = "polling", trackers'[j].gen = generation PROVE AskedHere(j)
    <3>1. CASE trackers'[j] = trackers[j]
      BY <2>2, <3>1, TrackersAre DEF Polling, Current
    <3>2. CASE j = ops
      BY <2>1, <3>2
    <3>3. j = ops \/ trackers'[j] = trackers[j]
      BY <1>2, <1>3, <1>7
    <3> QED BY <3>1, <3>2, <3>3
  <2> QED BY <2>1, <2>2 DEF AskedStays, AskedHere, Polling, Current
<1> QED BY <1>10, <1>11, <1>12, <1>13, <1>14 DEF BulkInv

LEMMA ChangeAccountStep == ASSUME BulkInv, ChangeAccount PROVE BulkInv'
<1>1. /\ generation < MaxSignOuts /\ results' = <<>> /\ generation' = generation + 1
      /\ bar' = IF bar.phase = "asking" THEN ClosedBar ELSE bar
      /\ trackers' = [k \in Op |-> IF trackers[k].state = "stuck" THEN [trackers[k] EXCEPT !.state = "over"]
                                                                ELSE trackers[k]]
      /\ astray' = IF bar.phase = "running" THEN astray \cup {ops} ELSE astray
      /\ UNCHANGED <<connected, jobs, tags, seen, refetch, ops, born>>
  BY DEF ChangeAccount, ResetJobResults
<1>2. generation \in Nat /\ MaxSignOuts \in Nat /\ generation' \in Generation /\ MaxResults \in Nat /\ Devices \in Nat
  BY <1>1, BulkAssumption DEF BulkInv, BulkShapes, Generation
<1>3. ClosedBar \in BarRow /\ ClosedBar.phase = "closed" /\ ClosedBar.sent = {} /\ ClosedBar.next = 1
  BY NoneRepeats DEF ClosedBar, BarRow
<1>4. ASSUME NEW k \in Op
      PROVE  trackers'[k] \in TrackRow /\ trackers'[k].gen = trackers[k].gen
  <2>1. trackers[k] \in TrackRow
    BY TrackersAre
  <2>2. CASE trackers[k].state = "stuck"
    <3> DEFINE u == [trackers[k] EXCEPT !.state = "over"]
    <3>1. trackers'[k] = u
      BY <1>1, <2>2
    <3>2. u \in TrackRow /\ u.gen = trackers[k].gen
      BY <2>1 DEF TrackRow
    <3> HIDE DEF u
    <3> QED BY <3>1, <3>2
  <2>3. CASE trackers[k].state # "stuck"
    BY <1>1, <2>1, <2>3
  <2> QED BY <2>2, <2>3
<1>5. trackers' \in [Op -> TrackRow]
  <2>1. DOMAIN trackers' = Op /\ trackers' = [k \in DOMAIN trackers' |-> trackers'[k]]
    BY <1>1
  <2> QED BY <1>4, <2>1
<1>6. bar' \in BarRow /\ BarFine'
  <2>1. CASE bar.phase = "asking"
    <3>1. bar' = ClosedBar
      BY <1>1, <2>1
    <3>2. bar' \in BarRow /\ bar'.phase = "closed" /\ bar'.sent = {} /\ bar'.next = 1
      BY <1>3, <3>1
    <3> QED BY <1>2, <3>2 DEF BarFine
  <2>2. CASE bar.phase # "asking"
    BY <1>1, <2>2 DEF BulkInv, BulkShapes, BarFine, PlanFine, Taken
  <2> QED BY <2>1, <2>2
<1>7. results' \in Seq(Result) /\ Len(results') <= MaxResults /\ Len(results') = 0
  BY <1>1, <1>2
<1>8. BulkShapes'
  <2>1. bar.phase = "running" => ops \in Op
    BY DEF BulkInv, BarFine
  <2>2. astray' \subseteq Op
    BY <1>1, <2>1 DEF BulkInv, BulkShapes
  <2> QED BY <1>1, <1>2, <1>5, <1>6, <1>7, <2>2 DEF BulkInv, BulkShapes
<1>9. TracksFine' /\ \A k \in Op : ~Current(k)'
  <2>1. ASSUME NEW k \in Op PROVE trackers'[k].gen < generation'
    BY <1>1, <1>2, <1>4, TrackersAre
  <2>2. ASSUME NEW k \in Op PROVE trackers'[k].gen \in Nat /\ generation' \in Nat
    <3>1. trackers[k].gen \in Nat
      BY TrackersAre
    <3> QED BY <1>1, <1>2, <1>4, <3>1
  <2> QED BY <2>1, <2>2 DEF TracksFine, Current
<1>10. ResultsOfSession'
  BY <1>7 DEF ResultsOfSession
<1>11. AskedStays'
  <2>1. bar'.phase = "running" => bar.phase = "running"
    BY <1>1, <1>3
  <2>2. bar'.phase = "running" => ops' \in astray'
    BY <1>1, <2>1
  <2> QED BY <1>9, <2>2 DEF AskedStays, AskedHere
<1> QED BY <1>6, <1>8, <1>9, <1>10, <1>11 DEF BulkInv

-----------------------------------------------------------------------------
(* The list and the devices; every step.                                   *)

LEMMA AroundStep ==
    ASSUME BulkInv, ListLoads \/ (\E k \in Op, d \in Dev : JobFinishes(k, d)) \/ (\E d \in Dev : AgentDrops(d))
    PROVE  BulkInv'
<1>1. UNCHANGED <<tags, ops, bar, trackers, results, generation, bulkPast>>
  BY DEF ListLoads, JobFinishes, AgentDrops
<1>2. /\ connected' \subseteq Dev /\ seen' \in [connected: SUBSET Dev, tags: [Dev -> SUBSET Tags]]
      /\ refetch' \in BOOLEAN
  <2>1. /\ connected \subseteq Dev /\ seen \in [connected: SUBSET Dev, tags: [Dev -> SUBSET Tags]]
        /\ refetch \in BOOLEAN /\ tags \in [Dev -> SUBSET Tags]
    BY DEF BulkInv, BulkShapes
  <2>2. CASE ListLoads
    BY <2>1, <2>2 DEF ListLoads
  <2>3. CASE connected' \subseteq connected /\ seen' = seen /\ refetch' = refetch
    BY <2>1, <2>3
  <2> QED BY <2>2, <2>3 DEF JobFinishes, AgentDrops
<1>3. jobs' \in [Op -> [Dev -> JobState]]
  <2>1. jobs \in [Op -> [Dev -> JobState]]
    BY DEF BulkInv, BulkShapes
  <2>2. CASE \E k \in Op, d \in Dev : JobFinishes(k, d)
    <3>1. PICK k \in Op, d \in Dev, s \in JobEnd : jobs' = [jobs EXCEPT ![k][d] = s]
      BY <2>2 DEF JobFinishes
    <3> QED BY <2>1, <3>1 DEF JobState
  <2>3. CASE jobs' = jobs
    BY <2>1, <2>3
  <2> QED BY <2>2, <2>3 DEF ListLoads, AgentDrops
<1>4. BulkShapes'
  BY <1>1, <1>2, <1>3 DEF BulkInv, BulkShapes, bulkPast
<1>5. BarFine'
  BY <1>1 DEF BulkInv, BarFine, PlanFine, Taken
<1>6. TracksFine'
  BY <1>1 DEF BulkInv, TracksFine, Polling, Current
<1>7. ResultsOfSession' /\ AskedStays'
  BY <1>1 DEF BulkInv, ResultsOfSession, AskedStays, AskedHere, bulkPast, Polling, Current
<1> QED BY <1>4, <1>5, <1>6, <1>7 DEF BulkInv

LEMMA BulkInvStep == BulkInv /\ [BulkNext]_bulkVars => BulkInv'
<1> SUFFICES ASSUME BulkInv, [BulkNext]_bulkVars PROVE BulkInv'
  OBVIOUS
<1>1. CASE Bar
  <2>1. \A S \in SUBSET Dev : AskJobs(S) => BulkInv'
    BY AskJobsStep
  <2>2. \A S \in SUBSET Dev, t \in Tags : AskTags(S, t) => BulkInv'
    BY AskTagsStep
  <2> QED BY <1>1, <2>1, <2>2, DismissStep, BulkConfirmStep DEF Bar
<1>2. CASE BulkRun
  BY <1>2, SendNextStep, BulkRunEndsStep, JobServedStep, RequestFailsStep DEF BulkRun
<1>3. CASE Follow
  <2>1. PICK k \in Op : Round(k) \/ GiveUp(k) \/ \E d \in Dev : PollAnswered(k, d) \/ PollFails(k, d)
    BY <1>3 DEF Follow
  <2> QED BY <2>1, TrackRoundStep, GiveUpStep, PollAnsweredStep, PollFailsStep
<1>4. CASE ChangeAccount
  BY <1>4, ChangeAccountStep
<1>5. CASE ListLoads \/ (\E k \in Op, d \in Dev : JobFinishes(k, d)) \/ (\E d \in Dev : AgentDrops(d))
  BY <1>5, AroundStep
<1>6. CASE UNCHANGED bulkVars
  <2>1. UNCHANGED <<connected, jobs, tags, seen, refetch, ops, bar, trackers, results, generation, bulkPast>>
    BY <1>6 DEF bulkVars
  <2>2. BulkShapes' /\ BarFine' /\ TracksFine'
    BY <2>1 DEF BulkInv, BulkShapes, BarFine, PlanFine, Taken, TracksFine, Polling, Current, bulkPast
  <2>3. AskedStays' /\ ResultsOfSession'
    BY <2>1 DEF BulkInv, AskedStays, AskedHere, Polling, Current, ResultsOfSession, bulkPast
  <2> QED BY <2>2, <2>3 DEF BulkInv
<1> QED BY <1>1, <1>2, <1>3, <1>4, <1>5, <1>6 DEF BulkNext

\* Counts follow from sequences without repetition and sets that are apart.
LEMMA InvAccounts == BulkInv => JobsAccounted
<1> SUFFICES ASSUME BulkInv PROVE EveryDeviceOnce
  BY DEF JobsAccounted, BulkInv
<1>1. ASSUME bar.phase = "running"
      PROVE  /\ bar.sent \cup ToSet(bar.ok) \cup bar.failed = Taken
             /\ Cardinality(bar.sent) + Len(bar.ok) + Cardinality(bar.failed) = bar.next - 1
             /\ bar.sent = {} /\ ~WorkerTakes => Taken = ToSet(bar.plan)
  <2>1. /\ PlanFine /\ IsInjective(bar.ok) /\ Parts(bar.sent, ToSet(bar.ok), bar.failed, Taken)
        /\ bar.next \in Nat /\ bar.next >= 1 /\ bar.next <= Len(bar.plan) + 1
        /\ bar.plan \in Seq(Dev) /\ bar.ok \in Seq(Dev) /\ Len(bar.plan) \in Nat
    BY <1>1, RunOn
  <2>2. bar.next - 1 \in 0 .. Len(bar.plan)
    BY <2>1
  <2>3. IsFiniteSet(Taken) /\ Cardinality(Taken) = bar.next - 1
    BY <2>1, <2>2, CountOfFirst DEF Taken, PlanFine
  <2>4. Cardinality(bar.sent) + Cardinality(ToSet(bar.ok)) + Cardinality(bar.failed) = Cardinality(Taken)
    BY <2>1, <2>3, CountOfParts
  <2>5. Cardinality(ToSet(bar.ok)) = Len(bar.ok)
    BY <2>1, CountOfSeq
  <2>6. bar.sent \cup ToSet(bar.ok) \cup bar.failed = Taken
    BY <2>1 DEF Parts
  <2>7. ASSUME bar.sent = {}, ~WorkerTakes PROVE Taken = ToSet(bar.plan)
    <3>1. Cardinality(bar.sent) = 0 /\ Workers \in Nat /\ Workers >= 1
      BY <2>7, FS_EmptySet, BulkAssumption
    <3>2. bar.next - 1 = Len(bar.plan)
      BY <2>1, <2>7, <3>1 DEF WorkerTakes
    <3> QED BY <2>1, <3>2, SeqSet DEF Taken
  <2> QED BY <2>3, <2>4, <2>5, <2>6, <2>7
<1>2. ASSUME NEW k \in Op, Polling(k), Current(k)
      PROVE  LET t == trackers[k] IN
             /\ ToSet(t.queue) \cup t.polled \cup t.finished = t.total
             /\ Len(t.queue) + Cardinality(t.polled) + Cardinality(t.finished) = Cardinality(t.total)
  <2> DEFINE t == trackers[k]
  <2>1. TrackFine(t) /\ t \in TrackRow
    BY <1>2, TrackersAre
  <2>2. t.queue \in Seq(Dev) /\ t.total \in SUBSET Dev
    BY <2>1 DEF TrackRow
  <2>3. IsFiniteSet(t.total)
    BY <2>2, DevCount
  <2>4. IsInjective(t.queue) /\ Parts(ToSet(t.queue), t.polled, t.finished, t.total)
    BY <2>1 DEF TrackFine
  <2>5. Cardinality(ToSet(t.queue)) + Cardinality(t.polled) + Cardinality(t.finished) = Cardinality(t.total)
    BY <2>3, <2>4, CountOfParts
  <2>6. Cardinality(ToSet(t.queue)) = Len(t.queue)
    BY <2>2, <2>4, CountOfSeq
  <2>7. ToSet(t.queue) \cup t.polled \cup t.finished = t.total
    BY <2>4 DEF Parts
  <2> QED BY <2>5, <2>6, <2>7
<1> QED BY <1>1, <1>2 DEF EveryDeviceOnce, Taken

\* runBulk attempts every device of its plan, once, whatever fails on others
\* ("one unreachable device must not leave the other eleven untouched"); every
\* job that trackJobs follows is in one place until it has finished; a poll
\* under way at a change of account brings nothing to the next one; and what
\* is listed was asked for in this session, but for runs during which the
\* account changed (whose results the next one does see).
THEOREM DevicesAccounted == BulkSpec => []JobsAccounted
<1>1. BulkInit => BulkInv
  BY BulkInvInit
<1>2. BulkInv /\ [BulkNext]_bulkVars => BulkInv'
  BY BulkInvStep
<1>3. BulkInv => JobsAccounted
  BY InvAccounts
<1> QED BY <1>1, <1>2, <1>3, PTL DEF BulkSpec

-----------------------------------------------------------------------------
(* The types of pages that their invariants already hold.                  *)

\* The bar, the trackers and the drawer of the jobs keep their types.
THEOREM BulkTypeCorrect == BulkSpec => []BulkTypeOK
<1>1. BulkInv => BulkTypeOK
  <2> SUFFICES ASSUME BulkInv PROVE BulkTypeOK
    OBVIOUS
  <2>1. bar \in BarRow /\ seen \in [connected: SUBSET Dev, tags: [Dev -> SUBSET Tags]]
    BY DEF BulkInv, BulkShapes
  <2>2. /\ bar.phase \in {"closed", "asking", "running"} /\ bar.kind \in {"job", "tag"}
        /\ {bar.plan, bar.ok} \subseteq Seq(Dev) /\ bar.sent \subseteq Dev /\ bar.failed \subseteq Dev /\ bar.next \in Nat
    BY <2>1 DEF BarRow
  <2>3. bar.next \in 1 .. Devices + 1
    BY <2>2, BulkAssumption DEF BulkInv, BarFine
  <2>4. ASSUME NEW k \in Op
        PROVE  /\ trackers[k].state \in {"none", "polling", "stuck", "over"}
               /\ trackers[k].queue \in Seq(Dev) /\ trackers[k].polled \subseteq Dev
               /\ trackers[k].total \subseteq Dev /\ trackers[k].finished \subseteq Dev
    <3>1. trackers[k] \in TrackRow
      BY DEF BulkInv, BulkShapes
    <3> QED BY <3>1 DEF TrackRow
  <2>5. seen.connected \subseteq Dev /\ seen.tags \in [Dev -> SUBSET Tags]
    BY <2>1
  <2> QED BY <2>2, <2>3, <2>4, <2>5 DEF BulkInv, BulkShapes, JobState, BulkTypeOK
<1> QED BY <1>1, BulkInvInit, BulkInvStep, PTL DEF BulkSpec

\* The scripts of the library and what the page holds of them keep their types.
THEOREM ScriptTypeCorrect == ShelfSpec => []ScriptTypeOK
<1>1. ShelfInv => ScriptTypeOK
  BY DEF ShelfInv, ShelfTypes, StoreTypes, ListTypes, DraftTypes, DetailTypes, StoreRow, DraftRow, AskRow, CallRow,
         ScriptTypeOK
<1>2. ShelfInv /\ [ScriptNext]_scriptVars => ShelfInv'
  BY ShelfInvStep
<1> QED BY <1>1, <1>2, ShelfInvInit, PTL DEF ShelfSpec

\* The rules, schedules and windows and what the page holds of them, too.
THEOREM AutoTypeCorrect == AutoSpec => []AutoTypeOK
<1>1. AutoInit => library \in BOOLEAN
  BY DEF AutoInit
<1>2. library \in BOOLEAN /\ [AutoNext]_autoVars => (library \in BOOLEAN)'
  BY DEF AutoNext, autoVars, ConfigAsked, ConfigServed, ConfigArrives, ConfigLost, LibraryLoads, OpenRuleForm,
         OpenScheduleForm, FillRuleForm, SubmitRuleForm, CloseRuleForm, ConfirmEdit, DeclineEdit, ChangeWindow,
         WindowServed, WindowOver, SwitchRow, RemoveRow, Ask, EditServed, RowSaved, EditFails
<1>3. AutoInv /\ library \in BOOLEAN => AutoTypeOK
  <2> SUFFICES ASSUME AutoInv, library \in BOOLEAN PROVE AutoTypeOK
    OBVIOUS
  <2>1. OrderedPlan \subseteq Plan
    BY DEF OrderedPlan
  <2>2. /\ config.state \in {"pending", "error", "ok"} /\ config.data \in Plan
        /\ configFetch.stage \in {"none", "asked", "answered"} /\ configFetch.answer \in Plan
    BY <2>1 DEF AutoInv, AutoShapes
  <2>3. \A e \in edits : e.body \in Edit /\ e.stage \in {"sent", "done", "refused"}
    BY DEF AutoInv, AutoShapes, EditRow
  <2>4. ASSUME NEW i \in DOMAIN saves
        PROVE  /\ saves[i].old \in Plan /\ saves[i].window \in WindowSetting
               /\ saves[i].stage \in {"sent", "done", "refused", "over"} /\ saves[i].answer \in Plan
    <3>1. saves[i] \in SaveRow
      BY DEF AutoInv, AutoShapes
    <3> QED BY <2>1, <3>1 DEF SaveRow
  <2> QED BY <2>1, <2>2, <2>3, <2>4 DEF AutoInv, AutoShapes, AutoTypeOK
<1> QED BY <1>1, <1>2, <1>3, AutoInvInit, AutoInvStep, PTL DEF AutoSpec

-----------------------------------------------------------------------------
(* What the device list keeps in the address, its history and its views.   *)

ViewRow == [name: ViewName, query: Address]
PageOf == [page: 1 .. ListDevices, size: {"some", "alle"}, key: DevFilter \X PersonParam \X Text \X DevSort]
AddressTypes ==
    /\ trail \in Seq(Address) /\ Len(trail) \in 1 .. 2 /\ address \in Address
    /\ navigation \in {"none", "replace", "move"}
BoxTypes == box \in Text /\ typed \in Text \cup {"unset"} /\ pager \in PageOf
SelectTypes == selected \subseteq Id /\ anchor \in Id \cup {NoId}
ViewTypes == views \in Seq(ViewRow) /\ Len(views) <= MaxViews
DevRest == AddressTypes /\ BoxTypes /\ SelectTypes /\ ViewTypes

LEMMA DevTyped == DevInv /\ DevRest => DevTypeOK
BY DEF DevInv, DevShapes, DevRest, AddressTypes, BoxTypes, SelectTypes, ViewTypes, ViewRow, PageOf, DevTypeOK

LEMMA AddressFields ==
    /\ Blank \in Address
    /\ \A a \in Address : a.filter \in DevFilter /\ a.person \in PersonParam /\ a.q \in Text /\ a.sort \in DevSort
BY DEF Blank, Address, DevFilter, PersonParam, Text, DevSort

LEMMA DevRestInit == DevInit => DevRest
<1> SUFFICES ASSUME DevInit PROVE DevRest
  OBVIOUS
<1>1. address \in Address
  <2>1. [Blank EXCEPT !.person = "anna"] \in Address
    BY AddressFields DEF Address, PersonParam
  <2> QED BY <2>1, AddressFields DEF DevInit
<1>2. AddressTypes
  BY <1>1 DEF DevInit, AddressTypes
<1>3. BoxTypes
  <2>1. box \in Text /\ ResetKey \in DevFilter \X PersonParam \X Text \X DevSort
    BY <1>1, AddressFields DEF DevInit, ResetKey
  <2>2. 1 \in 1 .. ListDevices
    BY TableAssumption
  <2>3. pager = [page |-> 1, size |-> "some", key |-> ResetKey] /\ typed = "unset"
    BY DEF DevInit
  <2> QED BY <2>1, <2>2, <2>3 DEF BoxTypes, PageOf
<1>4. SelectTypes /\ ViewTypes
  BY TableAssumption DEF DevInit, SelectTypes, ViewTypes
<1> QED BY <1>2, <1>3, <1>4 DEF DevRest

\* A render takes the pager back to the first page of what has another key.
LEMMA PageOfReset ==
    ASSUME pager \in PageOf, address' \in Address, box' \in Text, pager' = PageReset
    PROVE  pager' \in PageOf
<1>1. ResetKey' \in DevFilter \X PersonParam \X Text \X DevSort
  BY AddressFields DEF ResetKey
<1>2. 1 \in 1 .. ListDevices
  BY TableAssumption
<1> QED BY <1>1, <1>2 DEF PageReset, PageOf

\* setParam puts its address in the place of the last one.
LEMMA ParamsSet ==
    ASSUME AddressTypes, NEW a \in Address, SetParams(a)
    PROVE  AddressTypes'
<1>1. Len(trail) \in 1 .. Len(trail)
  <2>1. Len(trail) \in 1 .. 2
    BY DEF AddressTypes
  <2> QED BY <2>1
<1>2. trail' \in Seq(Address) /\ Len(trail') = Len(trail)
  BY <1>1, ExceptSeq DEF AddressTypes, SetParams
<1> QED BY <1>2 DEF AddressTypes, SetParams

LEMMA OtherViewsTyped ==
    ASSUME ViewTypes, NEW n
    PROVE  OtherViews(n) \in Seq(ViewRow) /\ Len(OtherViews(n)) <= MaxViews
<1> DEFINE kept == {i \in 1 .. Len(views) : views[i].name # n}
           k == Cardinality(kept)
           R == {p \in Nat \X Nat : p[1] < p[2]}
<1>1. Len(views) \in Nat /\ \A i \in 1 .. Len(views) : views[i] \in ViewRow
  BY DEF ViewTypes
<1>2. IsFiniteSet(1 .. Len(views)) /\ Cardinality(1 .. Len(views)) = Len(views)
  <2>1. 1 \in Int /\ Len(views) \in Int
    BY <1>1
  <2> QED BY <1>1, <2>1, FS_Interval
<1>3. IsFiniteSet(kept) /\ k \in Nat /\ k <= Len(views)
  <2>1. kept \subseteq 1 .. Len(views)
    OBVIOUS
  <2> QED BY <1>2, <2>1, FS_Subset, FS_CardinalityType
<1>4. OrdersStrictly(R, kept) /\ \A i, j \in kept : <<i, j>> \in R <=> i < j
  <2>1. \A i \in kept : i \in Nat
    BY <1>1
  <2>2. \A i, j \in kept : <<i, j>> \in R <=> i < j
    BY <2>1
  <2> HIDE DEF kept, R
  <2> QED BY <2>1, <2>2 DEF OrdersStrictly
<1> HIDE DEF R
<1>5. PICK s \in [1 .. k -> kept] : Ascends(s, k, R)
  BY <1>3, <1>4, SortedExists
<1>6. \A i, j \in 1 .. k : i < j => s[i] < s[j]
  BY <1>4, <1>5 DEF Ascends
<1> DEFINE at == CHOOSE at \in [1 .. k -> kept] : \A i, j \in 1 .. k : i < j => at[i] < at[j]
<1>7. at \in [1 .. k -> kept]
  BY <1>6
<1>8. OtherViews(n) = [i \in 1 .. k |-> views[at[i]]]
  BY DEF OtherViews
<1>9. \A i \in kept : views[i] \in ViewRow
  BY <1>1
<1> HIDE DEF kept, k, at
<1>10. OtherViews(n) \in [1 .. k -> ViewRow]
  BY <1>7, <1>8, <1>9
<1>11. OtherViews(n) \in Seq(ViewRow) /\ Len(OtherViews(n)) = k
  BY <1>3, <1>10
<1> QED BY <1>1, <1>3, <1>11, TableAssumption DEF ViewTypes

LEMMA SaveTyped == ASSUME DevRest, NEW n \in ViewName, SaveView(n) PROVE ViewTypes'
<1> DEFINE all == Append(OtherViews(n), [name |-> n, query |-> address])
<1>1. OtherViews(n) \in Seq(ViewRow) /\ Len(OtherViews(n)) <= MaxViews /\ Len(OtherViews(n)) \in Nat
  BY OtherViewsTyped DEF DevRest
<1>2. [name |-> n, query |-> address] \in ViewRow
  BY DEF DevRest, AddressTypes, ViewRow
<1>3. all \in Seq(ViewRow) /\ Len(all) = Len(OtherViews(n)) + 1 /\ all # <<>>
  BY <1>1, <1>2
<1>4. views' = IF Len(all) > MaxViews THEN Tail(all) ELSE all
  BY DEF SaveView
<1> HIDE DEF all
<1>5. Tail(all) \in Seq(ViewRow) /\ Len(Tail(all)) = Len(all) - 1
  BY <1>3, HeadTailProperties
<1> QED BY <1>1, <1>3, <1>4, <1>5, TableAssumption DEF ViewTypes

LEMMA RemoveTyped == ASSUME ViewTypes, NEW i \in 1 .. Len(views), views' = RemoveAt(views, i) PROVE ViewTypes'
<1>1. Len(views) \in Nat
  BY DEF ViewTypes
<1>2. /\ SubSeq(views, 1, i - 1) \in Seq(ViewRow) /\ Len(SubSeq(views, 1, i - 1)) = i - 1
      /\ SubSeq(views, i + 1, Len(views)) \in Seq(ViewRow) /\ Len(SubSeq(views, i + 1, Len(views))) = Len(views) - i
  BY <1>1, SubSeqOf, SubSeqProperties DEF ViewTypes
<1>3. views' = SubSeq(views, 1, i - 1) \o SubSeq(views, i + 1, Len(views))
  BY DEF RemoveAt
<1>4. views' \in Seq(ViewRow) /\ Len(views') = Len(views) - 1
  <2> DEFINE before == SubSeq(views, 1, i - 1)
             after == SubSeq(views, i + 1, Len(views))
  <2>1. before \in Seq(ViewRow) /\ after \in Seq(ViewRow) /\ Len(before) = i - 1 /\ Len(after) = Len(views) - i
    BY <1>2
  <2> HIDE DEF before, after
  <2>2. before \o after \in Seq(ViewRow) /\ Len(before \o after) = Len(before) + Len(after)
    BY <2>1, ConcatProperties
  <2>3. views' = before \o after
    BY <1>3 DEF before, after
  <2>4. i \in Nat
    BY <1>1
  <2>5. (i - 1) + (Len(views) - i) = Len(views) - 1
    BY <1>1, <2>4
  <2> QED BY <2>1, <2>2, <2>3, <2>5
<1> QED BY <1>1, <1>4, TableAssumption DEF ViewTypes

LEMMA MoveRest ==
    ASSUME DevInv, DevRest, Render \/ FollowLink \/ GoBack
    PROVE  DevRest'
<1>1. /\ trail \in Seq(Address) /\ Len(trail) \in 1 .. 2 /\ address \in Address /\ pager \in PageOf /\ box \in Text
      /\ typed \in Text \cup {"unset"}
  BY DEF DevRest, AddressTypes, BoxTypes
<1>2. CASE Render
  <2>1. address' \in Address
    <3>1. trail[Len(trail)] \in Address
      <4>0. Len(trail) \in 1 .. 2
        BY <1>1
      <4>1. Len(trail) \in 1 .. Len(trail)
        BY <4>0
      <4> QED BY <1>1, <4>1, ElementOfSeq
    <3> QED BY <1>2, <3>1 DEF Render
  <2>2. box' \in Text
    BY <1>1, <1>2, <2>1, AddressFields DEF Render
  <2>3. pager' \in PageOf
    BY <1>1, <1>2, <2>1, <2>2, PageOfReset DEF Render
  <2>4. typed' \in Text \cup {"unset"} /\ navigation' = "none" /\ UNCHANGED <<trail, selected, anchor, views>>
    BY <1>1, <1>2 DEF Render, selVars
  <2> QED BY <1>1, <2>1, <2>2, <2>3, <2>4 DEF DevRest, AddressTypes, BoxTypes, SelectTypes, ViewTypes
<1>3. CASE FollowLink
  <2>1. PICK f \in {"alle", "probleme"} : trail' = Append(trail, [Blank EXCEPT !.filter = f])
    BY <1>3 DEF FollowLink
  <2>2. [Blank EXCEPT !.filter = f] \in Address
    BY AddressFields DEF Address, DevFilter
  <2>3. trail' \in Seq(Address) /\ Len(trail') = Len(trail) + 1 /\ Len(trail) < 2
    BY <1>1, <1>3, <2>1, <2>2 DEF FollowLink
  <2>4. navigation' = "move" /\ UNCHANGED <<address, box, typed, pager, selected, anchor, views>>
    BY <1>3 DEF FollowLink, selVars
  <2> QED BY <1>1, <2>3, <2>4 DEF DevRest, AddressTypes, BoxTypes, SelectTypes, ViewTypes
<1>4. CASE GoBack
  <2>1. trail' = SubSeq(trail, 1, Len(trail) - 1) /\ Len(trail) > 1
    BY <1>4 DEF GoBack, Front
  <2>2. trail' \in Seq(Address) /\ Len(trail') = Len(trail) - 1
    BY <1>1, <2>1, SubSeqOf, SubSeqProperties
  <2>3. navigation' = "move" /\ UNCHANGED <<address, box, typed, pager, selected, anchor, views>>
    BY <1>4 DEF GoBack, selVars
  <2> QED BY <1>1, <2>1, <2>2, <2>3 DEF DevRest, AddressTypes, BoxTypes, SelectTypes, ViewTypes
<1> QED BY <1>2, <1>3, <1>4

\* What the toolbar puts into the address is one, and the box takes it or
\* stays.
LEMMA ToolRest ==
    ASSUME DevInv, DevRest, NEW a \in Address, SetParams(a), UNCHANGED <<selected, anchor, views>>,
           box' \in Text, typed' \in Text \cup {"unset"}, pager' \in {pager, PageReset}
    PROVE  DevRest'
<1>1. AddressTypes'
  BY ParamsSet DEF DevRest
<1>2. pager' \in PageOf
  BY <1>1, PageOfReset DEF DevRest, AddressTypes, BoxTypes
<1> QED BY <1>1, <1>2 DEF DevRest, BoxTypes, SelectTypes, ViewTypes

LEMMA ParamRest ==
    ASSUME DevInv, DevRest,
           \/ \E t \in Text : Type(t)
           \/ \E f \in DevFilter : ChooseFilter(f)
           \/ \E p \in PersonParam : ChoosePerson(p)
           \/ \E s \in DevSort : SortBy(s)
           \/ ResetFilters
           \/ \E i \in 1 .. Len(views) : ApplyView(i)
    PROVE  DevRest'
<1>1. address \in Address /\ box \in Text /\ typed \in Text \cup {"unset"} /\ \A i \in 1 .. Len(views) : views[i] \in ViewRow
  BY DEF DevRest, AddressTypes, BoxTypes, ViewTypes
<1>2. ASSUME NEW t \in Text, Type(t) PROVE DevRest'
  <2>1. [address EXCEPT !.q = t] \in Address
    BY <1>1 DEF Address
  <2> QED BY <1>1, <1>2, <2>1, ToolRest DEF Type, selVars
<1>3. ASSUME NEW f \in DevFilter, ChooseFilter(f) PROVE DevRest'
  <2>1. [address EXCEPT !.filter = f] \in Address
    BY <1>1 DEF Address
  <2> QED BY <1>1, <1>3, <2>1, ToolRest DEF ChooseFilter, selVars
<1>4. ASSUME NEW p \in PersonParam, ChoosePerson(p) PROVE DevRest'
  <2>1. [address EXCEPT !.person = p] \in Address
    BY <1>1 DEF Address
  <2> QED BY <1>1, <1>4, <2>1, ToolRest DEF ChoosePerson, selVars
<1>5. ASSUME NEW s \in DevSort, SortBy(s) PROVE DevRest'
  <2>1. [address EXCEPT !.sort = s] \in Address
    BY <1>1 DEF Address
  <2> QED BY <1>1, <1>5, <2>1, ToolRest DEF SortBy, selVars
<1>6. CASE ResetFilters
  <2>1. [Blank EXCEPT !.sort = address.sort] \in Address
    BY <1>1, AddressFields DEF Address
  <2>2. "" \in Text
    BY DEF Text
  <2> QED BY <1>1, <1>6, <2>1, <2>2, ToolRest DEF ResetFilters, selVars
<1>7. ASSUME NEW i \in 1 .. Len(views), ApplyView(i) PROVE DevRest'
  <2>1. views[i].query \in Address
    BY <1>1 DEF ViewRow
  <2>2. views[i].query.q \in Text
    BY <2>1, AddressFields
  <2> QED BY <1>1, <1>7, <2>1, <2>2, ToolRest DEF ApplyView, selVars
<1> QED BY <1>2, <1>3, <1>4, <1>5, <1>6, <1>7

LEMMA PageRest ==
    ASSUME DevInv, DevRest,
           (\E p \in 1 .. ListDevices : SetPage(p)) \/ (\E s \in {"some", "alle"} : SetPageSize(s))
    PROVE  DevRest'
<1>1. pager \in PageOf /\ 1 \in 1 .. ListDevices
  BY TableAssumption DEF DevRest, BoxTypes
<1>2. ASSUME NEW p \in 1 .. ListDevices PROVE [pager EXCEPT !.page = p] \in PageOf
  BY <1>1 DEF PageOf
<1>3. ASSUME NEW s \in {"some", "alle"} PROVE [pager EXCEPT !.size = s, !.page = 1] \in PageOf
  BY <1>1 DEF PageOf
<1>4. pager' \in PageOf
  BY <1>2, <1>3 DEF SetPage, SetPageSize
<1>5. UNCHANGED <<trail, address, navigation, box, typed, selected, anchor, views>>
  BY DEF SetPage, SetPageSize, navVars, selVars
<1> QED BY <1>4, <1>5 DEF DevRest, AddressTypes, BoxTypes, SelectTypes, ViewTypes

LEMMA SelectRest ==
    ASSUME DevInv, DevRest,
           TogglePage \/ SelectHits \/ ClearSelection \/ \E d \in Id, shift \in BOOLEAN : Toggle(d, shift)
    PROVE  DevRest'
<1>1. DevNext
  BY DEF DevNext
<1>2. Base \subseteq Id
  BY DEF Base, DevInv, DevShapes
<1>3. selected' \subseteq Id
  BY <1>1, <1>2, SelectsShown DEF DevRest, SelectTypes
<1>4. anchor' \in Id \cup {NoId}
  BY DEF TogglePage, SelectHits, ClearSelection, Toggle, DevRest, SelectTypes
<1>5. UNCHANGED <<trail, address, navigation, box, typed, pager, views>>
  BY DEF TogglePage, SelectHits, ClearSelection, Toggle, Select, navVars
<1> QED BY <1>3, <1>4, <1>5 DEF DevRest, AddressTypes, BoxTypes, SelectTypes, ViewTypes

LEMMA DevRestStep == DevInv /\ DevRest /\ [DevNext]_devVars => DevRest'
<1> SUFFICES ASSUME DevInv, DevRest, [DevNext]_devVars PROVE DevRest'
  OBVIOUS
<1>1. CASE UNCHANGED <<trail, address, navigation, box, typed, pager, selected, anchor, views>>
  BY <1>1 DEF DevRest, AddressTypes, BoxTypes, SelectTypes, ViewTypes
<1>2. CASE UNCHANGED devVars
  BY <1>1, <1>2 DEF devVars
<1>3. CASE DevicesLoad \/ DevicesFail \/ PersonsLoad \/ \E d \in Id : DeviceChanges(d)
  BY <1>1, <1>3 DEF DevicesLoad, DevicesFail, PersonsLoad, DeviceChanges, FleetIs, navVars, selVars
<1>4. ASSUME NEW n \in ViewName, SaveView(n) PROVE DevRest'
  BY <1>4, SaveTyped DEF SaveView, DevRest, AddressTypes, BoxTypes, SelectTypes, navVars, selVars
<1>5. ASSUME NEW i \in 1 .. Len(views), RemoveView(i) PROVE DevRest'
  <2>1. ViewTypes'
    BY <1>5, RemoveTyped DEF RemoveView, DevRest
  <2> QED BY <1>5, <2>1 DEF RemoveView, DevRest, AddressTypes, BoxTypes, SelectTypes, navVars, selVars
<1> QED BY <1>2, <1>3, <1>4, <1>5, MoveRest, ParamRest, PageRest, SelectRest DEF DevNext

\* The device list stays on a page there can be, selects devices only, and
\* keeps no more views than it may.
THEOREM DevTypeCorrect == DevSpec => []DevTypeOK
BY DevInvInit, DevInvStep, DevRestInit, DevRestStep, DevTyped, PTL DEF DevSpec

-----------------------------------------------------------------------------
(* The patches page.                                                       *)

ScopeRow == [state : StateFilter, os : OsCategory \cup {"alle"}, conn : ConnFilter, sort : PatchSort]
PatchRest == scope \in ScopeRow /\ chosen \subseteq PDev /\ busy \in BOOLEAN /\ granted \subseteq PDev

LEMMA ScopeFields ==
    /\ WholeFleet \in ScopeRow
    /\ \A s \in ScopeRow :
          /\ s.sort \in PatchSort
          /\ \A f \in StateFilter : [s EXCEPT !.state = f] \in ScopeRow
          /\ \A f \in OsCategory \cup {"alle"} : [s EXCEPT !.os = f] \in ScopeRow
          /\ \A f \in ConnFilter : [s EXCEPT !.conn = f] \in ScopeRow
          /\ \A o \in PatchSort : [s EXCEPT !.sort = o] \in ScopeRow
<1>1. DefaultSort \in PatchSort
  BY DEF DefaultSort, PatchSort
<1>2. "alle" \in StateFilter /\ "alle" \in OsCategory \cup {"alle"} /\ "alle" \in ConnFilter
  BY DEF StateFilter, ConnFilter
<1>3. WholeFleet \in ScopeRow
  BY <1>1, <1>2 DEF WholeFleet, ScopeRow
<1> QED BY <1>3 DEF ScopeRow

LEMMA SortTurns == ASSUME scope \in ScopeRow, NEW k \in {"name", "pending", "security"} PROVE NextSort(k) \in PatchSort
BY DEF NextSort, PatchSort

LEMMA RestStays == PatchRest /\ UNCHANGED <<scope, chosen, busy, granted>> => PatchRest'
BY DEF PatchRest

LEMMA ScopeRest ==
    ASSUME PatchRest,
           \/ \E f \in StateFilter : FilterState(f)
           \/ \E f \in OsCategory : FilterOs(f)
           \/ \E f \in ConnFilter : FilterConn(f)
           \/ \E k \in {"name", "pending", "security"} : SortPatches(k)
           \/ ResetScope
    PROVE  PatchRest'
<1>1. scope \in ScopeRow
  BY DEF PatchRest
<1>2. ASSUME NEW s \in ScopeRow, ScopeIs(s) PROVE PatchRest'
  BY <1>2 DEF ScopeIs, PatchRest
<1>3. ASSUME NEW f \in StateFilter, FilterState(f) PROVE PatchRest'
  BY <1>1, <1>2, <1>3, ScopeFields DEF FilterState
<1>4. ASSUME NEW f \in OsCategory, FilterOs(f) PROVE PatchRest'
  <2>1. CASE f = scope.os
    <3>1. [scope EXCEPT !.os = "alle"] \in ScopeRow
      BY <1>1, ScopeFields
    <3> QED BY <1>2, <1>4, <2>1, <3>1 DEF FilterOs
  <2>2. CASE f # scope.os
    <3>1. [scope EXCEPT !.os = f] \in ScopeRow
      BY <1>1, ScopeFields
    <3> QED BY <1>2, <1>4, <2>2, <3>1 DEF FilterOs
  <2> QED BY <2>1, <2>2
<1>5. ASSUME NEW f \in ConnFilter, FilterConn(f) PROVE PatchRest'
  BY <1>1, <1>2, <1>5, ScopeFields DEF FilterConn
<1>6. ASSUME NEW k \in {"name", "pending", "security"}, SortPatches(k) PROVE PatchRest'
  BY <1>1, <1>2, <1>6, ScopeFields, SortTurns DEF SortPatches
<1>7. CASE ResetScope
  BY <1>1, <1>2, <1>7, ScopeFields DEF ResetScope
<1> QED BY <1>3, <1>4, <1>5, <1>6, <1>7

\* What is shown is of the list, so a selection is.
LEMMA ChooseRest ==
    ASSUME PatchRest, (\E d \in PDev : TickRow(d)) \/ TickPage \/ ChooseHits \/ ClearChosen
    PROVE  PatchRest'
<1>1. ShownIds \subseteq PDev /\ chosen \subseteq PDev
  BY DEF ShownIds, PatchId, PatchRest
<1>2. ASSUME NEW S \in SUBSET PDev, ChooseIs(S) PROVE PatchRest'
  BY <1>2 DEF ChooseIs, PatchRest
<1>3. ASSUME NEW d \in PDev, TickRow(d) PROVE PatchRest'
  BY <1>1, <1>2, <1>3 DEF TickRow
<1>4. CASE TickPage
  BY <1>1, <1>2, <1>4 DEF TickPage
<1>5. CASE ChooseHits
  BY <1>1, <1>2, <1>5 DEF ChooseHits
<1>6. CASE ClearChosen
  BY <1>2, <1>6 DEF ClearChosen
<1> QED BY <1>3, <1>4, <1>5, <1>6

LEMMA RunRest ==
    ASSUME PatchInv, PatchRest,
           \/ AskInstall \/ AskQueue \/ Accept \/ Decline \/ SendOne \/ RunOver
           \/ \E S \in SUBSET PDev : ScanNow(S)
           \/ \E d \in PDev : OneSettles(d) \/ FindingsCome(d) \/ DeviceRefreshes(d)
           \/ \E st \in {"error", "success"} : DeviceListComes(st) \/ SummaryComes(st)
    PROVE  PatchRest'
<1>1. CASE Accept
  <2>1. installQuestion.targets \in Seq(PDev)
    BY DEF PatchInv, QuestionRow
  <2>2. ToSet(installQuestion.targets) \subseteq PDev
    BY <2>1 DEF ToSet
  <2> QED BY <1>1, <2>2 DEF Accept, StartRun, PatchRest
<1>2. CASE \E S \in SUBSET PDev : ScanNow(S)
  BY <1>2 DEF ScanNow, StartRun, PatchRest
<1>3. CASE RunOver
  BY <1>3 DEF RunOver, RunStep, PatchRest
<1>4. CASE AskInstall \/ AskQueue \/ Decline \/ SendOne
  <2>1. UNCHANGED <<scope, chosen, busy, granted>>
    BY <1>4 DEF AskInstall, AskQueue, Ask, Decline, SendOne, RunStep
  <2> QED BY <2>1, RestStays
<1>5. CASE \E d \in PDev : OneSettles(d) \/ FindingsCome(d) \/ DeviceRefreshes(d)
  <2>1. UNCHANGED <<scope, chosen, busy, granted>>
    BY <1>5 DEF OneSettles, RunStep, FindingsCome, DeviceRefreshes, BoardIs
  <2> QED BY <2>1, RestStays
<1>6. CASE \E st \in {"error", "success"} : DeviceListComes(st) \/ SummaryComes(st)
  <2>1. UNCHANGED <<scope, chosen, busy, granted>>
    BY <1>6 DEF DeviceListComes, SummaryComes, BoardIs
  <2> QED BY <2>1, RestStays
<1> QED BY <1>1, <1>2, <1>3, <1>4, <1>5, <1>6

LEMMA PatchRestStep == PatchInv /\ PatchRest /\ [PatchNext]_patchVars => PatchRest'
<1> SUFFICES ASSUME PatchInv, PatchRest, [PatchNext]_patchVars PROVE PatchRest'
  OBVIOUS
<1>1. CASE UNCHANGED patchVars
  BY <1>1, RestStays DEF patchVars
<1>2. CASE PatchNext
  BY <1>2, ScopeRest, ChooseRest, RunRest DEF PatchNext
<1> QED BY <1>1, <1>2

LEMMA PatchTyped == PatchInv /\ PatchRest /\ BoardTypes => PatchTypeOK
<1> SUFFICES ASSUME PatchInv, PatchRest, BoardTypes PROVE PatchTypeOK
  OBVIOUS
<1>1. /\ board.devices \in PatchLoad /\ board.summary \in PatchLoad
      /\ board.list \in [PDev -> BoardDevice] /\ board.open \in [PDev -> OpenRow \cup {NoEntry}]
  BY DEF BoardTypes
<1>2. scope \in [state : StateFilter, os : OsCategory \cup {"alle"}, conn : ConnFilter, sort : PatchSort]
      /\ chosen \subseteq PDev /\ busy \in BOOLEAN /\ granted \subseteq PDev
  BY DEF PatchRest, ScopeRow
<1>3. installQuestion.kind \in {"none", "install", "queue"} /\ installQuestion.targets \in Seq(PDev)
  BY DEF PatchInv, QuestionRow
<1>4. /\ run.kind \in {"none", "scan", "install", "queue"} /\ run.queue \in Seq(PDev)
      /\ run.sent \subseteq PDev /\ run.ok \subseteq PDev /\ run.failed \subseteq PDev
  BY DEF PatchInv, RunRow
<1>5. UNION {run.sent, run.ok, run.failed, granted} \subseteq PDev
  BY <1>2, <1>4
<1> QED BY <1>1, <1>2, <1>3, <1>4, <1>5 DEF PatchTypeOK

\* The patches page keeps its types: what is selected, asked about, sent and
\* settled is always of the devices with agent.
THEOREM PatchTypeCorrect == PatchSpec => []PatchTypeOK
<1>1. PatchInit => PatchRest
  BY ScopeFields DEF PatchInit, PatchRest
<1> QED BY <1>1, PatchInvInit, PatchInvStep, BoardInit, BoardStep, PatchRestStep, PatchTyped, PTL DEF PatchSpec

-----------------------------------------------------------------------------
(* What the alert centre keeps beside its rounds: no more of them than     *)
(* there may be, and a handoff of the number of one, or none.              *)

HandoffRow == [round: 0 .. MaxRounds, ids: SUBSET AlertId]
AlertRest ==
    /\ listed \in [AlertId -> AlertState] /\ listLoad \in {"pending", "error", "success"}
    /\ view \in [tab: Tab, person: {"none", "anna"}] /\ report \in {"none", "success", "info", "error"}
    /\ Len(rounds) <= MaxRounds /\ handoff \in HandoffRow

LEMMA AlertTyped == AlertInv /\ AlertRest => AlertTypeOK
BY DEF AlertInv, AlertTypes, AlertRest, HandoffRow, AlertTypeOK

LEMMA NoHandoffTyped == NoHandoff \in HandoffRow
<1>1. 0 \in 0 .. MaxRounds
  BY AlertAssumption
<1> QED BY <1>1 DEF NoHandoff, HandoffRow

LEMMA HandoffKept == ASSUME NEW h \in HandoffRow PROVE Handoff(h) \in HandoffRow
BY NoHandoffTyped DEF Handoff

\* A new round is within the bound, and the handoff may be its.
LEMMA StartRest ==
    ASSUME AlertInv, AlertRest, NEW S \in SUBSET AlertId, NEW asked \in SUBSET AlertId, NEW bulk \in BOOLEAN,
           StartRound(S, asked, bulk), UNCHANGED <<listed, listLoad, view, report>>
    PROVE  AlertRest'
<1>1. rounds \in Seq(AckRound) /\ Len(rounds) \in Nat /\ Len(rounds) < MaxRounds
  BY DEF AlertInv, AlertTypes, StartRound
<1>2. PICK r : rounds' = Append(rounds, r)
  BY DEF StartRound
<1>3. Len(rounds') = Len(rounds) + 1
  BY <1>1, <1>2
<1>4. handoff' \in HandoffRow
  BY <1>1, <1>3, NoHandoffTyped, AlertAssumption DEF StartRound, HandoffRow
<1> QED BY <1>1, <1>3, <1>4, AlertAssumption DEF AlertRest

\* A round that goes on is still the same one.
LEMMA GoesOn ==
    ASSUME AlertInv, AlertRest, NEW i \in 1 .. Len(rounds), NEW r, rounds' = [rounds EXCEPT ![i] = r]
    PROVE  Len(rounds') <= MaxRounds
BY DEF AlertInv, AlertTypes, AlertRest

LEMMA RoundRest ==
    ASSUME AlertInv, AlertRest, NEW i \in 1 .. Len(rounds),
           AllSettled(i) \/ RoundOver(i) \/ \E a \in AlertId : AckServed(i, a) \/ AckFails(i, a)
    PROVE  AlertRest'
<1>1. rounds[i] \in AckRound /\ alertState \in [AlertId -> AlertState]
  BY DEF AlertInv, AlertTypes
<1>2. Len(rounds') <= MaxRounds
  <2>1. \E r : rounds' = [rounds EXCEPT ![i] = r]
    <3>1. CASE AllSettled(i) \/ RoundOver(i)
      BY <3>1 DEF AllSettled, RoundOver
    <3>2. CASE \E a \in AlertId : AckServed(i, a) \/ AckFails(i, a)
      BY <3>2 DEF AckServed, AckFails
    <3> QED BY <3>1, <3>2
  <2> QED BY <2>1, GoesOn
<1>3. CASE RoundOver(i)
  <2>1. Leaving(rounds[i]) \subseteq AlertId
    BY <1>1 DEF Leaving, AckRound
  <2>2. handoff \in HandoffRow /\ i \in 0 .. MaxRounds
    BY AlertAssumption DEF AlertRest, AlertInv, AlertTypes
  <2>3. [round |-> i, ids |-> Leaving(rounds[i])] \in HandoffRow
    BY <2>1, <2>2 DEF HandoffRow
  <2>4. handoff' \in HandoffRow
    <3>1. handoff' = Handoff(IF handoff.round = i THEN [round |-> i, ids |-> Leaving(rounds[i])] ELSE handoff)
      BY <1>3 DEF RoundOver
    <3> QED BY <2>2, <2>3, <3>1, HandoffKept
  <2>5. AckReport(rounds[i]) \in {"none", "success", "info", "error"}
    BY DEF AckReport
  <2> QED BY <1>1, <1>2, <1>3, <2>4, <2>5 DEF RoundOver, AlertRest
<1>4. CASE AllSettled(i) \/ \E a \in AlertId : AckServed(i, a) \/ AckFails(i, a)
  <2>1. UNCHANGED <<listed, listLoad, view, handoff, report>>
    BY <1>4 DEF AllSettled, AckServed, AckFails
  <2> QED BY <1>2, <2>1 DEF AlertRest
<1> QED BY <1>3, <1>4

LEMMA AlertRestStep == AlertInv /\ AlertRest /\ [AlertNext]_alertVars => AlertRest'
<1> SUFFICES ASSUME AlertInv, AlertRest, [AlertNext]_alertVars PROVE AlertRest'
  OBVIOUS
<1>1. handoff \in HandoffRow /\ alertState \in [AlertId -> AlertState] /\ named \subseteq AlertId
  BY DEF AlertInv, AlertTypes, AlertRest
<1>2. CASE UNCHANGED alertVars
  BY <1>2 DEF alertVars, AlertRest
<1>3. ASSUME NEW t \in Tab, ChooseTab(t) PROVE AlertRest'
  <2>1. view' \in [tab: Tab, person: {"none", "anna"}]
    BY <1>3 DEF ChooseTab, ViewIs, AlertRest
  <2> QED BY <1>1, <1>3, <2>1, HandoffKept DEF ChooseTab, ViewIs, AlertRest
<1>4. ASSUME NEW p \in {"none", "anna"}, ShowPerson(p) PROVE AlertRest'
  <2>1. view' \in [tab: Tab, person: {"none", "anna"}]
    BY <1>4 DEF ShowPerson, ViewIs, AlertRest
  <2> QED BY <1>1, <1>4, <2>1, HandoffKept DEF ShowPerson, ViewIs, AlertRest
<1>5. CASE AckAll \/ CancelAll \/ AlertsFail \/ \E a \in AlertId : AlertChanges(a)
  BY <1>5 DEF AckAll, CancelAll, AlertsFail, AlertChanges, AlertRest
<1>6. CASE AlertsLoad
  BY <1>1, <1>6, HandoffKept DEF AlertsLoad, AlertRest
<1>7. CASE ConfirmAll
  <2>1. StillToAck(named) \in SUBSET AlertId
    BY <1>1 DEF StillToAck
  <2>2. StartRound(StillToAck(named), named, TRUE) /\ UNCHANGED <<listed, listLoad, view, report>>
    BY <1>7 DEF ConfirmAll
  <2> QED BY <1>1, <2>1, <2>2, StartRest
<1>8. ASSUME NEW a \in AlertId, AckRow(a) PROVE AlertRest'
  <2>1. StartRound({a}, {a}, FALSE) /\ UNCHANGED <<listed, listLoad, view, report>>
    BY <1>8 DEF AckRow
  <2>2. {a} \in SUBSET AlertId
    OBVIOUS
  <2> QED BY <2>1, <2>2, StartRest
<1> QED BY <1>2, <1>3, <1>4, <1>5, <1>6, <1>7, <1>8, RoundRest DEF AlertNext

\* The list, the rounds and the handoff of the focus keep their types, and
\* there are no more rounds than there may be.
THEOREM AlertTypeCorrect == AlertSpec => []AlertTypeOK
<1>1. AlertInit => AlertRest
  <2> SUFFICES ASSUME AlertInit PROVE AlertRest
    OBVIOUS
  <2>1. view \in [tab: Tab, person: {"none", "anna"}]
    BY DEF AlertInit, Tab
  <2>2. Len(rounds) <= MaxRounds
    BY AlertAssumption DEF AlertInit
  <2> QED BY <2>1, <2>2, NoHandoffTyped DEF AlertInit, AlertRest, AlertState
<1> QED BY <1>1, AlertInvInit, AlertInvStep, AlertRestStep, AlertTyped, PTL DEF AlertSpec

-----------------------------------------------------------------------------
(* The audit log: every page that is held is cut from the log as it was,   *)
(* so its total is one the pager can work from.                            *)

PageData == {d \in [rows: SUBSET EntryId, total: 0 .. LogEntries] : Cardinality(d.rows) <= d.total}
PagerRow == [page: 1 .. LogEntries, size: {"some", "alle"}, key: AuditAddress \X SearchText]
AuditRest ==
    /\ newest \in 0 .. LogEntries /\ aged \in 0 .. newest
    /\ auditAddress \in AuditAddress
    /\ searchBox \in SearchText /\ search \in SearchText /\ searchTimer \in BOOLEAN
    /\ total \in 0 .. LogEntries /\ auditPager \in PagerRow
    /\ previousPage \in PageData \cup {NoPage} /\ \A p \in auditPages : p.data \in PageData
    /\ auditLoad \in {"fetching", "idle", "failed", "denied"}

LEMMA AuditTyped == AuditRest => AuditTypeOK
BY DEF AuditRest, PageData, PagerRow, AuditTypeOK

LEMMA FiltersTyped == \A a \in AuditAddress : AuditFilters(a) \in AuditAddress
BY DEF AuditFilters, AuditAddress, SearchText

LEMMA KeyTyped == ASSUME auditAddress \in AuditAddress, search \in SearchText PROVE FilterKey \in AuditAddress \X SearchText
BY FiltersTyped DEF FilterKey

LEMMA BlankTyped == Unfiltered \in AuditAddress
BY DEF Unfiltered, AuditAddress, SearchText

LEMMA AuditRestInit == AuditInit => AuditRest
<1> SUFFICES ASSUME AuditInit PROVE AuditRest
  OBVIOUS
<1>1. auditAddress \in AuditAddress /\ search \in SearchText
  <2>1. [Unfiltered EXCEPT !.security = TRUE, !.category = "job"] \in AuditAddress
    BY BlankTyped DEF AuditAddress
  <2> QED BY <2>1, BlankTyped DEF AuditInit, SearchText
<1>2. auditPager \in PagerRow
  <2>1. auditPager = [page |-> 1, size |-> "some", key |-> FilterKey]
    BY DEF AuditInit
  <2>2. 1 \in 1 .. LogEntries
    BY AuditAssumption
  <2>3. FilterKey \in AuditAddress \X SearchText
    BY <1>1, KeyTyped
  <2> QED BY <2>1, <2>2, <2>3 DEF PagerRow
<1>3. newest \in 0 .. LogEntries /\ aged \in 0 .. newest /\ total \in 0 .. LogEntries
  <2>1. newest = LogEntries - 1 /\ aged = 0 /\ total = 0
    BY DEF AuditInit
  <2>2. LogEntries \in Nat \ {0}
    BY AuditAssumption
  <2> QED BY <2>1, <2>2
<1> QED BY <1>1, <1>2, <1>3 DEF AuditInit, AuditRest, SearchText

\* The data that is shown is a page that was cut from the log, or none.
LEMMA DataTyped == ASSUME AuditRest PROVE LogData \in PageData \cup {NoPage}
<1>1. CASE Cached = {}
  BY <1>1 DEF LogData, AuditRest
<1>2. CASE Cached # {}
  <2>1. (CHOOSE p \in Cached : TRUE) \in Cached
    BY <1>2
  <2> QED BY <1>2, <2>1 DEF LogData, Cached, AuditRest
<1> QED BY <1>1, <1>2

\* A page is cut from entries that have happened.
LEMMA AnswerTyped == ASSUME AuditRest PROVE AuditAnswer \in PageData
<1> DEFINE all == {e \in 1 .. newest : Passes(e, Asked.filters, search) /\ (auditAddress.range = "7d" => e > aged)}
           newer(e) == Cardinality({d \in all : d > e})
           rows == {e \in all : Asked.offset <= newer(e) /\ newer(e) < Asked.offset + AuditLimit}
<1>1. newest \in Nat /\ newest <= LogEntries /\ LogEntries \in Nat
  BY AuditAssumption DEF AuditRest
<1>2. IsFiniteSet(1 .. newest) /\ Cardinality(1 .. newest) = newest
  <2>1. 1 \in Int /\ newest \in Int
    BY <1>1
  <2> QED BY <1>1, <2>1, FS_Interval
<1>3. IsFiniteSet(all) /\ Cardinality(all) <= newest /\ Cardinality(all) \in Nat
  <2>1. all \subseteq 1 .. newest
    OBVIOUS
  <2> QED BY <1>2, <2>1, FS_Subset, FS_CardinalityType
<1>4. IsFiniteSet(rows) /\ Cardinality(rows) <= Cardinality(all)
  <2>1. rows \subseteq all
    OBVIOUS
  <2> QED BY <1>3, <2>1, FS_Subset
<1>5. rows \subseteq EntryId
  BY <1>1 DEF EntryId
<1>6. AuditAnswer = [total |-> Cardinality(all), rows |-> rows]
  BY DEF AuditAnswer
<1> HIDE DEF all, newer, rows
<1> QED BY <1>1, <1>3, <1>4, <1>5, <1>6 DEF PageData

\* A render keeps what was shown, and asks anew for what is not there.
LEMMA RenderTyped ==
    ASSUME AuditRest, AuditRender, auditPages' = auditPages
    PROVE  previousPage' \in PageData \cup {NoPage} /\ auditLoad' \in {"fetching", "idle", "failed", "denied"}
<1>1. CASE Cached' = {}
  BY <1>1 DEF AuditRender, AuditRest
<1>2. CASE Cached' # {}
  <2>1. (CHOOSE p \in Cached' : TRUE) \in Cached'
    BY <1>2
  <2>2. LogData' = (CHOOSE p \in Cached' : TRUE).data
    BY <1>2 DEF LogData
  <2>3. LogData' \in PageData
    BY <2>1, <2>2 DEF Cached, AuditRest
  <2> QED BY <1>2, <2>3 DEF AuditRender, AuditRest
<1> QED BY <1>1, <1>2

\* New filters go back to the first page.
LEMMA PagerTyped ==
    ASSUME AuditRest, auditAddress' \in AuditAddress, search' \in SearchText, auditPager' = NewKey
    PROVE  auditPager' \in PagerRow
<1>1. FilterKey' \in AuditAddress \X SearchText
  BY FiltersTyped DEF FilterKey
<1>2. 1 \in 1 .. LogEntries
  BY AuditAssumption
<1> QED BY <1>1, <1>2 DEF NewKey, PagerRow, AuditRest

LEMMA FilterRest ==
    ASSUME AuditRest, AuditRender, auditPager' = NewKey, UNCHANGED <<logVars, total, auditPages>>,
           auditAddress' \in AuditAddress, search' \in SearchText, searchBox' \in SearchText, searchTimer' \in BOOLEAN
    PROVE  AuditRest'
<1>1. newest' = newest /\ aged' = aged /\ total' = total /\ auditPages' = auditPages
  BY DEF logVars
<1> QED BY <1>1, RenderTyped, PagerTyped DEF AuditRest

LEMMA ToolbarRest ==
    ASSUME AuditRest,
           \/ \E r \in {"7d", "alle"} : ChooseRange(r)
           \/ \E n \in {"", "anna"} : ChooseActor(n)
           \/ \E c \in {"", "job"} : ChooseCategory(c)
           \/ \E on \in BOOLEAN : SwitchSecurity(on)
    PROVE  AuditRest'
<1>1. PICK a \in AuditAddress : SetAudit(a)
  <2>1. auditAddress \in AuditAddress
    BY DEF AuditRest
  <2>2. ASSUME NEW r \in {"7d", "alle"} PROVE [auditAddress EXCEPT !.range = r] \in AuditAddress
    BY <2>1 DEF AuditAddress
  <2>3. ASSUME NEW n \in {"", "anna"} PROVE [auditAddress EXCEPT !.actor = n] \in AuditAddress
    BY <2>1 DEF AuditAddress
  <2>4. ASSUME NEW c \in {"", "job"} PROVE [auditAddress EXCEPT !.category = c] \in AuditAddress
    BY <2>1 DEF AuditAddress
  <2>5. ASSUME NEW on \in BOOLEAN
        PROVE  [auditAddress EXCEPT !.security = on, !.category = IF on THEN "" ELSE @] \in AuditAddress
    BY <2>1 DEF AuditAddress
  <2> QED BY <2>2, <2>3, <2>4, <2>5 DEF ChooseRange, ChooseActor, ChooseCategory, SwitchSecurity
<1>2. search' \in SearchText /\ searchBox' \in SearchText /\ searchTimer' \in BOOLEAN
  BY <1>1 DEF SetAudit, searchVars, AuditRest
<1> QED BY <1>1, <1>2, FilterRest DEF SetAudit

LEMMA BlankRest == ASSUME AuditRest, FollowAuditLink \/ ResetAudit \/ SearchPasses PROVE AuditRest'
<1>1. auditAddress' \in AuditAddress
  BY BlankTyped DEF FollowAuditLink, ResetAudit, ToBlank, SearchPasses, AuditRest
<1>2. search' \in SearchText /\ searchBox' \in SearchText /\ searchTimer' \in BOOLEAN
  BY DEF FollowAuditLink, ResetAudit, ToBlank, SearchPasses, SearchIs, AuditRest, SearchText
<1>3. AuditRender /\ auditPager' = NewKey /\ UNCHANGED <<logVars, total, auditPages>>
  BY DEF FollowAuditLink, ResetAudit, ToBlank, SearchPasses
<1> QED BY <1>1, <1>2, <1>3, FilterRest

LEMMA PagerRest ==
    ASSUME AuditRest,
           \/ \E n \in 1 .. LogEntries : GoToPage(n)
           \/ \E s \in {"some", "alle"} : SetAuditSize(s)
    PROVE  AuditRest'
<1>1. PICK p \in PagerRow : PagerIs(p)
  <2>1. auditPager \in PagerRow /\ 1 \in 1 .. LogEntries
    BY AuditAssumption DEF AuditRest
  <2>2. ASSUME NEW n \in 1 .. LogEntries PROVE [auditPager EXCEPT !.page = n] \in PagerRow
    BY <2>1 DEF PagerRow
  <2>3. ASSUME NEW s \in {"some", "alle"} PROVE [auditPager EXCEPT !.size = s, !.page = 1] \in PagerRow
    BY <2>1 DEF PagerRow
  <2> QED BY <2>2, <2>3 DEF GoToPage, SetAuditSize
<1>2. /\ UNCHANGED <<newest, aged, auditAddress, searchBox, search, searchTimer, total, auditPages>>
      /\ auditPager' = p /\ AuditRender
  BY <1>1 DEF PagerIs, logVars, searchVars
<1> QED BY <1>2, RenderTyped DEF AuditRest

LEMMA AnswerRest == ASSUME AuditRest, PageArrives \/ TakeTotal PROVE AuditRest'
<1>1. CASE PageArrives
  <2>1. UNCHANGED <<newest, aged, auditAddress, searchBox, search, searchTimer, total, auditPager>>
    BY <1>1 DEF PageArrives, logVars, searchVars
  <2>2. previousPage' = AuditAnswer /\ auditLoad' = "idle"
        /\ auditPages' = {p \in auditPages : p.key # Asked} \cup {[key |-> Asked, data |-> AuditAnswer]}
    BY <1>1 DEF PageArrives
  <2>3. ASSUME NEW p \in auditPages' PROVE p.data \in PageData
    BY <2>2, <2>3, AnswerTyped DEF AuditRest
  <2> QED BY <2>1, <2>2, <2>3, AnswerTyped DEF AuditRest
<1>2. CASE TakeTotal
  <2>1. /\ UNCHANGED <<newest, aged, auditAddress, searchBox, search, searchTimer, auditPages, auditPager>>
        /\ AuditRender /\ total' = LogData.total /\ LogData # NoPage
    BY <1>2 DEF TakeTotal, Reports, logVars, searchVars
  <2>2. total' \in 0 .. LogEntries
    BY <2>1, DataTyped DEF PageData
  <2> QED BY <2>1, <2>2, RenderTyped DEF AuditRest
<1> QED BY <1>1, <1>2

LEMMA AuditRestStep == AuditRest /\ [AuditNext]_auditVars => AuditRest'
<1> SUFFICES ASSUME AuditRest, [AuditNext]_auditVars PROVE AuditRest'
  OBVIOUS
<1>1. CASE UNCHANGED auditVars
  BY <1>1 DEF auditVars, AuditRest
<1>2. CASE ExportCsv \/ PageFails \/ PageAskedAgain
  BY <1>2 DEF ExportCsv, PageFails, PageAskedAgain, LoadIs, logVars, searchVars, AuditRest
<1>3. CASE Happens \/ Ages
  BY <1>3, AuditAssumption DEF Happens, Ages, searchVars, AuditRest
<1>4. ASSUME NEW t \in SearchText, TypeSearch(t) PROVE AuditRest'
  <2>1. auditAddress' \in AuditAddress
    BY <1>4 DEF TypeSearch, AuditRest, AuditAddress
  <2> QED BY <1>4, <2>1 DEF TypeSearch, logVars, AuditRest
<1> QED BY <1>1, <1>2, <1>3, <1>4, ToolbarRest, BlankRest, PagerRest, AnswerRest DEF AuditNext

\* The pager stays on a page there can be, and no page of the log holds more
\* rows than the total that the server named with it.
THEOREM AuditTypeCorrect == AuditSpec => []AuditTypeOK
BY AuditRestInit, AuditRestStep, AuditTyped, PTL DEF AuditSpec

-----------------------------------------------------------------------------
(* What the persons page keeps beside its lists and its questions.         *)

NarrowRow == [filter: {"alle", "befund", "ohne"}, typed: BOOLEAN]
LoginShown == [open: BOOLEAN, copied: BOOLEAN, asking: BOOLEAN]
PersonRest == pops \in Nat /\ stacked \in BOOLEAN /\ narrow \in NarrowRow /\ created \in LoginShown

LEMMA PersonTyped == PersonInv /\ PersonRest => PersonTypeOK
BY DEF PersonInv, PersonShapes, PersonRest, NarrowRow, LoginShown, LoginRows, ClearRows, SavingRow, PersonTypeOK

\* The page leaves a person back to the list, or the browser does.
LEMMA PopsKept == ASSUME pops \in Nat, NEW at, LeaveDetail(at) PROVE pops' \in Nat
BY DEF LeaveDetail

LEMMA PersonRestStep == PersonRest /\ [PersonNext]_personVars => PersonRest'
<1> SUFFICES ASSUME PersonRest, [PersonNext]_personVars PROVE PersonRest'
  OBVIOUS
<1>1. CASE UNCHANGED <<pops, stacked, narrow, created>>
  BY <1>1 DEF PersonRest
<1>2. CASE UNCHANGED personVars
  BY <1>1, <1>2 DEF personVars
<1>3. CASE \/ BrowserBack \/ Fetches \/ ListsServed \/ ListedArrives \/ KnownArrives \/ ListsLost \/ AskDeletion
           \/ DeclineDeletion \/ ConfirmDeletion \/ CloseDraft \/ SaveDraft \/ PersonSaved \/ SaveFails
  BY <1>1, <1>3 DEF wayVars, draftVars, BrowserBack, Fetches, ListsServed, ListedArrives, KnownArrives, ListsLost,
                    AskDeletion, DeclineDeletion, ConfirmDeletion, CloseDraft, SaveDraft, PersonSaved, SaveFails
<1>4. CASE \/ \E a \in LoginId : OtherAdminActs(a)
           \/ \E p \in PersonId : SelectPerson(p) \/ PersonDeleted(p) \/ LinkedRead(p) \/ DeletionServed(p)
           \/ \E p \in PersonId, a \in LoginId : AccountServed(p, a)
           \/ \E id \in PersonId \cup {0} : OpenDraft(id)
  BY <1>1, <1>4 DEF wayVars, draftVars, OtherAdminActs, SelectPerson, PersonDeleted, LinkedRead, DeletionServed,
                    AccountServed, OpenDraft
<1>5. CASE BackToList \/ StepsBack \/ \E p \in PersonId, ok \in BOOLEAN : DeletionOver(p, ok)
  <2>1. UNCHANGED <<stacked, narrow, created>>
    BY <1>5 DEF BackToList, StepsBack, DeletionOver, draftVars
  <2>2. pops' \in Nat
    <3>1. pops \in Nat
      BY DEF PersonRest
    <3>2. CASE BackToList
      BY <3>1, <3>2, PopsKept DEF BackToList
    <3>3. CASE StepsBack
      BY <3>1, <3>3 DEF StepsBack
    <3>4. ASSUME NEW p \in PersonId, NEW ok \in BOOLEAN, DeletionOver(p, ok) PROVE pops' \in Nat
      <4>1. UNCHANGED pops \/ LeaveDetail(removal[p].at)
        BY <3>4 DEF DeletionOver
      <4> QED BY <3>1, <4>1, PopsKept
    <3> QED BY <1>5, <3>2, <3>3, <3>4
  <2> QED BY <2>1, <2>2 DEF PersonRest
<1>6. CASE NarrowList
  <2>1. narrow' \in NarrowRow
    BY <1>6 DEF NarrowList, PersonRest, NarrowRow
  <2> QED BY <1>6, <2>1 DEF NarrowList, PersonRest, draftVars
<1>7. CASE SaveDone \/ LoginCopied \/ \E b \in BOOLEAN : LoginClosed(b) \/ LoginGivenUp(b)
  <2>1. UNCHANGED <<pops, stacked, narrow>>
    BY <1>7 DEF SaveDone, LoginCopied, LoginClosed, LoginGivenUp, wayVars
  <2>2. created \in LoginShown /\ NoLoginShown \in LoginShown
    BY DEF PersonRest, LoginShown, NoLoginShown
  <2>3. created' \in {created, NoLoginShown, [NoLoginShown EXCEPT !.open = TRUE], [created EXCEPT !.copied = TRUE],
                      [created EXCEPT !.asking = TRUE], [created EXCEPT !.asking = FALSE]}
    BY <1>7 DEF SaveDone, LoginCopied, LoginClosed, LoginGivenUp
  <2>4. created' \in LoginShown
    BY <2>2, <2>3 DEF LoginShown
  <2> QED BY <2>1, <2>4 DEF PersonRest
<1> QED BY <1>2, <1>3, <1>4, <1>5, <1>6, <1>7 DEF PersonNext

\* The lists, dialogs and questions of the persons page keep their types.
THEOREM PersonTypeCorrect == PersonSpec => []PersonTypeOK
<1>1. PersonInit => PersonRest
  BY DEF PersonInit, PersonRest, NarrowRow, LoginShown, NoLoginShown
<1> QED BY <1>1, PersonInvInit, PersonInvStep, PersonRestStep, PersonTyped, PTL DEF PersonSpec

-----------------------------------------------------------------------------
(* What the updates tab holds of the waiting install, and what was read    *)
(* and said yes to.                                                        *)

RowsHeld ==
    /\ \A d \in TabDevice : tabCache.actions[d] \in WaitingRow \cup {NotAnswered}
    /\ tabLoad.actions.stage = "answered" => tabLoad.actions.answer \in WaitingRow
Consents == consented \subseteq TabDevice \X BOOLEAN
TabRest == RowsHeld /\ Consents

LEMMA TabTyped == UpdInv /\ TabRest => UpdatesTypeOK
<1> SUFFICES ASSUME UpdInv, TabRest PROVE UpdatesTypeOK
  OBVIOUS
<1>1. \A q \in TabQuery : tabLoad[q].stage \in {"none", "asked", "answered"}
  BY DEF UpdInv, TabQueryTypes, NoTabLoad
<1> QED BY <1>1 DEF UpdInv, TabServerTypes, TabQueryTypes, TabTypes, TabCallRow, TabRest, RowsHeld, Consents,
                    UpdatesTypeOK

LEMMA TabRestInit == UpdatesInit => TabRest
BY DEF UpdatesInit, TabRest, RowsHeld, Consents, TabQuery, NoTabLoad

\* A load that begins or is given up has no answer.
LEMMA LoadsBegin ==
    ASSUME RowsHeld, UNCHANGED tabCache,
           \/ tabLoad'.actions = tabLoad.actions
           \/ tabLoad'.actions \in {NoTabLoad, TabLoading}
    PROVE  RowsHeld'
BY DEF RowsHeld, NoTabLoad, TabLoading

LEMMA InvalidateHeld ==
    ASSUME UpdInv, RowsHeld, NEW q \in TabQuery, NEW d, InvalidatesTab(q, d)
    PROVE  RowsHeld'
<1>1. tabLoad = [r \in TabQuery |-> tabLoad[r]]
  BY DEF UpdInv, TabQueryTypes
<1>2. tabLoad'.actions = tabLoad.actions \/ tabLoad'.actions = TabLoading
  BY <1>1 DEF InvalidatesTab, TabQuery
<1> QED BY <1>2, LoadsBegin DEF InvalidatesTab

\* The queries: only the row that the server had is ever taken for one.
LEMMA QueryHeld ==
    ASSUME UpdInv, RowsHeld, NEW q \in TabQuery, TabAsks(q) \/ TabServed(q) \/ TabArrives(q) \/ TabLost(q)
    PROVE  RowsHeld'
<1>1. tabLoad = [r \in TabQuery |-> tabLoad[r]] /\ "actions" \in TabQuery
  BY DEF UpdInv, TabQueryTypes, TabQuery
<1>2. CASE TabAsks(q) \/ TabLost(q)
  <2>1. tabLoad'.actions = tabLoad.actions \/ tabLoad'.actions \in {NoTabLoad, TabLoading}
    BY <1>1, <1>2 DEF TabAsks, TabLost
  <2> QED BY <1>2, <2>1, LoadsBegin DEF TabAsks, TabLost
<1>3. CASE TabServed(q)
  <2>1. UNCHANGED tabCache
    BY <1>3 DEF TabServed
  <2>2. CASE q # "actions"
    <3>1. tabLoad'.actions = tabLoad.actions
      BY <1>1, <1>3, <2>2 DEF TabServed
    <3> QED BY <2>1, <3>1, LoadsBegin
  <2>3. CASE q = "actions"
    <3>1. tabLoad'.actions.answer = waiting[tabDevice]
      BY <1>1, <1>3, <2>3 DEF TabServed, TabAnswer
    <3>2. tabDevice \in TabDevice
      <4>1. tabLoad[q] # NoTabLoad
        BY <1>3 DEF TabServed, NoTabLoad
      <4> QED BY <4>1 DEF UpdInv, TabQueryTypes, TabTypes
    <3>3. waiting[tabDevice] \in WaitingRow
      BY <3>2 DEF UpdInv, TabServerTypes
    <3> QED BY <2>1, <3>1, <3>3 DEF RowsHeld
  <2> QED BY <2>2, <2>3
<1>4. CASE TabArrives(q)
  <2>1. tabCache = [r \in TabQuery |-> [d \in TabDevice |-> tabCache[r][d]]]
    BY DEF UpdInv, TabQueryTypes
  <2>2. tabLoad'.actions \in {tabLoad.actions, NoTabLoad}
    BY <1>1, <1>4 DEF TabArrives
  <2>3. ASSUME NEW d \in TabDevice PROVE tabCache'.actions[d] \in WaitingRow \cup {NotAnswered}
    <3>1. tabCache'.actions[d] = tabCache.actions[d]
          \/ (q = "actions" /\ tabLoad.actions.stage = "answered" /\ tabCache'.actions[d] = tabLoad.actions.answer)
      BY <1>1, <1>4, <2>1 DEF TabArrives
    <3> QED BY <3>1 DEF RowsHeld
  <2> QED BY <2>2, <2>3 DEF RowsHeld, NoTabLoad
<1> QED BY <1>2, <1>3, <1>4

LEMMA TabHeld ==
    ASSUME UpdInv, RowsHeld, LeaveTab \/ TabHint \/ (\E d \in TabDevice : ShowTab(d) \/ SwitchTab(d))
    PROVE  RowsHeld'
<1>1. UNCHANGED tabCache
  BY DEF LeaveTab, TabHint, ShowTab, SwitchTab
<1>2. tabLoad'.actions = tabLoad.actions \/ tabLoad'.actions \in {NoTabLoad, TabLoading}
  BY DEF LeaveTab, TabHint, ShowTab, SwitchTab, TabQuery
<1> QED BY <1>1, <1>2, LoadsBegin

LEMMA CallHeld ==
    ASSUME UpdInv, RowsHeld, (\E d \in TabDevice : ReloadDue(d)) \/ (\E c \in TabSlot : TabCallDone(c))
    PROVE  RowsHeld'
<1>1. (\E q \in TabQuery : \E d : InvalidatesTab(q, d)) \/ UNCHANGED <<tabCache, tabLoad>>
  <2>1. CASE \E d \in TabDevice : ReloadDue(d)
    BY <2>1 DEF ReloadDue, TabQuery
  <2>2. CASE \E c \in TabSlot : TabCallDone(c)
    BY <2>2 DEF TabCallDone, RowsAfter, TabQuery, tabQueryVars
  <2> QED BY <2>1, <2>2
<1> QED BY <1>1, InvalidateHeld, LoadsBegin

\* Yes is said only to a question about a device.
LEMMA ConsentStep == ASSUME UpdInv, Consents, InstallNow PROVE Consents'
<1>1. tabQuestion \in [device: TabDevice \cup {0}, whole: BOOLEAN] /\ tabQuestion.device \in TabDevice
  BY DEF UpdInv, TabTypes, AskedFine, InstallNow
<1>2. <<tabQuestion.device, tabQuestion.whole>> \in TabDevice \X BOOLEAN
  BY <1>1
<1> QED BY <1>2 DEF InstallNow, Consents

LEMMA TabRestStep == UpdInv /\ TabRest /\ [UpdatesNext]_tabVars => TabRest'
<1> SUFFICES ASSUME UpdInv, TabRest, [UpdatesNext]_tabVars PROVE TabRest'
  OBVIOUS
<1>1. CASE UNCHANGED <<tabQueryVars, consented>>
  BY <1>1 DEF tabQueryVars, TabRest, RowsHeld, Consents
<1>2. CASE UNCHANGED tabVars
  BY <1>1, <1>2 DEF tabVars, tabAskVars
<1>3. CASE ScanTab \/ InstallNotNow \/ Withdraw \/ ConsoleTold \/ \E whole \in Scopes : AskInstallNow(whole) \/ QueueInstall(whole)
  BY <1>1, <1>3 DEF ScanTab, InstallNotNow, Withdraw, ConsoleTold, AskInstallNow, QueueInstall, Requests, tabAskVars
<1>4. CASE \/ \E d \in TabDevice : OtherInstalls(d) \/ RowRuns(d)
           \/ \E d \in TabDevice, whole \in Scopes : OtherQueues(d, whole)
           \/ \E r \in RunId : InstallEnds(r)
           \/ \E c \in TabSlot : TabCallServed(c) \/ TabCallFails(c)
  <2>1. UNCHANGED tabQueryVars
    BY <1>4 DEF OtherInstalls, RowRuns, OtherQueues, InstallEnds, Behind, TabCallServed, TabCallFails
  <2>2. UNCHANGED consented \/ \E d : Behind(d)
    BY <1>4 DEF OtherInstalls, RowRuns, OtherQueues, InstallEnds, TabCallServed, TabCallFails, tabAskVars
  <2> QED BY <1>1, <2>1, <2>2 DEF Behind, tabAskVars
<1>5. CASE \/ LeaveTab \/ TabHint \/ \E d \in TabDevice : ShowTab(d) \/ SwitchTab(d) \/ ReloadDue(d)
           \/ \E c \in TabSlot : TabCallDone(c)
           \/ \E q \in TabQuery : TabAsks(q) \/ TabServed(q) \/ TabArrives(q) \/ TabLost(q)
  <2>1. RowsHeld'
    BY <1>5, TabHeld, CallHeld, QueryHeld DEF TabRest
  <2>2. UNCHANGED consented
    BY <1>5 DEF LeaveTab, TabHint, ShowTab, SwitchTab, ReloadDue, TabCallDone, TabAsks, TabServed, TabArrives, TabLost,
                tabAskVars
  <2> QED BY <2>1, <2>2 DEF TabRest, Consents
<1>6. CASE InstallNow
  <2>1. UNCHANGED tabQueryVars
    BY <1>6 DEF InstallNow, Requests
  <2> QED BY <1>6, <2>1, ConsentStep DEF tabQueryVars, TabRest, RowsHeld
<1> QED BY <1>2, <1>3, <1>4, <1>5, <1>6 DEF UpdatesNext

\* Runs, rows and requests of a device's updates keep their types; yes was
\* said of devices only.
THEOREM UpdatesTypeCorrect == UpdatesSpec => []UpdatesTypeOK
BY UpdInvInit, UpdInvStep, TabRestInit, TabRestStep, TabTyped, PTL DEF UpdatesSpec

-----------------------------------------------------------------------------
(* The pages together.                                                     *)

\* A step of the composition is a step of one page, and none for the others.
LEMMA PageStep ==
    [Next]_Vars =>
        /\ [BulkNext]_bulkVars /\ [DevNext]_devVars /\ [PatchNext]_patchVars /\ [AlertNext]_alertVars
        /\ [AuditNext]_auditVars /\ [AutoNext]_autoVars /\ [PersonNext]_personVars /\ [ScriptNext]_scriptVars
        /\ [UpdatesNext]_tabVars
BY DEF Next, Vars, Bulk, DevicesPage, PatchesPage, AlertsPage, AuditLog, AutomationPage, PersonsPage, ScriptsPage,
       UpdatesTab

\* A behaviour of the composition is one of every page: each is left by the
\* others as it was.
THEOREM PageParts ==
    Spec => /\ BulkSpec /\ DevSpec /\ PatchSpec /\ AlertSpec /\ AuditSpec /\ AutoSpec /\ PersonSpec /\ ShelfSpec
            /\ UpdatesSpec
<1>1. Init => /\ BulkInit /\ DevInit /\ PatchInit /\ AlertInit /\ AuditInit /\ AutoInit /\ PersonInit /\ ScriptInit
              /\ UpdatesInit
  BY DEF Init
<1> QED BY <1>1, PageStep, PTL DEF Spec, BulkSpec, DevSpec, PatchSpec, AlertSpec, AuditSpec, AutoSpec, PersonSpec,
                                   ShelfSpec, UpdatesSpec

LEMMA MountedKept == Spec => [](mounted \in Page)
<1>1. Init => mounted \in Page
  BY DEF Init
<1>2. mounted \in Page /\ [Next]_Vars => (mounted \in Page)'
  BY DEF Next, Vars, Bulk, DevicesPage, PatchesPage, AlertsPage, AuditLog, AutomationPage, PersonsPage, ScriptsPage,
         UpdatesTab
<1> QED BY <1>1, <1>2, PTL DEF Spec

\* Whatever page a behaviour is about, what it holds keeps its types, for any
\* devices, alerts, entries, rules, accounts and scripts.
THEOREM PagesTypeCorrect == Spec => []PagesTypeOK
<1>1. /\ mounted \in Page /\ BulkTypeOK /\ DevTypeOK /\ PatchTypeOK /\ AlertTypeOK /\ AuditTypeOK /\ AutoTypeOK
      /\ PersonTypeOK /\ ScriptTypeOK /\ UpdatesTypeOK
      => PagesTypeOK
  BY DEF Page, PagesTypeOK
<1> QED BY <1>1, MountedKept, PageParts, BulkTypeCorrect, DevTypeCorrect, PatchTypeCorrect, AlertTypeCorrect,
           AuditTypeCorrect, AutoTypeCorrect, PersonTypeCorrect, ScriptTypeCorrect, UpdatesTypeCorrect, PTL

\* What each page promises alone it promises in the composition: where each
\* device of a bulk action is (BulkJobs), what was typed and may be selected
\* (DeviceTable), what is installed and counted (PatchBoard), rounds and
\* exports (AlertCenter, AuditView), the rule that governs (AutomationDesk),
\* the library and its runs (ScriptShelf), what the tab of updates knows
\* (DeviceUpdates), and what a deletion was said to do (PersonDesk).
THEOREM PagesCorrect ==
    Spec => /\ []JobsAccounted /\ []KeystrokesStay /\ []InstallsAsNamed /\ []FiguresHonest /\ []RoundsHonest
            /\ []ExportsMatch /\ []SameRule /\ []ShelfHonest /\ []UpdatesHonest
            /\ SelectionOfPerson /\ FateAsTold
BY PageParts, DevicesAccounted, TypedStays, InstallsOnThese, FiguresAreHonest, RoundsAreHonest, ExportsAreAsked,
   RuleIsTheServers, ShelfIsHonest, UpdatesAreHonest, SelectionNarrowed, FateIsTold, PTL
=============================================================================
