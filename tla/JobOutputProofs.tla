-------------------------- MODULE JobOutputProofs ---------------------------
(***************************************************************************)
(* Proofs about the output of JobChannel, from the invariant of            *)
(* JobChannelProofs: what is stored is a beginning of what the job wrote,  *)
(* and a job that counts as done ended well and has all of its output.     *)
(*                                                                         *)
(* The pieces of a job are followed from the row backwards: stored, given  *)
(* to the loop by the filter, held back by it, on the wire, in the outbox. *)
(* As long as the connection the job came over is not closed, and the job  *)
(* not over, these places hold consecutive pieces; what is lost, is lost   *)
(* at the end.                                                             *)
(***************************************************************************)
EXTENDS JobChannelProofs, SequenceTheorems

\* The pieces after the first a, up to the b-th.
Pieces(a, b) == [i \in 1 .. b - a |-> a + i]

IsOutput(m, j) == m.type = "job_output" /\ m.job = j
IsResult(m, j) == m.type = "job_result" /\ m.job = j

\* f[i]: the pieces of j that are known once the first i messages of q are,
\* a before the first of them and b after the last.  A result comes when there
\* are w.
Counts(f, q, j, a, b, w) ==
    /\ f \in [0 .. Len(q) -> Nat] /\ f[0] = a /\ f[Len(q)] = b
    /\ \A i, k \in 0 .. Len(q) : i <= k => f[i] <= f[k]
    /\ \A i \in 1 .. Len(q) :
          /\ IsOutput(q[i], j) => q[i].chunk = f[i] /\ f[i] = f[i - 1] + 1
          /\ ~IsOutput(q[i], j) => f[i] = f[i - 1]
          /\ IsResult(q[i], j) => f[i] = w
Run(q, j, a, b, w) == \E f : Counts(f, q, j, a, b, w)

\* What is under way from the goroutine of j to the loop of its connection.
Pipe(j) == IF intact /\ over[j] = conn THEN up[conn] \o outbox ELSE up[over[j]]

\* It continues the first m pieces, and while the connection stands it does so
\* up to the last one.
Flows(j, m) ==
    \E n \in Nat : /\ n <= wrote[j] /\ (intact /\ over[j] = conn => n = wrote[j])
                   /\ Run(Pipe(j), j, m, n, wrote[j])

\* The messages that come over connection d.
From(d) ==
    {m \in Reports(Begun) :
        /\ m.type \in JobReport => over[m.job] = d
        /\ m.type = "job_result" => at[m.job] \in {"rescan", "end"} /\ m.status = result[m.job]}

\* A job reports over the connection it came over, and has written nothing before.
WayInv ==
    /\ \A d \in Conn : up[d] \in Seq(From(d))
    /\ outbox \in Seq(From(conn))
    /\ \A j \in Begun : over[j] \in 1 .. conn
    /\ \A j \in Job \ Begun : wrote[j] = 0

\* So the loop of that connection handles it, and the filter knows it from there.
HandInv ==
    /\ \A d \in Conn : loop[d] \in Working => msg[d] \in From(d)
    /\ \A d \in Conn : loop[d] = "finish" => msg[d].type = "job_result"
    /\ \A j \in Job \ Begun : held[j] = <<>>

\* A job is sent once.
FrameInv ==
    /\ frame.type = "job" => at[frame.job] = "idle"
    /\ \A i \in 1 .. Len(down) :
          down[i].type = "job" => /\ at[down[i].job] = "idle" /\ frame # down[i]
                                  /\ \A k \in 1 .. Len(down) : down[k] = down[i] => k = i

\* Nothing comes any more over a connection that was closed.
EndInv ==
    /\ \A c \in Conn : loop[c] = "closed" => up[c] = <<>>
    /\ \A c \in Conn : loop[c] = "closed" /\ c = conn => ~intact
    /\ \A c \in Conn : c <= conn => loop[c] # "none"
    /\ serve = "away" => ~intact

\* The loop of j's connection has pieces of j in hand that are not stored yet.
Pending(j) == loop[over[j]] \in {"append", "update"} /\ msg[over[j]].job = j

\* ... and these are the last ones.
Ending(j) ==
    /\ loop[over[j]] \in {"append", "update", "publish", "finish"}
    /\ msg[over[j]].job = j /\ msg[over[j]].type = "job_result"

\* k pieces of j are stored, or would be but for the cap, l have left the
\* filter, and m have come in.
Chain(j, k, l, m) ==
    /\ k <= l /\ l <= m /\ Flows(j, m)
    /\ row[j].output = Capped(Written(k))
    /\ IF Pending(j) THEN clean[over[j]] = Pieces(k, l) ELSE k = l
    /\ held[j] = Pieces(l, m)
    /\ Ending(j) => l = wrote[j]

\* A job whose pieces may still come in.
Known(j)   == ~Over(j) /\ loop[over[j]] # "closed"
ChainOf(j) == \E k, l, m \in Nat : Chain(j, k, l, m)
ChainInv   == \A j \in Begun : Known(j) => ChainOf(j)

\* What the loop is about to write continues what it has read, and nobody else
\* has written since.
UpdateOf(c) ==
    \E k, l \in Nat : /\ k <= l /\ l <= wrote[msg[c].job]
                      /\ current[c] = Capped(Written(k)) /\ clean[c] = Pieces(k, l)
                      /\ row[msg[c].job].output = current[c]
UpdateInv == \A c \in Conn : loop[c] = "update" => UpdateOf(c)

PrefixOf(j) == \/ row[j].output = <<0>> /\ Over(j)
               \/ \E k \in Nat : k <= wrote[j] /\ row[j].output = Capped(Written(k))
PrefixInv   == \A j \in Job : PrefixOf(j)

\* A job that counts as done is whole, and nothing is added to it.
DoneOf(j) ==
    /\ result[j] = "done" /\ at[j] \in {"rescan", "end"}
    /\ row[j].output = Capped(Written(wrote[j]))
    /\ \A c \in Conn : ~(loop[c] = "update" /\ msg[c].job = j)
DoneInv == \A j \in Job : row[j].status = "done" => DoneOf(j)

OutInv ==
    /\ WayInv /\ HandInv /\ FrameInv /\ EndInv
    /\ ChainInv /\ UpdateInv /\ PrefixInv /\ DoneInv

-----------------------------------------------------------------------------
(* Pieces of output. *)

LEMMA PiecesAre ==
    ASSUME NEW a \in Nat, NEW b \in Nat, a <= b
    PROVE  /\ Pieces(a, b) \in Seq(Nat) /\ Len(Pieces(a, b)) = b - a
           /\ \A i \in 1 .. b - a : Pieces(a, b)[i] = a + i
BY DEF Pieces

LEMMA NoPieces == ASSUME NEW a \in Nat PROVE Pieces(a, a) = <<>>
<1>1. Pieces(a, a) \in Seq(Nat) /\ Len(Pieces(a, a)) = 0
  BY PiecesAre
<1> QED
  BY <1>1

LEMMA FirstPieces ==
    ASSUME NEW n \in Nat
    PROVE  /\ Pieces(0, n) \in Seq(Nat) /\ Len(Pieces(0, n)) = n
           /\ \A i \in 1 .. n : Pieces(0, n)[i] = i
BY DEF Pieces

LEMMA NextPiece ==
    ASSUME NEW a \in Nat, NEW b \in Nat, a <= b
    PROVE  Append(Pieces(a, b), b + 1) = Pieces(a, b + 1)
<1> DEFINE p == Pieces(a, b)
           q == Pieces(a, b + 1)
<1>1. p \in Seq(Nat) /\ Len(p) = b - a /\ \A i \in 1 .. b - a : p[i] = a + i
  BY PiecesAre
<1>2. a <= b + 1 /\ b + 1 \in Nat
  OBVIOUS
<1>3. q \in Seq(Nat) /\ Len(q) = b + 1 - a /\ \A i \in 1 .. b + 1 - a : q[i] = a + i
  BY <1>2, PiecesAre
<1> HIDE DEF p, q
<1>4. Append(p, b + 1) \in Seq(Nat) /\ Len(Append(p, b + 1)) = b + 1 - a
  BY <1>1
<1>5. ASSUME NEW i \in 1 .. b + 1 - a
      PROVE  Append(p, b + 1)[i] = q[i]
  <2>1. Append(p, b + 1)[i] = IF i <= b - a THEN p[i] ELSE b + 1
    BY <1>1, AppendProperties
  <2> QED
    BY <1>1, <1>3, <2>1
<1>6. Append(p, b + 1) = q
  BY <1>3, <1>4, <1>5, SeqEqual
<1> QED
  BY <1>6 DEF p, q

LEMMA MorePieces ==
    ASSUME NEW a \in Nat, NEW b \in Nat, NEW c \in Nat, a <= b, b <= c
    PROVE  Pieces(a, b) \o Pieces(b, c) = Pieces(a, c)
<1> DEFINE p == Pieces(a, b)
           q == Pieces(b, c)
           r == Pieces(a, c)
<1>1. p \in Seq(Nat) /\ Len(p) = b - a /\ \A i \in 1 .. b - a : p[i] = a + i
  BY PiecesAre
<1>2. q \in Seq(Nat) /\ Len(q) = c - b /\ \A i \in 1 .. c - b : q[i] = b + i
  BY PiecesAre
<1>3. a <= c
  OBVIOUS
<1>4. r \in Seq(Nat) /\ Len(r) = c - a /\ \A i \in 1 .. c - a : r[i] = a + i
  BY <1>3, PiecesAre
<1> HIDE DEF p, q, r
<1>5. p \o q \in Seq(Nat) /\ Len(p \o q) = c - a
  <2>1. p \o q \in Seq(Nat) /\ Len(p \o q) = Len(p) + Len(q)
    BY <1>1, <1>2, ConcatProperties
  <2>2. (b - a) + (c - b) = c - a
    OBVIOUS
  <2> QED
    BY <1>1, <1>2, <2>1, <2>2
<1>6. ASSUME NEW i \in 1 .. c - a
      PROVE  (p \o q)[i] = r[i]
  <2>1. (p \o q)[i] = IF i <= b - a THEN p[i] ELSE q[i - (b - a)]
    BY <1>1, <1>2, ConcatProperties
  <2>2. CASE i <= b - a
    BY <1>1, <1>4, <2>1, <2>2
  <2>3. CASE ~(i <= b - a)
    <3>1. i - (b - a) \in 1 .. c - b /\ b + (i - (b - a)) = a + i
      BY <2>3
    <3>2. q[i - (b - a)] = b + (i - (b - a))
      BY <1>2, <3>1
    <3> QED
      BY <1>4, <2>1, <2>3, <3>1, <3>2
  <2> QED
    BY <2>2, <2>3
<1>7. p \o q = r
  BY <1>4, <1>5, <1>6, SeqEqual
<1> QED
  BY <1>7 DEF p, q, r

LEMMA WrittenAre == ASSUME NEW n \in Nat PROVE Written(n) = Pieces(0, n)
BY DEF Written, Pieces

\* The first of n pieces the cap leaves.
AtMost(n) == IF n > MaxOutput THEN MaxOutput ELSE n

LEMMA CappedIs ==
    ASSUME NEW n \in Nat
    PROVE  Capped(Written(n)) = Pieces(0, AtMost(n)) /\ AtMost(n) \in Nat /\ AtMost(n) <= n
<1> DEFINE p == Pieces(0, n)
           w == AtMost(n)
           q == Pieces(0, w)
<1>1. Written(n) = p
  BY WrittenAre
<1>2. p \in Seq(Nat) /\ Len(p) = n /\ \A i \in 1 .. n : p[i] = i
  BY FirstPieces
<1>3. w \in Nat /\ w <= n
  BY ChannelAssumption DEF AtMost
<1>4. q \in Seq(Nat) /\ Len(q) = w /\ \A i \in 1 .. w : q[i] = i
  BY <1>3, FirstPieces
<1>5. Capped(p) = SubSeq(p, 1, w)
  BY <1>2 DEF Capped, AtMost
<1> HIDE DEF p, w, q
<1>6. SubSeq(p, 1, w) \in Seq(Nat) /\ Len(SubSeq(p, 1, w)) = w
  BY <1>2, <1>3
<1>7. ASSUME NEW i \in 1 .. w
      PROVE  SubSeq(p, 1, w)[i] = q[i]
  BY <1>2, <1>3, <1>4
<1>8. SubSeq(p, 1, w) = q
  BY <1>4, <1>6, <1>7, SeqEqual
<1> QED
  BY <1>1, <1>3, <1>5, <1>8 DEF q, w

\* Appending to what is stored, under the cap, is storing more.
LEMMA CappedMore ==
    ASSUME NEW k \in Nat, NEW l \in Nat, k <= l
    PROVE  Capped(Capped(Written(k)) \o Pieces(k, l)) = Capped(Written(l))
<1>1. /\ Capped(Written(k)) = Pieces(0, AtMost(k)) /\ AtMost(k) \in Nat /\ AtMost(k) <= k
      /\ Capped(Written(l)) = Pieces(0, AtMost(l)) /\ AtMost(l) \in Nat /\ AtMost(l) <= l
  BY CappedIs
<1>2. CASE k <= MaxOutput
  <2>1. AtMost(k) = k
    BY <1>2, ChannelAssumption DEF AtMost
  <2>2. Pieces(0, k) \o Pieces(k, l) = Pieces(0, l)
    <3>1. 0 \in Nat /\ 0 <= k
      OBVIOUS
    <3> QED
      BY <3>1, MorePieces
  <2>3. Written(l) = Pieces(0, l)
    BY WrittenAre
  <2> QED
    BY <1>1, <2>1, <2>2, <2>3
<1>3. CASE k > MaxOutput
  <2> DEFINE p == Pieces(0, MaxOutput)
             q == Pieces(k, l)
  <2>1. AtMost(k) = MaxOutput /\ AtMost(l) = MaxOutput
    BY <1>3, ChannelAssumption DEF AtMost
  <2>2. p \in Seq(Nat) /\ Len(p) = MaxOutput
    BY ChannelAssumption, FirstPieces
  <2>3. q \in Seq(Nat) /\ Len(q) = l - k
    BY PiecesAre
  <2> HIDE DEF p, q
  <2>4. p \o q \in Seq(Nat) /\ Len(p \o q) >= MaxOutput
    BY <2>2, <2>3, ConcatProperties, ChannelAssumption
  <2>5. Capped(p \o q) = SubSeq(p \o q, 1, MaxOutput)
    <3>1. CASE Len(p \o q) > MaxOutput
      BY <3>1 DEF Capped
    <3>2. CASE Len(p \o q) = MaxOutput
      BY <3>2, ChannelAssumption DEF Capped
    <3> QED
      BY <2>4, <3>1, <3>2, ChannelAssumption
  <2>6. /\ SubSeq(p \o q, 1, MaxOutput) \in Seq(Nat)
        /\ Len(SubSeq(p \o q, 1, MaxOutput)) = MaxOutput
    BY <2>4, ChannelAssumption, ElementOfSeq, SubSeqProperties
  <2>7. ASSUME NEW i \in 1 .. MaxOutput
        PROVE  SubSeq(p \o q, 1, MaxOutput)[i] = p[i]
    <3>1. (p \o q)[i] = p[i]
      BY <2>2, <2>3, ConcatProperties, ChannelAssumption
    <3> QED
      BY <2>4, <3>1, ChannelAssumption
  <2>8. SubSeq(p \o q, 1, MaxOutput) = p
    BY <2>2, <2>6, <2>7, SeqEqual
  <2> QED
    BY <1>1, <2>1, <2>5, <2>8 DEF p, q
<1> QED
  BY <1>2, <1>3, ChannelAssumption

\* Once the cap is reached, more changes nothing.
LEMMA CappedFull ==
    ASSUME NEW k \in Nat, NEW l \in Nat, k <= l, Len(Capped(Written(k))) >= MaxOutput
    PROVE  Capped(Written(k)) = Capped(Written(l))
<1>1. /\ Capped(Written(k)) = Pieces(0, AtMost(k)) /\ AtMost(k) \in Nat
      /\ Capped(Written(l)) = Pieces(0, AtMost(l))
  BY CappedIs
<1>2. AtMost(k) >= MaxOutput
  BY <1>1, PiecesAre
<1>3. AtMost(k) = AtMost(l)
  BY <1>2, ChannelAssumption DEF AtMost
<1> QED
  BY <1>1, <1>3

-----------------------------------------------------------------------------
(* Runs of pieces in a queue of messages. *)

\* A message that is neither a piece of j nor its result.
Quiet(m, j) == ~IsOutput(m, j) /\ ~IsResult(m, j)

LEMMA RunOfNone ==
    ASSUME NEW S, NEW q \in Seq(S), NEW j, NEW a \in Nat, NEW w,
           \A i \in 1 .. Len(q) : Quiet(q[i], j)
    PROVE  Run(q, j, a, a, w)
<1> DEFINE f == [i \in 0 .. Len(q) |-> a]
<1>1. Counts(f, q, j, a, a, w)
  BY DEF Counts, Quiet
<1> QED
  BY <1>1 DEF Run

LEMMA RunBounds ==
    ASSUME NEW S, NEW q \in Seq(S), NEW j, NEW a, NEW b, NEW w, Run(q, j, a, b, w)
    PROVE  a \in Nat /\ b \in Nat /\ a <= b
BY DEF Run, Counts

\* One more message at the end: another piece, the result, or neither.
LEMMA RunAppend ==
    ASSUME NEW S, NEW q \in Seq(S), NEW j, NEW a, NEW b, NEW w, Run(q, j, a, b, w),
           NEW m \in S, NEW more \in {0, 1},
           IsOutput(m, j) => more = 1 /\ m.chunk = b + 1,
           ~IsOutput(m, j) => more = 0,
           IsResult(m, j) => b = w
    PROVE  Run(Append(q, m), j, a, b + more, w)
<1>1. PICK f : Counts(f, q, j, a, b, w)
  BY DEF Run
<1> DEFINE p == Append(q, m)
           g == [i \in 0 .. Len(q) + 1 |-> IF i <= Len(q) THEN f[i] ELSE b + more]
<1>2. /\ Len(p) = Len(q) + 1 /\ p[Len(q) + 1] = m
      /\ \A i \in 1 .. Len(q) : p[i] = q[i]
  BY AppendProperties
<1>3. Len(q) \in Nat /\ b \in Nat /\ f \in [0 .. Len(q) -> Nat] /\ f[Len(q)] = b
  BY <1>1 DEF Counts
<1>4. g \in [0 .. Len(p) -> Nat] /\ g[0] = a /\ g[Len(p)] = b + more
  BY <1>1, <1>2, <1>3 DEF Counts
<1>5. ASSUME NEW i \in 0 .. Len(p), NEW k \in 0 .. Len(p), i <= k
      PROVE  g[i] <= g[k]
  <2>1. CASE k <= Len(q)
    BY <1>1, <1>2, <1>3, <1>5, <2>1 DEF Counts
  <2>2. CASE k = Len(q) + 1
    <3>1. i <= Len(q) => f[i] <= b
      BY <1>1, <1>3 DEF Counts
    <3> QED
      BY <1>2, <1>3, <1>5, <2>2, <3>1
  <2> QED
    BY <1>2, <1>3, <2>1, <2>2
<1>6. ASSUME NEW i \in 1 .. Len(p)
      PROVE  /\ IsOutput(p[i], j) => p[i].chunk = g[i] /\ g[i] = g[i - 1] + 1
             /\ ~IsOutput(p[i], j) => g[i] = g[i - 1]
             /\ IsResult(p[i], j) => g[i] = w
  <2>1. CASE i <= Len(q)
    <3>1. p[i] = q[i] /\ g[i] = f[i] /\ g[i - 1] = f[i - 1]
      BY <1>2, <1>3, <2>1
    <3> QED
      BY <1>1, <1>3, <2>1, <3>1 DEF Counts
  <2>2. CASE i = Len(q) + 1
    <3>1. p[i] = m /\ g[i] = b + more /\ g[i - 1] = b
      BY <1>2, <1>3, <2>2
    <3>2. IsResult(m, j) => ~IsOutput(m, j)
      BY DEF IsResult, IsOutput
    <3> QED
      BY <1>3, <3>1, <3>2
  <2> QED
    BY SMTT(30), <1>2, <1>3, <2>1, <2>2
<1> HIDE DEF g
<1>7. Counts(g, p, j, a, b + more, w)
  BY <1>4, <1>5, <1>6 DEF Counts
<1> QED
  BY <1>7 DEF Run

\* The first message taken away.
LEMMA RunTail ==
    ASSUME NEW S, NEW q \in Seq(S), NEW j, NEW a, NEW b, NEW w, Run(q, j, a, b, w), q # <<>>
    PROVE  \E more \in {0, 1} :
              /\ Run(Tail(q), j, a + more, b, w)
              /\ IsOutput(Head(q), j) => more = 1 /\ Head(q).chunk = a + 1
              /\ ~IsOutput(Head(q), j) => more = 0
              /\ IsResult(Head(q), j) => a = w
<1>1. PICK f : Counts(f, q, j, a, b, w)
  BY DEF Run
<1> DEFINE t == Tail(q)
           g == [i \in 0 .. Len(q) - 1 |-> f[i + 1]]
           more == IF IsOutput(Head(q), j) THEN 1 ELSE 0
<1>2. /\ Len(t) = Len(q) - 1 /\ Len(q) \in Nat /\ Len(q) >= 1 /\ Head(q) = q[1]
      /\ \A i \in 1 .. Len(t) : t[i] = q[i + 1]
  BY HeadTailProperties, EmptySeq
<1>3. /\ f \in [0 .. Len(q) -> Nat] /\ f[0] = a /\ f[Len(q)] = b
      /\ \A i, k \in 0 .. Len(q) : i <= k => f[i] <= f[k]
  BY <1>1 DEF Counts
<1>4. /\ IsOutput(Head(q), j) => Head(q).chunk = f[1] /\ f[1] = a + 1
      /\ ~IsOutput(Head(q), j) => f[1] = a
      /\ IsResult(Head(q), j) => f[1] = w
  <2>1. 1 \in 1 .. Len(q) /\ f[1 - 1] = a
    BY <1>2, <1>3
  <2> QED
    BY <1>1, <1>2, <2>1 DEF Counts
<1>5. g \in [0 .. Len(t) -> Nat] /\ g[0] = a + more /\ g[Len(t)] = b
  <2>1. g[0] = f[1] /\ g[Len(q) - 1] = f[Len(q)]
    BY <1>2, <1>3
  <2>2. a + more = f[1]
    BY <1>2, <1>3, <1>4
  <2> QED
    BY <1>2, <1>3, <2>1, <2>2
<1>6. ASSUME NEW i \in 0 .. Len(t), NEW k \in 0 .. Len(t), i <= k
      PROVE  g[i] <= g[k]
  <2>1. /\ i + 1 \in 0 .. Len(q) /\ k + 1 \in 0 .. Len(q) /\ i + 1 <= k + 1
        /\ g[i] = f[i + 1] /\ g[k] = f[k + 1]
    BY <1>2, <1>6
  <2> QED
    BY <1>3, <2>1
<1>7. ASSUME NEW i \in 1 .. Len(t)
      PROVE  /\ IsOutput(t[i], j) => t[i].chunk = g[i] /\ g[i] = g[i - 1] + 1
             /\ ~IsOutput(t[i], j) => g[i] = g[i - 1]
             /\ IsResult(t[i], j) => g[i] = w
  <2>1. /\ t[i] = q[i + 1] /\ g[i] = f[i + 1] /\ g[i - 1] = f[i]
        /\ i + 1 \in 1 .. Len(q) /\ (i + 1) - 1 = i
    BY <1>2
  <2> QED
    BY <1>1, <2>1 DEF Counts
<1>8. IsResult(Head(q), j) => a = w
  BY <1>4 DEF IsResult, IsOutput
<1>9. more \in {0, 1} /\ (IsOutput(Head(q), j) => more = 1) /\ (~IsOutput(Head(q), j) => more = 0)
  OBVIOUS
<1> HIDE DEF g, more
<1>10. Counts(g, t, j, a + more, b, w)
  BY <1>5, <1>6, <1>7 DEF Counts
<1> QED
  BY <1>4, <1>8, <1>9, <1>10 DEF Run

\* What is cut off the end takes pieces with it.
LEMMA RunCut ==
    ASSUME NEW S, NEW q \in Seq(S), NEW j, NEW a, NEW b, NEW w, Run(q, j, a, b, w),
           NEW n \in 0 .. Len(q)
    PROVE  \E c \in Nat : c <= b /\ Run(SubSeq(q, 1, n), j, a, c, w)
<1>1. PICK f : Counts(f, q, j, a, b, w)
  BY DEF Run
<1> DEFINE s == SubSeq(q, 1, n)
           g == [i \in 0 .. n |-> f[i]]
<1>2. n \in Nat /\ Len(q) \in Nat /\ Len(s) = n /\ \A i \in 1 .. n : s[i] = q[i]
  BY SubSeqProperties, ElementOfSeq
<1>3. /\ f \in [0 .. Len(q) -> Nat] /\ f[0] = a /\ f[Len(q)] = b
      /\ \A i, k \in 0 .. Len(q) : i <= k => f[i] <= f[k]
  BY <1>1 DEF Counts
<1>4. g \in [0 .. n -> Nat] /\ g[0] = a /\ g[n] = f[n] /\ f[n] \in Nat /\ f[n] <= b
  BY <1>2, <1>3
<1>5. \A i, k \in 0 .. n : i <= k => g[i] <= g[k]
  BY <1>2, <1>3
<1>6. ASSUME NEW i \in 1 .. n
      PROVE  /\ IsOutput(s[i], j) => s[i].chunk = g[i] /\ g[i] = g[i - 1] + 1
             /\ ~IsOutput(s[i], j) => g[i] = g[i - 1]
             /\ IsResult(s[i], j) => g[i] = w
  <2>1. s[i] = q[i] /\ g[i] = f[i] /\ g[i - 1] = f[i - 1] /\ i \in 1 .. Len(q)
    BY <1>2
  <2> QED
    BY <1>1, <2>1 DEF Counts
<1> HIDE DEF g
<1>7. Counts(g, s, j, a, f[n], w)
  BY <1>2, <1>4, <1>5, <1>6 DEF Counts
<1> QED
  BY <1>4, <1>7 DEF Run

\* Without a result in it, when a result comes does not matter.
LEMMA RunUntil ==
    ASSUME NEW q, NEW j, NEW a, NEW b, NEW v, NEW w, Run(q, j, a, b, v),
           \A i \in 1 .. Len(q) : ~IsResult(q[i], j)
    PROVE  Run(q, j, a, b, w)
<1>1. PICK f : Counts(f, q, j, a, b, v)
  BY DEF Run
<1>2. Counts(f, q, j, a, b, w)
  BY <1>1 DEF Counts
<1> QED
  BY <1>2 DEF Run

\* A message of no importance to j put between two parts of the queue.
LEMMA RunInsert ==
    ASSUME NEW S, NEW u \in Seq(S), NEW o \in Seq(S), NEW j, NEW a, NEW b, NEW w,
           Run(u \o o, j, a, b, w), NEW m \in S, Quiet(m, j)
    PROVE  Run(Append(u, m) \o o, j, a, b, w)
<1>1. PICK f : Counts(f, u \o o, j, a, b, w)
  BY DEF Run
<1> DEFINE q == u \o o
           p == Append(u, m) \o o
           g == [i \in 0 .. Len(q) + 1 |-> IF i <= Len(u) THEN f[i] ELSE f[i - 1]]
<1>2. /\ Len(q) = Len(u) + Len(o) /\ Len(u) \in Nat /\ Len(o) \in Nat
      /\ \A i \in 1 .. Len(u) + Len(o) : q[i] = IF i <= Len(u) THEN u[i] ELSE o[i - Len(u)]
  BY ConcatProperties
<1>3. /\ Append(u, m) \in Seq(S) /\ Len(Append(u, m)) = Len(u) + 1
      /\ Append(u, m)[Len(u) + 1] = m /\ \A i \in 1 .. Len(u) : Append(u, m)[i] = u[i]
  BY AppendProperties
<1>4. /\ Len(p) = Len(u) + 1 + Len(o)
      /\ \A i \in 1 .. Len(u) + 1 + Len(o) :
            p[i] = IF i <= Len(u) + 1 THEN Append(u, m)[i] ELSE o[i - (Len(u) + 1)]
  BY <1>3, ConcatProperties
<1>5. ASSUME NEW i \in 1 .. Len(p)
      PROVE  /\ i <= Len(u) => p[i] = q[i] /\ i \in 1 .. Len(q)
             /\ i = Len(u) + 1 => p[i] = m
             /\ i > Len(u) + 1 => p[i] = q[i - 1] /\ i - 1 \in 1 .. Len(q)
  <2>1. CASE i <= Len(u)
    BY <1>2, <1>3, <1>4, <2>1
  <2>2. CASE i = Len(u) + 1
    BY <1>2, <1>3, <1>4, <2>2
  <2>3. CASE i > Len(u) + 1
    <3>1. i - 1 \in 1 .. Len(u) + Len(o) /\ ~(i - 1 <= Len(u)) /\ (i - 1) - Len(u) = i - (Len(u) + 1)
      BY <1>2, <1>4, <2>3
    <3> QED
      BY <1>2, <1>4, <2>3, <3>1
  <2> QED
    BY <1>2, <1>4, <2>1, <2>2, <2>3
<1> HIDE DEF q, p
<1>6. /\ f \in [0 .. Len(q) -> Nat] /\ f[0] = a /\ f[Len(q)] = b
      /\ \A i, k \in 0 .. Len(q) : i <= k => f[i] <= f[k]
  BY <1>1 DEF Counts, q
<1>7. g \in [0 .. Len(p) -> Nat] /\ g[0] = a /\ g[Len(p)] = b
  BY <1>2, <1>4, <1>6
<1>8. ASSUME NEW i \in 0 .. Len(p), NEW k \in 0 .. Len(p), i <= k
      PROVE  g[i] <= g[k]
  <2> DEFINE x == IF i <= Len(u) THEN i ELSE i - 1
             y == IF k <= Len(u) THEN k ELSE k - 1
  <2>1. x \in 0 .. Len(q) /\ y \in 0 .. Len(q) /\ x <= y
    BY <1>2, <1>4, <1>8
  <2>2. g[i] = f[x] /\ g[k] = f[y]
    BY <1>2, <1>4
  <2> QED
    BY <1>6, <2>1, <2>2
<1>9. ASSUME NEW i \in 1 .. Len(p)
      PROVE  /\ IsOutput(p[i], j) => p[i].chunk = g[i] /\ g[i] = g[i - 1] + 1
             /\ ~IsOutput(p[i], j) => g[i] = g[i - 1]
             /\ IsResult(p[i], j) => g[i] = w
  <2>1. CASE i <= Len(u)
    <3>1. p[i] = q[i] /\ i \in 1 .. Len(q)
      BY <1>5, <2>1
    <3>2. i - 1 <= Len(u) /\ i \in 0 .. Len(q) + 1 /\ i - 1 \in 0 .. Len(q) + 1
      BY <1>2, <2>1, <3>1
    <3>3. g[i] = f[i] /\ g[i - 1] = f[i - 1]
      BY <2>1, <3>2
    <3> QED
      BY <1>1, <3>1, <3>3 DEF Counts, q
  <2>2. CASE i = Len(u) + 1
    <3>1. p[i] = m /\ g[i] = f[i - 1] /\ g[i - 1] = f[i - 1]
      BY <1>2, <1>4, <1>5, <2>2
    <3> QED
      BY <3>1 DEF Quiet
  <2>3. CASE i > Len(u) + 1
    <3>1. p[i] = q[i - 1] /\ g[i] = f[i - 1] /\ g[i - 1] = f[(i - 1) - 1] /\ i - 1 \in 1 .. Len(q)
      BY <1>2, <1>4, <1>5, <2>3
    <3> QED
      BY <1>1, <3>1 DEF Counts, q
  <2> QED
    BY <1>2, <1>4, <2>1, <2>2, <2>3
<1> HIDE DEF g
<1>10. Counts(g, p, j, a, b, w)
  BY <1>7, <1>8, <1>9 DEF Counts
<1> QED
  BY <1>10 DEF Run, p

LEMMA AppendRight ==
    ASSUME NEW S, NEW u \in Seq(S), NEW o \in Seq(S), NEW m \in S
    PROVE  u \o Append(o, m) = Append(u \o o, m)
<1>1. <<m>> \in Seq(S) /\ u \o o \in Seq(S)
  BY ConcatProperties
<1>2. Append(o, m) = o \o <<m>>
  BY AppendIsConcat
<1>3. Append(u \o o, m) = (u \o o) \o <<m>>
  BY <1>1, AppendIsConcat
<1>4. (u \o o) \o <<m>> = u \o (o \o <<m>>)
  BY <1>1, ConcatAssociative
<1> QED
  BY <1>2, <1>3, <1>4

\* What the queue of two parts is, as either of them changes.
LEMMA TwoParts ==
    ASSUME NEW S, NEW u \in Seq(S), NEW o \in Seq(S)
    PROVE  /\ u \o o \in Seq(S)
           /\ SubSeq(u \o o, 1, Len(u)) = u /\ Len(u) \in 0 .. Len(u \o o)
           /\ \A n \in 0 .. Len(u) : /\ SubSeq(u \o o, 1, n) = SubSeq(u, 1, n)
                                     /\ n \in 0 .. Len(u \o o)
           /\ o # <<>> => Append(u, Head(o)) \o Tail(o) = u \o o
           /\ u # <<>> => /\ Tail(u) \o o = Tail(u \o o) /\ Head(u) = Head(u \o o)
                         /\ u \o o # <<>>
<1>1. /\ u \o o \in Seq(S) /\ Len(u \o o) = Len(u) + Len(o)
      /\ Len(u) \in Nat /\ Len(o) \in Nat
      /\ \A i \in 1 .. Len(u) + Len(o) : (u \o o)[i] = IF i <= Len(u) THEN u[i] ELSE o[i - Len(u)]
  BY ConcatProperties
<1>2. ASSUME NEW n \in 0 .. Len(u)
      PROVE  SubSeq(u \o o, 1, n) = SubSeq(u, 1, n) /\ n \in 0 .. Len(u \o o)
  <2>1. \A i \in 1 .. n : (u \o o)[i] = u[i] /\ u[i] \in S
    BY <1>1, ElementOfSeq
  <2>2. /\ SubSeq(u \o o, 1, n) \in Seq(S) /\ Len(SubSeq(u \o o, 1, n)) = n
        /\ \A i \in 1 .. n : SubSeq(u \o o, 1, n)[i] = (u \o o)[i]
    BY <1>1, <2>1, SubSeqProperties
  <2>3. /\ SubSeq(u, 1, n) \in Seq(S) /\ Len(SubSeq(u, 1, n)) = n
        /\ \A i \in 1 .. n : SubSeq(u, 1, n)[i] = u[i]
    BY <1>1, <2>1, SubSeqProperties
  <2>4. SubSeq(u \o o, 1, n) = SubSeq(u, 1, n)
    BY <2>1, <2>2, <2>3, SeqEqual
  <2> QED
    BY <1>1, <2>4
<1>3. SubSeq(u \o o, 1, Len(u)) = u /\ Len(u) \in 0 .. Len(u \o o)
  BY <1>1, <1>2, SubSeqFull
<1>5. ASSUME o # <<>>
      PROVE  Append(u, Head(o)) \o Tail(o) = u \o o
  <2>1. Head(o) \in S /\ Tail(o) \in Seq(S) /\ <<Head(o)>> \in Seq(S)
    BY <1>5, HeadTailProperties
  <2>2. o = <<Head(o)>> \o Tail(o)
    BY <1>5, <2>1
  <2>3. Append(u, Head(o)) = u \o <<Head(o)>>
    BY <2>1, AppendIsConcat
  <2> QED
    BY <2>1, <2>2, <2>3, ConcatAssociative
<1>6. ASSUME u # <<>>
      PROVE  Tail(u) \o o = Tail(u \o o) /\ Head(u) = Head(u \o o) /\ u \o o # <<>>
  <2>1. /\ Head(u) \in S /\ Tail(u) \in Seq(S) /\ Len(Tail(u)) = Len(u) - 1 /\ Len(u) >= 1
        /\ \A i \in 1 .. Len(Tail(u)) : Tail(u)[i] = u[i + 1]
    BY <1>1, <1>6, HeadTailProperties, EmptySeq
  <2>2. u \o o # <<>>
    BY <1>1, <2>1
  <2>3. Head(u) = Head(u \o o)
    BY <1>1, <2>1, <2>2
  <2>4. /\ Tail(u \o o) \in Seq(S) /\ Len(Tail(u \o o)) = Len(u) + Len(o) - 1
        /\ \A i \in 1 .. Len(Tail(u \o o)) : Tail(u \o o)[i] = (u \o o)[i + 1]
    BY <1>1, <2>2, HeadTailProperties
  <2>5. /\ Tail(u) \o o \in Seq(S) /\ Len(Tail(u) \o o) = Len(u) - 1 + Len(o)
        /\ \A i \in 1 .. Len(u) - 1 + Len(o) :
              (Tail(u) \o o)[i] = IF i <= Len(u) - 1 THEN Tail(u)[i] ELSE o[i - (Len(u) - 1)]
    BY <2>1, ConcatProperties
  <2>6. ASSUME NEW i \in 1 .. Len(u) + Len(o) - 1
        PROVE  (Tail(u) \o o)[i] = Tail(u \o o)[i]
    <3>1. i + 1 \in 1 .. Len(u) + Len(o) /\ (i + 1) - Len(u) = i - (Len(u) - 1)
      BY <1>1, <2>1
    <3>2. Tail(u \o o)[i] = IF i + 1 <= Len(u) THEN u[i + 1] ELSE o[(i + 1) - Len(u)]
      BY <1>1, <2>4, <3>1
    <3>3. CASE i <= Len(u) - 1
      BY <1>1, <2>1, <2>5, <3>1, <3>2, <3>3
    <3>4. CASE ~(i <= Len(u) - 1)
      BY <1>1, <2>1, <2>5, <3>1, <3>2, <3>4
    <3> QED
      BY <3>3, <3>4
  <2>7. Tail(u) \o o = Tail(u \o o)
    BY <1>1, <2>4, <2>5, <2>6, SeqEqual
  <2> QED
    BY <2>2, <2>3, <2>7
<1> QED
  BY <1>1, <1>2, <1>3, <1>5, <1>6

-----------------------------------------------------------------------------
(* The way from the goroutine to the loop. *)

\* What a step never does to a job that has begun: move it to another
\* connection, take back a piece, or change it after its end.
Onward ==
    \A j \in Begun :
        /\ at'[j] # "idle" /\ over'[j] = over[j] /\ wrote'[j] \in Nat /\ wrote[j] <= wrote'[j]
        /\ at[j] \in {"rescan", "end"} =>
              at'[j] \in {"rescan", "end"} /\ result'[j] = result[j] /\ wrote'[j] = wrote[j]

LEMMA SameJobs == AgentInv /\ UNCHANGED jobVars => Onward /\ Begun' = Begun
BY AgentAssumption DEF AgentInv, AgentPlaces, jobVars, Onward, Begun

\* What has been said stays true.
LEMMA FromOnward ==
    ASSUME Onward, NEW d
    PROVE  From(d) \subseteq From(d)' /\ Begun \subseteq Begun'
<1>1. Begun \subseteq Begun'
  BY DEF Onward, Begun
<1>2. Reports(Begun) \subseteq Reports(Begun') /\ Reports(Begun)' = Reports(Begun')
  BY <1>1, KnowMore DEF Reports
<1>3. ASSUME NEW m \in From(d)
      PROVE  m \in From(d)'
  <2>1. /\ m \in Reports(Begun)' /\ m \in Reports(Begun)
        /\ m.type \in JobReport => over[m.job] = d
        /\ m.type = "job_result" => at[m.job] \in {"rescan", "end"} /\ m.status = result[m.job]
    BY <1>2 DEF From
  <2>2. m.type \in JobReport => m.job \in Begun
    BY <2>1 DEF Reports
  <2>3. m.type = "job_result" => m.type \in JobReport
    BY DEF JobReport
  <2> QED
    BY <2>1, <2>2, <2>3 DEF From, Onward
<1> QED
  BY <1>1, <1>3

\* The queue of a job that has begun, and what is in it.
LEMMA PipeTyped ==
    ASSUME AgentInv, WayInv, NEW j \in Begun
    PROVE  /\ j \in Job /\ over[j] \in Conn /\ Pipe(j) \in Seq(From(over[j]))
           /\ wrote[j] \in 0 .. MaxChunk /\ wrote[j] \in Nat
<1>1. j \in Job /\ over[j] \in Conn /\ wrote[j] \in 0 .. MaxChunk
  <2>1. j \in Job /\ over[j] \in 1 .. conn
    BY DEF Begun, WayInv
  <2>2. conn \in 0 .. MaxConn /\ wrote \in [Job -> 0 .. MaxChunk]
    BY DEF AgentInv, AgentPlaces
  <2> QED
    BY <2>1, <2>2, AgentAssumption DEF Conn
<1>2. over[j] = conn => up[conn] \o outbox \in Seq(From(over[j]))
  <2> SUFFICES ASSUME over[j] = conn PROVE up[conn] \o outbox \in Seq(From(conn))
    OBVIOUS
  <2>1. up[conn] \in Seq(From(conn)) /\ outbox \in Seq(From(conn))
    BY <1>1 DEF WayInv
  <2> QED
    BY <2>1, ConcatProperties
<1>3. up[over[j]] \in Seq(From(over[j]))
  BY <1>1 DEF WayInv
<1>4. wrote[j] \in Nat
  BY <1>1, AgentAssumption
<1> QED
  BY <1>1, <1>2, <1>3, <1>4 DEF Pipe

\* Unless j has reported its end there is no result of it under way.
LEMMA NoResultYet ==
    ASSUME NEW j, NEW d, NEW q \in Seq(From(d)), at[j] \notin {"rescan", "end"}
    PROVE  \A i \in 1 .. Len(q) : ~IsResult(q[i], j)
<1>1. \A i \in 1 .. Len(q) : q[i] \in From(d)
  BY ElementOfSeq
<1> QED
  BY <1>1 DEF From, IsResult

\* Does the connection that j came over still stand?
Stands(j) == intact /\ over[j] = conn

LEMMA FlowsSame ==
    ASSUME NEW j, Pipe(j)' = Pipe(j), wrote'[j] = wrote[j], Stands(j)' => Stands(j),
           NEW m, Flows(j, m)
    PROVE  Flows(j, m)'
<1>1. PICK n \in Nat : /\ n <= wrote[j] /\ (intact /\ over[j] = conn => n = wrote[j])
                       /\ Run(Pipe(j), j, m, n, wrote[j])
  BY DEF Flows
<1>2. Run(Pipe(j)', j, m, n, wrote'[j])
  BY <1>1
<1>3. n <= wrote'[j] /\ (intact' /\ over'[j] = conn' => n = wrote'[j])
  BY <1>1 DEF Stands
<1> QED
  BY <1>2, <1>3 DEF Flows, Run, Counts, IsOutput, IsResult

\* A connection that does not stand: what was under way may be cut.
LEMMA FlowsCut ==
    ASSUME AgentInv, WayInv, NEW j \in Begun, Onward, ~Stands(j)',
           NEW n \in 0 .. Len(Pipe(j)), Pipe(j)' = SubSeq(Pipe(j), 1, n),
           NEW m, Flows(j, m)
    PROVE  Flows(j, m)'
<1>1. PICK b \in Nat : b <= wrote[j] /\ Run(Pipe(j), j, m, b, wrote[j])
  BY DEF Flows
<1>2. PICK c \in Nat : c <= b /\ Run(SubSeq(Pipe(j), 1, n), j, m, c, wrote[j])
  BY <1>1, PipeTyped, RunCut
<1>3. Run(SubSeq(Pipe(j), 1, n), j, m, c, wrote'[j])
  <2>1. CASE wrote'[j] = wrote[j]
    BY <1>2, <2>1
  <2>2. CASE wrote'[j] # wrote[j]
    <3>1. at[j] \notin {"rescan", "end"}
      BY <2>2 DEF Onward
    <3>2. Pipe(j) \in Seq(From(over[j]))
      BY PipeTyped
    <3>3. SubSeq(Pipe(j), 1, n) \in Seq(From(over[j]))
      BY <3>2, SeqParts
    <3> QED
      BY <1>2, <3>1, <3>3, NoResultYet, RunUntil
  <2> QED
    BY <2>1, <2>2
<1>4. c <= wrote'[j]
  BY <1>1, <1>2, PipeTyped DEF Onward
<1>5. Run(Pipe(j), j, m, c, wrote[j])' <=> Run(Pipe(j)', j, m, c, wrote'[j])
  BY DEF Run, Counts, IsOutput, IsResult
<1> QED
  BY <1>2, <1>3, <1>4, <1>5 DEF Flows, Stands

\* One more report at the end of what is under way.
LEMMA FlowsOn ==
    ASSUME AgentInv, WayInv, NEW j \in Begun, Onward, Stands(j),
           NEW r, NEW more \in {0, 1},
           Pipe(j)' = Append(Pipe(j), r), wrote'[j] = wrote[j] + more,
           IsOutput(r, j) => more = 1 /\ r.chunk = wrote[j] + 1,
           ~IsOutput(r, j) => more = 0,
           NEW m, Flows(j, m)
    PROVE  Flows(j, m)'
<1>1. Run(Pipe(j), j, m, wrote[j], wrote[j]) /\ wrote[j] \in Nat /\ Pipe(j) \in Seq(From(over[j]))
  BY PipeTyped DEF Flows, Stands
<1>2. Run(Pipe(j), j, m, wrote[j], wrote'[j])
  <2>1. CASE wrote'[j] = wrote[j]
    BY <1>1, <2>1
  <2>2. CASE wrote'[j] # wrote[j]
    <3>1. at[j] \notin {"rescan", "end"}
      BY <2>2 DEF Onward
    <3> QED
      BY <1>1, <3>1, NoResultYet, RunUntil
  <2> QED
    BY <2>1, <2>2
<1>3. IsResult(r, j) => more = 0
  BY DEF IsResult, IsOutput
<1>4. Run(Append(Pipe(j), r), j, m, wrote[j] + more, wrote'[j])
  <2> DEFINE S == From(over[j]) \cup {r}
  <2>1. Pipe(j) \in Seq(S)
    BY <1>1, SeqWider
  <2>2. IsResult(r, j) => wrote[j] = wrote'[j]
    BY <1>1, <1>3
  <2>3. r \in S
    OBVIOUS
  <2> HIDE DEF S
  <2> QED
    BY <1>1, <1>2, <2>1, <2>2, <2>3, RunAppend
<1>5. Run(Pipe(j), j, m, wrote[j], wrote[j])' <=> Run(Pipe(j)', j, m, wrote'[j], wrote'[j])
  BY DEF Run, Counts, IsOutput, IsResult
<1>6. wrote'[j] \in Nat
  BY DEF Onward
<1> QED
  BY <1>4, <1>5, <1>6 DEF Flows

\* What a step of the agent does to what is under way.
FlowsKept == \A j \in Begun : \A m \in Nat : Flows(j, m) => Flows(j, m)'

\* A job that begins has nothing under way.
FlowsBegin == \A j \in Begun' \ Begun : wrote'[j] = 0 /\ Flows(j, 0)'

Passed == Onward /\ WayInv' /\ FrameInv' /\ EndInv' /\ FlowsKept /\ FlowsBegin

-----------------------------------------------------------------------------
(* The steps of the agent's loop and reader. *)

\* Whatever is not a report about a job may come over any connection.
LEMMA NotAReport ==
    ASSUME NEW d, NEW j
    PROVE  /\ Logs \in From(d) /\ Quiet(Logs, j)
           /\ PatchReport \in Reports(Begun) => PatchReport \in From(d) /\ Quiet(PatchReport, j)
<1>1. Logs \in Reports(Begun)
  BY LogsSay
<1> QED
  BY <1>1 DEF From, Logs, PatchReport, Message, JobReport, Quiet, IsOutput, IsResult

\* A connection that goes: what is in the outbox is lost with it.
LEMMA OutboxLost ==
    ASSUME AgentInv, WayInv, Onward, ~intact', conn' = conn, UNCHANGED wrote,
           NEW j \in Begun,
           over[j] = conn => \E sent \in 0 .. Len(up[conn]) : up'[conn] = SubSeq(up[conn], 1, sent),
           over[j] # conn => up'[over[j]] = up[over[j]],
           NEW m, Flows(j, m)
    PROVE  Flows(j, m)'
<1>1. over'[j] = over[j] /\ over[j] \in Conn /\ ~Stands(j)' /\ Pipe(j)' = up'[over[j]]
  BY PipeTyped DEF Onward, Stands, Pipe
<1>2. up[over[j]] \in Seq(From(over[j])) /\ Pipe(j) \in Seq(From(over[j]))
  BY <1>1, PipeTyped DEF WayInv
<1>3. CASE over[j] = conn
  <2>1. PICK sent \in 0 .. Len(up[conn]) : up'[conn] = SubSeq(up[conn], 1, sent)
    BY <1>3
  <2>2. CASE intact
    <3>1. outbox \in Seq(From(over[j])) /\ Pipe(j) = up[over[j]] \o outbox
      BY <1>3, <2>2 DEF WayInv, Pipe
    <3>2. SubSeq(Pipe(j), 1, sent) = SubSeq(up[over[j]], 1, sent) /\ sent \in 0 .. Len(Pipe(j))
      BY <1>2, <1>3, <3>1, TwoParts
    <3> QED
      BY <1>1, <1>3, <2>1, <3>2, FlowsCut
  <2>3. CASE ~intact
    BY <1>1, <1>3, <2>1, <2>3, FlowsCut DEF Pipe
  <2> QED
    BY <2>2, <2>3
<1>4. CASE over[j] # conn
  <2>1. Pipe(j)' = Pipe(j)
    BY <1>1, <1>4 DEF Pipe
  <2> QED
    BY <1>1, <1>4, <2>1, FlowsSame
<1> QED
  BY <1>3, <1>4

\* Everything said is cut no further than to its beginning.
LEMMA WhollySent ==
    ASSUME AgentInv, conn \in Conn
    PROVE  \E sent \in 0 .. Len(up[conn]) : up[conn] = SubSeq(up[conn], 1, sent)
<1>1. up[conn] \in Seq(Reports(Begun))
  BY DEF AgentInv
<1>2. up[conn] = SubSeq(up[conn], 1, Len(up[conn])) /\ Len(up[conn]) \in 0 .. Len(up[conn])
  BY <1>1, SubSeqFull, LenProperties
<1> QED
  BY <1>2

LEMMA FromJobs ==
    ASSUME NEW d, UNCHANGED jobVars
    PROVE  From(d)' = From(d)
BY DEF From, Reports, Begun, jobVars

\* serve returns, or the process of the agent ends, or the socket breaks.
LEMMA LinkGone ==
    ASSUME AgentInv, WayInv, EndInv, Onward, FrameInv',
           ~intact', conn' = conn, UNCHANGED <<wrote, loop>>, Begun' = Begun, serve # "away",
           NEW sent \in 0 .. Len(up[conn]), up' = [up EXCEPT ![conn] = SubSeq(up[conn], 1, sent)],
           outbox' \in {<<>>, outbox}
    PROVE  Passed
<1>1. conn \in Conn /\ up \in [Conn -> Seq(Reports(Begun))]
  BY DEF AgentInv, AgentPlaces, Conn
<1>2. FlowsKept
  <2>1. up'[conn] = SubSeq(up[conn], 1, sent) /\ \A d \in Conn \ {conn} : up'[d] = up[d]
    BY <1>1
  <2>2. \A j \in Begun : over[j] \in Conn
    BY PipeTyped
  <2> QED
    BY <2>1, <2>2, OutboxLost DEF FlowsKept
<1>3. WayInv'
  <2>1. ASSUME NEW d \in Conn
        PROVE  up'[d] \in Seq(From(d)')
    <3>1. up[d] \in Seq(From(d))
      BY DEF WayInv
    <3>2. up'[d] \in Seq(From(d))
      <4>1. CASE d = conn
        BY <1>1, <3>1, <4>1, SeqParts
      <4>2. CASE d # conn
        BY <1>1, <3>1, <4>2
      <4> QED
        BY <4>1, <4>2
    <3> QED
      BY <3>2, FromOnward, SeqWider
  <2>2. outbox' \in Seq(From(conn)')
    BY FromOnward, SeqWider, EmptyWire DEF WayInv
  <2>3. \A j \in Begun' : over'[j] \in 1 .. conn'
    BY DEF WayInv, Onward
  <2>4. \A j \in Job \ Begun' : wrote'[j] = 0
    BY DEF WayInv
  <2>5. \A d : From(d)' = From(d)'
    OBVIOUS
  <2> QED
    BY <2>1, <2>2, <2>3, <2>4 DEF WayInv
<1>4. EndInv'
  <2>1. ASSUME NEW c \in Conn, loop'[c] = "closed"
        PROVE  up'[c] = <<>>
    <3>0. loop[c] = "closed"
      BY <2>1
    <3>1. up[c] = <<>>
      BY <3>0 DEF EndInv
    <3>2. Len(up[c]) = 0
      BY <3>1
    <3>3. c = conn => sent = 0
      BY <3>2
    <3>4. SubSeq(<<>>, 1, 0) = <<>>
      OBVIOUS
    <3> QED
      BY <1>1, <3>1, <3>3, <3>4
  <2>2. ASSUME NEW c \in Conn, c <= conn'
        PROVE  loop'[c] # "none"
    BY <2>2 DEF EndInv
  <2> QED
    BY <2>1, <2>2 DEF EndInv
<1> QED
  BY <1>2, <1>3, <1>4 DEF Passed, FlowsBegin

\* The steps in which the connection goes.
LEMMA BreakPasses ==
    ASSUME AgentInv, WayInv, EndInv, FrameInv, Break, UNCHANGED loop
    PROVE  Passed
<1>1. Onward /\ Begun' = Begun
  BY SameJobs DEF Break
<1>2. FrameInv'
  <2>1. PICK got \in 0 .. Len(down) : down' = SubSeq(down, 1, got)
    BY DEF Break
  <2>2. down \in Seq(Commands(Sent)) /\ Len(down) \in Nat
    BY DEF AgentInv
  <2>3. Len(down') = got /\ \A i \in 1 .. got : down'[i] = down[i] /\ i \in 1 .. Len(down)
    BY <2>1, <2>2, ElementOfSeq, SubSeqProperties
  <2>4. UNCHANGED <<at, frame>>
    BY DEF Break, jobVars
  <2> QED
    BY <2>3, <2>4 DEF FrameInv
<1>3. PICK sent \in 0 .. Len(up[conn]) : up' = [up EXCEPT ![conn] = SubSeq(up[conn], 1, sent)]
  BY DEF Break
<1>4. /\ ~intact' /\ conn' = conn /\ UNCHANGED <<wrote, loop>> /\ serve # "away"
      /\ outbox' \in {<<>>, outbox}
  BY DEF Break, jobVars
<1> QED
  BY <1>1, <1>2, <1>3, <1>4, LinkGone

LEMMA DeathPasses ==
    ASSUME AgentInv, WayInv, EndInv, FrameInv, AgentDies, UNCHANGED loop
    PROVE  Passed
<1>1. Onward
  <2>1. ASSUME NEW j \in Begun
        PROVE  j \in Job /\ at[j] # "idle" /\ wrote[j] \in Nat /\ at'[j] = "end"
    BY AgentAssumption DEF Begun, AgentDies, AgentInv, AgentPlaces
  <2> QED
    BY <2>1 DEF Onward, AgentDies
<1>2. Begun' = Begun
  BY DEF Begun, AgentDies, AgentInv, AgentPlaces
<1>3. FrameInv'
  <2>1. down' = <<>> /\ frame'.type # "job"
    BY DEF AgentDies, NoFrame, Command
  <2> QED
    BY <2>1 DEF FrameInv
<1>4. PICK sent \in 0 .. Len(up[conn]) : up' = [up EXCEPT ![conn] = SubSeq(up[conn], 1, sent)]
  BY DEF AgentDies
<1>5. /\ ~intact' /\ conn' = conn /\ UNCHANGED <<wrote, loop>> /\ serve # "away"
      /\ outbox' \in {<<>>, outbox}
  BY DEF AgentDies
<1> QED
  BY <1>1, <1>2, <1>3, <1>4, <1>5, LinkGone

LEMMA LeavePasses ==
    ASSUME AgentInv, WayInv, EndInv, FrameInv, serve # "away", LeaveServe, UNCHANGED <<up, jobVars, loop>>
    PROVE  Passed
<1>1. Onward /\ Begun' = Begun
  BY SameJobs
<1>2. FrameInv'
  BY DEF FrameInv, LeaveServe, jobVars
<1>3. conn \in Conn /\ up \in [Conn -> Seq(Reports(Begun))]
  BY DEF AgentInv, AgentPlaces, Conn
<1>4. PICK sent \in 0 .. Len(up[conn]) : up[conn] = SubSeq(up[conn], 1, sent)
  BY <1>3, WhollySent
<1>5. up' = [up EXCEPT ![conn] = SubSeq(up[conn], 1, sent)]
  BY <1>3, <1>4
<1>6. ~intact' /\ conn' = conn /\ UNCHANGED <<wrote, loop>> /\ outbox' \in {<<>>, outbox}
  BY DEF LeaveServe, jobVars
<1> QED
  BY <1>1, <1>2, <1>5, <1>6, LinkGone

\* A step that only says something: who may say what stays as it is.
LEMMA SameWay ==
    ASSUME WayInv, UNCHANGED jobVars, conn' = conn,
           \A d \in Conn : up'[d] \in Seq(From(d)), outbox' \in Seq(From(conn))
    PROVE  WayInv'
<1>1. \A d \in Conn : From(d)' = From(d)
  BY FromJobs
<1>2. \A d \in Conn : up'[d] \in Seq(From(d)')
  BY <1>1
<1>3. outbox' \in Seq(From(conn)')
  BY DEF From, Reports, Begun, jobVars
<1>4. Begun' = Begun
  BY DEF Begun, jobVars
<1> QED
  BY <1>2, <1>3, <1>4 DEF WayInv, jobVars

\* The loop writes: m goes from the outbox, or from the loop, to the wire.
LEMMA WrittenWay ==
    ASSUME AgentInv, WayInv, serve # "away", NEW m \in From(conn), Write(m)
    PROVE  /\ conn \in Conn /\ \A d \in Conn : up'[d] \in Seq(From(d))
           /\ \A d \in Conn : d # conn => up'[d] = up[d]
           /\ up'[conn] = IF intact THEN Append(up[conn], m) ELSE up[conn]
<1>1. conn \in Conn /\ up \in [Conn -> Seq(Reports(Begun))]
  BY DEF AgentInv, AgentPlaces, Conn
<1>2. /\ \A d \in Conn : d # conn => up'[d] = up[d]
      /\ up'[conn] = IF intact THEN Append(up[conn], m) ELSE up[conn]
  BY <1>1 DEF Write
<1>3. ASSUME NEW d \in Conn
      PROVE  up'[d] \in Seq(From(d))
  <2>1. up[d] \in Seq(From(d))
    BY DEF WayInv
  <2>2. d = conn => Append(up[conn], m) \in Seq(From(conn))
    BY <2>1, SeqParts
  <2> QED
    BY <1>2, <2>1, <2>2
<1> QED
  BY <1>1, <1>2, <1>3

\* Writing into a connection that has been closed does not reach it.
LEMMA WriteEnds ==
    ASSUME AgentInv, EndInv, serve # "away", NEW m, Write(m), UNCHANGED <<conn, intact, loop>>
    PROVE  EndInv'
<1>1. conn \in Conn /\ up \in [Conn -> Seq(Reports(Begun))]
  BY DEF AgentInv, AgentPlaces, Conn
<1>2. ASSUME NEW c \in Conn, loop'[c] = "closed"
      PROVE  up'[c] = <<>>
  <2>1. loop[c] = "closed"
    BY <1>2
  <2>2. up[c] = <<>>
    BY <2>1 DEF EndInv
  <2>3. c = conn => ~intact
    BY <2>1 DEF EndInv
  <2> QED
    BY <1>1, <2>2, <2>3 DEF Write
<1>3. ASSUME NEW c \in Conn, loop'[c] = "closed", c = conn'
      PROVE  ~intact'
  BY <1>3 DEF EndInv
<1>4. ASSUME NEW c \in Conn, c <= conn'
      PROVE  loop'[c] # "none"
  BY <1>4 DEF EndInv
<1>5. serve' = "select"
  BY DEF Write
<1> QED
  BY <1>2, <1>3, <1>4, <1>5 DEF EndInv

LEMMA ServeOutboxPasses ==
    ASSUME AgentInv, WayInv, EndInv, FrameInv, ServeOutbox, UNCHANGED loop
    PROVE  Passed
<1> DEFINE m == Head(outbox)
<1>1. /\ serve # "away" /\ outbox # <<>> /\ Write(m) /\ outbox' = Tail(outbox)
      /\ UNCHANGED <<linkVars, jobVars>>
  BY DEF ServeOutbox
<1>2. m \in From(conn) /\ outbox' \in Seq(From(conn))
  BY <1>1, SeqParts DEF WayInv
<1>3. /\ conn \in Conn /\ \A d \in Conn : up'[d] \in Seq(From(d))
      /\ \A d \in Conn : d # conn => up'[d] = up[d]
      /\ up'[conn] = IF intact THEN Append(up[conn], m) ELSE up[conn]
  BY <1>1, <1>2, WrittenWay
<1>4. Onward /\ Begun' = Begun /\ WayInv' /\ EndInv'
  BY <1>1, <1>2, <1>3, SameJobs, SameWay, WriteEnds DEF linkVars
<1>5. FrameInv'
  BY <1>1 DEF FrameInv, linkVars, jobVars
<1>6. ASSUME NEW j \in Begun, NEW k \in Nat, Flows(j, k)
      PROVE  Flows(j, k)'
  <2>1. over[j] \in Conn
    BY PipeTyped
  <2>2. Pipe(j)' = Pipe(j)
    <3>1. CASE intact /\ over[j] = conn
      <4>1. up[conn] \in Seq(From(conn)) /\ outbox \in Seq(From(conn))
        BY <1>3 DEF WayInv
      <4>2. Append(up[conn], m) \o Tail(outbox) = up[conn] \o outbox
        BY <1>1, <4>1, TwoParts
      <4> QED
        BY <1>1, <1>3, <3>1, <4>2 DEF Pipe, linkVars, jobVars
    <3>2. CASE ~(intact /\ over[j] = conn)
      BY <1>1, <1>3, <2>1, <3>2 DEF Pipe, linkVars, jobVars
    <3> QED
      BY <3>1, <3>2
  <2>3. wrote'[j] = wrote[j] /\ (Stands(j)' => Stands(j))
    BY <1>1 DEF Stands, linkVars, jobVars
  <2> QED
    BY <1>6, <2>2, <2>3, FlowsSame
<1> QED
  BY <1>4, <1>5, <1>6 DEF Passed, FlowsKept, FlowsBegin

LEMMA ReplyPasses ==
    ASSUME AgentInv, WayInv, EndInv, FrameInv, Reply, UNCHANGED loop
    PROVE  Passed
<1>1. CASE Write(Logs) /\ UNCHANGED <<linkVars, outbox, jobVars>>
  <2>1. serve # "away" /\ Logs \in From(conn)
    BY NotAReport DEF Reply
  <2>3. /\ conn \in Conn /\ \A d \in Conn : up'[d] \in Seq(From(d))
        /\ \A d \in Conn : d # conn => up'[d] = up[d]
        /\ up'[conn] = IF intact THEN Append(up[conn], Logs) ELSE up[conn]
    BY <1>1, <2>1, WrittenWay
  <2>4. Onward /\ Begun' = Begun /\ WayInv' /\ EndInv'
    <3>1. outbox' \in Seq(From(conn)) /\ UNCHANGED <<conn, intact>>
      BY <1>1 DEF WayInv, linkVars
    <3> QED
      BY <1>1, <2>1, <2>3, <3>1, SameJobs, SameWay, WriteEnds
  <2>5. FrameInv'
    BY <1>1 DEF FrameInv, linkVars, jobVars
  <2>6. ASSUME NEW j \in Begun, NEW k \in Nat, Flows(j, k)
        PROVE  Flows(j, k)'
    <3>1. over[j] \in Conn
      BY PipeTyped
    <3>2. wrote'[j] = wrote[j] /\ over'[j] = over[j] /\ UNCHANGED <<conn, intact, outbox>>
      BY <1>1 DEF linkVars, jobVars
    <3>3. CASE intact /\ over[j] = conn
      <4>1. up[conn] \in Seq(From(conn)) /\ outbox \in Seq(From(conn)) /\ Quiet(Logs, j)
        BY <2>3, NotAReport DEF WayInv
      <4>2. Run(up[conn] \o outbox, j, k, wrote[j], wrote[j]) /\ wrote[j] \in Nat
        BY <2>6, <3>3, PipeTyped DEF Flows, Pipe
      <4>3. Run(Append(up[conn], Logs) \o outbox, j, k, wrote[j], wrote[j])
        BY <2>1, <4>1, <4>2, RunInsert
      <4>4. Pipe(j)' = Append(up[conn], Logs) \o outbox
        BY <2>3, <3>2, <3>3 DEF Pipe
      <4>5. Run(Pipe(j), j, k, wrote[j], wrote[j])' <=> Run(Pipe(j)', j, k, wrote'[j], wrote'[j])
        BY DEF Run, Counts, IsOutput, IsResult
      <4> QED
        BY <3>2, <4>2, <4>3, <4>4, <4>5 DEF Flows
    <3>4. CASE ~(intact /\ over[j] = conn)
      <4>1. Pipe(j)' = Pipe(j) /\ (Stands(j)' => Stands(j))
        BY <2>3, <3>1, <3>2, <3>4 DEF Pipe, Stands
      <4> QED
        BY <2>6, <3>2, <4>1, FlowsSame
    <3> QED
      BY <3>3, <3>4
  <2> QED
    BY <2>4, <2>5, <2>6 DEF Passed, FlowsKept, FlowsBegin
<1>2. CASE LeaveServe /\ UNCHANGED <<up, jobVars>>
  BY <1>2, LeavePasses DEF Reply
<1> QED
  BY <1>1, <1>2 DEF Reply

\* A step that says nothing and takes nothing.
LEMMA QuietPasses ==
    ASSUME AgentInv, WayInv, EndInv, FrameInv',
           UNCHANGED <<conn, serve, intact, up, outbox, jobVars, loop>>
    PROVE  Passed
<1>1. Onward /\ Begun' = Begun
  BY SameJobs
<1>2. WayInv'
  BY SameWay DEF WayInv
<1>3. EndInv'
  BY DEF EndInv
<1>4. ASSUME NEW j \in Begun, NEW k \in Nat, Flows(j, k)
      PROVE  Flows(j, k)'
  <2>1. Pipe(j)' = Pipe(j) /\ wrote'[j] = wrote[j] /\ (Stands(j)' => Stands(j))
    BY DEF Pipe, Stands, jobVars
  <2> QED
    BY <1>4, <2>1, FlowsSame
<1> QED
  BY <1>1, <1>2, <1>3, <1>4 DEF Passed, FlowsKept, FlowsBegin

LEMMA ReaderPasses ==
    ASSUME AgentInv, WayInv, EndInv, FrameInv, ReaderStep, UNCHANGED loop
    PROVE  Passed
<1>1. UNCHANGED <<conn, serve, intact, up, outbox, jobVars>>
  BY DEF ReaderStep, ReadFrame, ReadError, ReaderLeaves
<1>2. FrameInv'
  <2>1. CASE ReadFrame
    <3>1. /\ down \in Seq(Commands(Sent)) /\ down # <<>> /\ frame' = Head(down)
          /\ down' = Tail(down) /\ at' = at
      BY <2>1 DEF AgentInv, ReadFrame, jobVars
    <3>2. /\ Len(down') = Len(down) - 1 /\ Len(down) \in Nat /\ Len(down) >= 1 /\ frame' = down[1]
          /\ \A i \in 1 .. Len(down') : down'[i] = down[i + 1]
      BY <3>1, HeadTailProperties, EmptySeq
    <3>3. frame'.type = "job" => at'[frame'.job] = "idle"
      BY <3>1, <3>2 DEF FrameInv
    <3>4. ASSUME NEW i \in 1 .. Len(down'), down'[i].type = "job"
          PROVE  /\ at'[down'[i].job] = "idle" /\ frame' # down'[i]
                 /\ \A k \in 1 .. Len(down') : down'[k] = down'[i] => k = i
      <4>1. i + 1 \in 1 .. Len(down) /\ down'[i] = down[i + 1] /\ 1 \in 1 .. Len(down) /\ i + 1 # 1
        BY <3>2
      <4>2. /\ at[down[i + 1].job] = "idle"
            /\ \A k \in 1 .. Len(down) : down[k] = down[i + 1] => k = i + 1
        BY <3>4, <4>1 DEF FrameInv
      <4>3. ASSUME NEW k \in 1 .. Len(down'), down'[k] = down'[i]
            PROVE  k = i
        <5>0. down'[k] = down[k + 1] /\ k + 1 \in 1 .. Len(down)
          BY <3>2
        <5>1. k + 1 \in 1 .. Len(down) /\ down[k + 1] = down[i + 1]
          BY <4>1, <4>3, <5>0
        <5>2. k + 1 = i + 1
          BY <4>2, <5>1
        <5> QED
          BY <5>2
      <4> QED
        BY <3>1, <3>2, <4>1, <4>2, <4>3
    <3> QED
      BY <3>3, <3>4 DEF FrameInv
  <2>2. CASE \E c \in Conn : ReadError(c) \/ ReaderLeaves(c)
    <3>1. /\ down' = down /\ at' = at /\ (frame' = frame \/ frame'.type # "job")
      BY <2>2 DEF ReadError, ReaderLeaves, jobVars, NoFrame, Command
    <3>2. ASSUME NEW i \in 1 .. Len(down), down[i].type = "job"
          PROVE  frame' # down[i]
      BY <3>1, <3>2 DEF FrameInv
    <3> QED
      BY <3>1, <3>2 DEF FrameInv
  <2> QED
    BY <2>1, <2>2 DEF ReaderStep
<1> QED
  BY <1>1, <1>2, QuietPasses

\* The loop takes a job: its goroutine starts, and nothing of it is under way.
LEMMA JobBegins ==
    ASSUME AgentInv, WayInv, EndInv, FrameInv, ServeFrame, frame.type = "job", UNCHANGED loop
    PROVE  Passed
<1>0. PICK i \in Job : i = frame.job
  BY DEF AgentInv, Commands, Sent
<1>1. /\ frame \in Commands(Sent) /\ i \in Job /\ at[i] = "idle" /\ i \notin Begun /\ wrote[i] = 0
  <2>1. frame \in Commands(Sent)
    BY DEF AgentInv
  <2>3. at[i] = "idle"
    BY <1>0 DEF FrameInv
  <2>4. i \notin Begun
    BY <2>3 DEF Begun
  <2> QED
    BY <2>1, <2>3, <2>4 DEF WayInv
<1>2. /\ serve # "away" /\ at' = [at EXCEPT ![i] = "start"] /\ over' = [over EXCEPT ![i] = conn]
      /\ frame' = NoFrame /\ UNCHANGED <<conn, intact, up, down, outbox, wrote, result, serve>>
  BY <1>0 DEF ServeFrame
<1>3. conn \in Conn /\ conn \in 1 .. conn
  BY <1>2, AgentAssumption DEF AgentInv, AgentPlaces, Conn
<1>4. /\ at'[i] = "start" /\ over'[i] = conn
      /\ \A j \in Job : j # i => at'[j] = at[j] /\ over'[j] = over[j]
  BY <1>1, <1>2 DEF AgentInv, AgentPlaces
<1>5. Begun' = Begun \cup {i}
  BY <1>1, <1>4 DEF Begun
<1>6. Onward
  <2>1. ASSUME NEW j \in Begun
        PROVE  j \in Job /\ j # i /\ at[j] # "idle" /\ wrote[j] \in Nat
    BY <1>1, AgentAssumption DEF Begun, AgentInv, AgentPlaces
  <2> QED
    BY <1>2, <1>4, <2>1 DEF Onward
<1>7. WayInv'
  <2>1. ASSUME NEW d \in Conn
        PROVE  up'[d] \in Seq(From(d)')
    BY <1>2, <1>6, FromOnward, SeqWider DEF WayInv
  <2>2. outbox' \in Seq(From(conn)')
    BY <1>2, <1>6, FromOnward, SeqWider DEF WayInv
  <2>3. ASSUME NEW j \in Begun'
        PROVE  over'[j] \in 1 .. conn'
    BY <1>2, <1>3, <1>4, <1>5, <1>6 DEF WayInv, Onward
  <2>4. \A j \in Job \ Begun' : wrote'[j] = 0
    BY <1>2, <1>5 DEF WayInv
  <2>5. conn' = conn
    BY <1>2
  <2> QED
    BY <2>1, <2>2, <2>3, <2>4, <2>5 DEF WayInv
<1>8. FrameInv'
  <2>1. frame'.type # "job"
    BY <1>2 DEF NoFrame, Command
  <2>2. ASSUME NEW k \in 1 .. Len(down), down[k].type = "job"
        PROVE  /\ at'[down[k].job] = "idle" /\ frame' # down[k]
               /\ \A n \in 1 .. Len(down) : down[n] = down[k] => n = k
    <3>1. /\ at[down[k].job] = "idle" /\ frame # down[k]
          /\ \A n \in 1 .. Len(down) : down[n] = down[k] => n = k
      BY <2>2 DEF FrameInv
    <3>2. down[k] \in Commands(Sent)
      BY ElementOfSeq DEF AgentInv
    <3>3. down[k].job # i
      <4>1. /\ frame = [type |-> frame.type, job |-> frame.job]
            /\ down[k] = [type |-> down[k].type, job |-> down[k].job]
        BY <1>1, <3>2 DEF Commands, ToAgent
      <4> QED
        BY <1>0, <2>2, <3>1, <4>1
    <3>4. down[k].job \in Job
      BY <2>2, <3>2 DEF Commands, Sent
    <3> QED
      BY <1>4, <2>1, <2>2, <3>1, <3>3, <3>4
  <2> QED
    BY <1>2, <2>1, <2>2 DEF FrameInv
<1>9. EndInv'
  BY <1>2 DEF EndInv
<1>10. FlowsKept
  <2>1. ASSUME NEW j \in Begun, NEW m \in Nat, Flows(j, m)
        PROVE  Flows(j, m)'
    <3>1. over'[j] = over[j]
      BY <1>6 DEF Onward
    <3>2. Pipe(j)' = Pipe(j) /\ wrote'[j] = wrote[j] /\ (Stands(j)' => Stands(j))
      BY <1>2, <3>1 DEF Pipe, Stands
    <3> QED
      BY <2>1, <3>2, FlowsSame
  <2> QED
    BY <2>1 DEF FlowsKept
<1>11. FlowsBegin
  <2>1. Pipe(i)' \in Seq(From(conn))
    <3>1. up[conn] \in Seq(From(conn)) /\ outbox \in Seq(From(conn))
      BY <1>3 DEF WayInv
    <3>2. up[conn] \o outbox \in Seq(From(conn))
      BY <3>1, ConcatProperties
    <3>3. Pipe(i)' = IF intact THEN up[conn] \o outbox ELSE up[conn]
      BY <1>2, <1>4 DEF Pipe
    <3> QED
      BY <3>1, <3>2, <3>3
  <2>2. \A m \in From(conn) : Quiet(m, i)
    BY <1>1 DEF From, Reports, JobReport, Quiet, IsOutput, IsResult
  <2>3. \A k \in 1 .. Len(Pipe(i)') : Quiet(Pipe(i)'[k], i)
    BY <2>1, <2>2, ElementOfSeq
  <2>4. Run(Pipe(i)', i, 0, 0, 0)
    BY <2>1, <2>3, RunOfNone
  <2>5. Run(Pipe(i), i, 0, 0, wrote[i])' <=> Run(Pipe(i)', i, 0, 0, wrote'[i])
    BY DEF Run, Counts, IsOutput, IsResult
  <2>6. wrote'[i] = 0
    BY <1>1, <1>2
  <2>7. Flows(i, 0)'
    BY <2>4, <2>5, <2>6 DEF Flows
  <2> QED
    BY <1>5, <2>6, <2>7 DEF FlowsBegin
<1> QED
  BY <1>6, <1>7, <1>8, <1>9, <1>10, <1>11 DEF Passed

LEMMA ServeFramePasses ==
    ASSUME AgentInv, WayInv, EndInv, FrameInv, ServeFrame, UNCHANGED loop
    PROVE  Passed
<1>1. CASE frame.type = "job"
  BY <1>1, JobBegins
<1>2. CASE frame.type # "job"
  <2>1. UNCHANGED <<conn, intact, up, down, outbox, jobVars>> /\ serve # "away" /\ serve' = "reply"
    BY <1>2 DEF ServeFrame, jobVars
  <2>2. Onward /\ Begun' = Begun /\ WayInv'
    BY <2>1, SameJobs, SameWay DEF WayInv
  <2>3. EndInv'
    BY <2>1 DEF EndInv
  <2>4. FrameInv'
    <3>1. frame'.type # "job" /\ frame' = NoFrame
      BY DEF ServeFrame, NoFrame, Command
    <3>2. ASSUME NEW i \in 1 .. Len(down), down[i].type = "job"
          PROVE  frame' # down[i]
      BY <3>1, <3>2
    <3> QED
      BY <2>1, <3>1, <3>2 DEF FrameInv, jobVars
  <2>5. ASSUME NEW j \in Begun, NEW k \in Nat, Flows(j, k)
        PROVE  Flows(j, k)'
    <3>1. Pipe(j)' = Pipe(j) /\ wrote'[j] = wrote[j] /\ (Stands(j)' => Stands(j))
      BY <2>1 DEF Pipe, Stands, jobVars
    <3> QED
      BY <2>5, <3>1, FlowsSame
  <2> QED
    BY <2>2, <2>3, <2>4, <2>5 DEF Passed, FlowsKept, FlowsBegin
<1> QED
  BY <1>1, <1>2

LEMMA ServePasses ==
    ASSUME AgentInv, WayInv, EndInv, FrameInv, ServeStep, UNCHANGED loop
    PROVE  Passed
BY LeavePasses, ServeOutboxPasses, ServeFramePasses, ReplyPasses
DEF ServeStep, ServeReadError, ServeWriteError

-----------------------------------------------------------------------------
(* The goroutine of a job. *)

\* What j's goroutine says with a step, and whether a piece of output is in it.
Says(j, r, more, d) ==
    /\ r \in Reports(Begun) /\ wrote' = [wrote EXCEPT ![j] = @ + more]
    /\ r.type \in JobReport => r.job = j
    /\ r.type = "job_result" => at'[j] \in {"rescan", "end"} /\ r.status = result'[j]
    /\ \/ outbox' = outbox /\ (Cancelled(d) \/ more = 0)
       \/ d = conn /\ outbox' = Append(outbox, r)
    /\ IsOutput(r, j) => more = 1 /\ r.chunk = wrote[j] + 1
    /\ ~IsOutput(r, j) => more = 0

LEMMA SaysOf ==
    ASSUME AgentInv, NEW j \in Job, JobStep(j)
    PROVE  /\ \E r : \E more \in {0, 1} : Says(j, r, more, over[j])
           /\ UNCHANGED <<linkVars, serve, up, over>>
<1>1. j \in Begun /\ AgentPlaces
  BY DEF JobStep, JobStarts, JobWrites, JobExits, JobFails, JobReports, JobRescans, Begun, AgentInv
<1>2. /\ Started(j) \in Reports(Begun) /\ Ended(j) \in Reports(Begun)
      /\ PatchReport \in Reports(Begun) /\ Logs \in Reports(Begun)
      /\ \A chunk \in Piece : Output(j, chunk) \in Reports(Begun)
  BY <1>1, JobSays, LogsSay
<1>3. wrote \in [Job -> 0 .. MaxChunk] /\ wrote[j] \in Nat /\ wrote = [wrote EXCEPT ![j] = @ + 0]
  <2>1. wrote \in [Job -> 0 .. MaxChunk] /\ wrote[j] \in Nat
    BY <1>1, AgentAssumption DEF AgentPlaces
  <2>2. wrote[j] + 0 = wrote[j]
    BY <2>1
  <2> QED
    BY <2>1, <2>2
<1>4. wrote[j] < MaxChunk => wrote[j] + 1 \in Piece
  BY <1>3, AgentAssumption DEF Piece
<1>5. ASSUME NEW m, send(j, m)
      PROVE  /\ UNCHANGED <<linkVars, serve, up, over>>
             /\ \/ outbox' = outbox /\ Cancelled(over[j])
                \/ over[j] = conn /\ outbox' = Append(outbox, m)
  BY <1>5 DEF send, Cancelled
<1>6. CASE JobStarts(j)
  <2>1. send(j, Started(j)) /\ wrote' = wrote
    BY <1>6 DEF JobStarts
  <2>2. Says(j, Started(j), 0, over[j])
    BY <1>2, <1>3, <1>5, <2>1 DEF Says, Started, Message, IsOutput
  <2> QED
    BY <1>5, <2>1, <2>2
<1>7. CASE JobWrites(j) \/ JobFails(j)
  <2>1. /\ send(j, Output(j, wrote[j] + 1)) /\ wrote[j] < MaxChunk
        /\ wrote' = [wrote EXCEPT ![j] = @ + 1]
    BY <1>7 DEF JobWrites, JobFails
  <2>2. Says(j, Output(j, wrote[j] + 1), 1, over[j])
    BY <1>2, <1>4, <1>5, <2>1 DEF Says, Output, Message, IsOutput
  <2> QED
    BY <1>5, <2>1, <2>2
<1>8. CASE JobExits(j)
  <2>1. Says(j, Logs, 0, over[j])
    BY <1>2, <1>3, <1>8 DEF Says, Logs, Message, IsOutput, JobReport, JobExits
  <2> QED
    BY <1>8, <2>1 DEF JobExits
<1>9. CASE JobReports(j)
  <2>1. send(j, Ended(j)) /\ wrote' = wrote /\ result' = result /\ at'[j] \in {"rescan", "end"}
    BY <1>1, <1>9 DEF JobReports, AgentPlaces
  <2>2. Says(j, Ended(j), 0, over[j])
    BY <1>2, <1>3, <1>5, <2>1 DEF Says, Ended, Message, IsOutput
  <2> QED
    BY <1>5, <2>1, <2>2
<1>10. CASE JobRescans(j)
  <2>1. send(j, PatchReport) /\ wrote' = wrote
    BY <1>10 DEF JobRescans
  <2>2. Says(j, PatchReport, 0, over[j])
    BY <1>2, <1>3, <1>5, <2>1 DEF Says, PatchReport, Message, IsOutput, JobReport
  <2> QED
    BY <1>5, <2>1, <2>2
<1> QED
  BY <1>6, <1>7, <1>8, <1>9, <1>10 DEF JobStep

LEMMA JobOnward ==
    ASSUME AgentInv, NEW j \in Job, JobStep(j)
    PROVE  Onward /\ Begun' = Begun /\ j \in Begun
<1>1. j \in Begun
  BY DEF JobStep, JobStarts, JobWrites, JobExits, JobFails, JobReports, JobRescans, Begun
<1>2. /\ at'[j] \in {"run", "result", "rescan", "end"}
      /\ at[j] \in {"rescan", "end"} => at'[j] = "end" /\ UNCHANGED <<wrote, result>>
      /\ \A i \in Job : i # j => at'[i] = at[i] /\ result'[i] = result[i]
  BY DEF JobStep, JobStarts, JobWrites, JobExits, JobFails, JobReports, JobRescans,
         AgentInv, AgentPlaces
<1>3. PICK r : \E more \in {0, 1} : Says(j, r, more, over[j])
  BY SaysOf
<1>9. PICK more \in {0, 1} : Says(j, r, more, over[j])
  BY <1>3
<1>4. over' = over
  BY SaysOf
<1>5. wrote \in [Job -> 0 .. MaxChunk] /\ \A i \in Job : wrote[i] \in Nat
  BY AgentAssumption DEF AgentInv, AgentPlaces
<1>6. ASSUME NEW i \in Job
      PROVE  wrote'[i] \in Nat /\ wrote[i] <= wrote'[i] /\ (i # j => wrote'[i] = wrote[i])
  <2>1. wrote' = [wrote EXCEPT ![j] = wrote[j] + more]
    BY <1>9 DEF Says
  <2>2. CASE i = j
    <3>1. wrote'[i] = wrote[i] + more
      BY <1>5, <2>1, <2>2
    <3> QED
      BY <1>5, <2>2, <3>1
  <2>3. CASE i # j
    <3>1. wrote'[i] = wrote[i]
      BY <1>5, <2>1, <2>3
    <3> QED
      BY <1>5, <3>1
  <2> QED
    BY <2>2, <2>3
<1>7. \A i \in Job : at'[i] # "idle" <=> at[i] # "idle"
  BY <1>1, <1>2 DEF Begun
<1>8. Onward
  <2>1. ASSUME NEW i \in Begun
        PROVE  /\ at'[i] # "idle" /\ over'[i] = over[i] /\ wrote'[i] \in Nat /\ wrote[i] <= wrote'[i]
               /\ at[i] \in {"rescan", "end"} =>
                     at'[i] \in {"rescan", "end"} /\ result'[i] = result[i] /\ wrote'[i] = wrote[i]
    <3>1. i \in Job /\ at[i] # "idle"
      BY DEF Begun
    <3> QED
      BY <1>2, <1>4, <1>6, <1>7, <3>1
  <2> QED
    BY <2>1 DEF Onward
<1> QED
  BY <1>1, <1>7, <1>8 DEF Begun

LEMMA JobPasses ==
    ASSUME AgentInv, WayInv, EndInv, FrameInv, NEW j \in Job, JobStep(j), UNCHANGED loop
    PROVE  Passed
<1>1. Onward /\ Begun' = Begun /\ j \in Begun
  BY JobOnward
<1>0. PICK r : \E more \in {0, 1} : Says(j, r, more, over[j])
  BY SaysOf
<1>2. PICK more \in {0, 1} : Says(j, r, more, over[j])
  BY <1>0
<1>3. UNCHANGED <<conn, intact, down, reader, frame, serve, up, over>>
  BY SaysOf DEF linkVars
<1>4. /\ wrote \in [Job -> 0 .. MaxChunk] /\ wrote' = [wrote EXCEPT ![j] = wrote[j] + more]
      /\ \A i \in Job : i # j => wrote'[i] = wrote[i]
  BY <1>2 DEF Says, AgentInv, AgentPlaces
<1>5. over[j] = conn => r \in From(conn)'
  <2>1. Reports(Begun)' = Reports(Begun)
    BY <1>1 DEF Reports
  <2> QED
    BY <1>2, <1>3, <2>1 DEF Says, From, JobReport
<1>6. WayInv'
  <2>1. ASSUME NEW d \in Conn
        PROVE  up'[d] \in Seq(From(d)')
    BY <1>1, <1>3, FromOnward, SeqWider DEF WayInv
  <2>2. outbox' \in Seq(From(conn)')
    <3>1. outbox \in Seq(From(conn)')
      BY <1>1, <1>3, FromOnward, SeqWider DEF WayInv
    <3> QED
      BY <1>2, <1>5, <3>1, SeqParts DEF Says
  <2>3. \A i \in Begun' : over'[i] \in 1 .. conn'
    BY <1>1, <1>3 DEF WayInv
  <2>4. \A i \in Job \ Begun' : wrote'[i] = 0
    BY <1>1, <1>4 DEF WayInv
  <2> QED
    BY <2>1, <2>2, <2>3, <2>4 DEF WayInv
<1>7. FrameInv'
  <2>1. \A i \in Job : at[i] = "idle" => at'[i] = "idle"
    BY <1>1 DEF Begun
  <2>2. frame.type = "job" => frame.job \in Job
    BY DEF AgentInv, Commands, Sent
  <2>3. ASSUME NEW i \in 1 .. Len(down), down[i].type = "job"
        PROVE  down[i].job \in Job
    <3>1. down[i] \in Commands(Sent)
      BY ElementOfSeq DEF AgentInv
    <3> QED
      BY <2>3, <3>1 DEF Commands, Sent
  <2> QED
    BY <1>3, <2>1, <2>2, <2>3 DEF FrameInv
<1>8. EndInv'
  BY <1>3 DEF EndInv
<1>9. ASSUME NEW i \in Begun, NEW m \in Nat, Flows(i, m)
      PROVE  Flows(i, m)'
  <2>1. i \in Job /\ over[i] \in Conn /\ Pipe(i) \in Seq(From(over[i])) /\ wrote[i] \in Nat
    BY PipeTyped
  <2>2. over'[i] = over[i] /\ (Stands(i)' <=> Stands(i))
    BY <1>3 DEF Stands
  <2>3. CASE outbox' = outbox
    <3>1. Pipe(i)' = Pipe(i)
      BY <1>3, <2>3 DEF Pipe
    <3>2. CASE wrote'[i] = wrote[i]
      BY <1>9, <2>2, <3>1, <3>2, FlowsSame
    <3>3. CASE wrote'[i] # wrote[i]
      <4>1. i = j /\ more # 0
        BY <1>4, <2>1, <3>3
      <4>2. outbox' # Append(outbox, r)
        <5>1. outbox \in Seq(From(conn))
          BY DEF WayInv
        <5> QED
          BY <2>3, <5>1
      <4>3. Cancelled(over[j])
        BY <1>2, <4>1, <4>2 DEF Says
      <4>4. ~Stands(i)
        BY <4>1, <4>3 DEF Cancelled, Stands, EndInv
      <4>5. Pipe(i) = SubSeq(Pipe(i), 1, Len(Pipe(i))) /\ Len(Pipe(i)) \in 0 .. Len(Pipe(i))
        BY <2>1, SubSeqFull, LenProperties
      <4> QED
        BY <1>1, <1>9, <2>2, <3>1, <4>4, <4>5, FlowsCut
    <3> QED
      BY <3>2, <3>3
  <2>4. CASE over[j] = conn /\ outbox' = Append(outbox, r)
    <3>1. CASE ~Stands(i)
      <4>1. Pipe(i)' = Pipe(i) /\ ~Stands(i)'
        BY <1>3, <2>2, <3>1 DEF Pipe, Stands
      <4>2. Pipe(i) = SubSeq(Pipe(i), 1, Len(Pipe(i))) /\ Len(Pipe(i)) \in 0 .. Len(Pipe(i))
        BY <2>1, SubSeqFull, LenProperties
      <4> QED
        BY <1>1, <1>9, <4>1, <4>2, FlowsCut
    <3>2. CASE Stands(i)
      <4>1. Pipe(i)' = Append(Pipe(i), r)
        <5>1. PICK S : S = From(conn) \cup {r}
          OBVIOUS
        <5>2. up[conn] \in Seq(S) /\ outbox \in Seq(S) /\ r \in S
          <6>1. up[conn] \in Seq(From(conn)) /\ outbox \in Seq(From(conn))
            BY <2>1, <3>2 DEF WayInv, Stands
          <6> QED
            BY <5>1, <6>1, SeqWider
        <5>3. PICK u : u = up[conn]
          OBVIOUS
        <5>4. PICK o : o = outbox
          OBVIOUS
        <5>5. u \o Append(o, r) = Append(u \o o, r)
          <6> HIDE <5>3, <5>4
          <6>1. u \in Seq(S) /\ o \in Seq(S) /\ r \in S
            BY <5>2, <5>3, <5>4
          <6> QED
            BY <6>1, AppendRight
        <5> QED
          BY <1>3, <2>4, <3>2, <5>3, <5>4, <5>5 DEF Pipe, Stands
      <4>2. CASE i = j
        <5>1. wrote'[i] = wrote[i] + more
          BY <1>4, <2>1, <4>2
        <5>2. /\ IsOutput(r, i) => more = 1 /\ r.chunk = wrote[i] + 1
              /\ ~IsOutput(r, i) => more = 0
          BY <1>2, <4>2 DEF Says
        <5> QED
          BY <1>1, <1>9, <3>2, <4>1, <5>1, <5>2, FlowsOn
      <4>3. CASE i # j
        <5>1. wrote'[i] = wrote[i] + 0
          BY <1>4, <2>1, <4>3
        <5>2. ~IsOutput(r, i)
          BY <1>2, <4>3 DEF Says, IsOutput, JobReport
        <5> QED
          BY <1>1, <1>9, <3>2, <4>1, <5>1, <5>2, FlowsOn
      <4> QED
        BY <4>2, <4>3
    <3> QED
      BY <3>1, <3>2
  <2> QED
    BY <1>2, <2>3, <2>4 DEF Says
<1> QED
  BY <1>1, <1>6, <1>7, <1>8, <1>9 DEF Passed, FlowsKept, FlowsBegin

\* No step of the agent loses a piece but at the end, or says what is not so.
LEMMA AgentPasses ==
    ASSUME AgentInv, WayInv, EndInv, FrameInv, AgentStep, UNCHANGED loop
    PROVE  Passed
BY ServePasses, ReaderPasses, JobPasses DEF AgentStep

-----------------------------------------------------------------------------
(* What a step leaves of the chain and of what is stored. *)

\* Only the loop of connection c moves, if any does (there is no connection 0).
Moved(c) ==
    \A d \in Conn \ {c} : /\ loop'[d] = loop[d] /\ msg'[d] = msg[d]
                          /\ clean'[d] = clean[d] /\ current'[d] = current[d]

\* The job a loop works on came over its connection.
LEMMA HandJob ==
    ASSUME HandInv, LoopInv, NEW c \in Conn, loop[c] \in Working
    PROVE  /\ msg[c].job \in Begun /\ msg[c].job \in Job /\ over[msg[c].job] = c
           /\ msg[c].type = "job_result" =>
                 at[msg[c].job] \in {"rescan", "end"} /\ msg[c].status = result[msg[c].job]
<1>1. msg[c] \in From(c) /\ msg[c].type \in JobReport
  BY DEF HandInv, LoopInv
<1> QED
  BY <1>1 DEF From, Reports, Begun

LEMMA FlowsIdle ==
    ASSUME NEW j, UNCHANGED agentVars, NEW m, Flows(j, m)
    PROVE  Flows(j, m)'
<1>1. Pipe(j)' = Pipe(j) /\ wrote'[j] = wrote[j] /\ (Stands(j)' => Stands(j))
  BY DEF Pipe, Stands, agentVars
<1> QED
  BY <1>1, FlowsSame

LEMMA HandMoves ==
    ASSUME HandInv, Onward, NEW c, Moved(c),
           c \in Conn /\ loop'[c] \in Working => msg'[c] \in From(c)',
           c \in Conn /\ loop'[c] = "finish" => msg'[c].type = "job_result",
           \A j \in Job \ Begun' : held'[j] = <<>>
    PROVE  HandInv'
<1>1. ASSUME NEW d \in Conn, loop'[d] \in Working
      PROVE  msg'[d] \in From(d)'
  <2>1. CASE d = c
    BY <1>1, <2>1
  <2>2. CASE d # c
    <3>1. loop'[d] = loop[d] /\ msg'[d] = msg[d]
      BY <2>2 DEF Moved
    <3>2. msg[d] \in From(d)
      BY <1>1, <3>1 DEF HandInv
    <3> QED
      BY <3>1, <3>2, FromOnward
  <2> QED
    BY <2>1, <2>2
<1>2. ASSUME NEW d \in Conn, loop'[d] = "finish"
      PROVE  msg'[d].type = "job_result"
  BY <1>2 DEF HandInv, Moved
<1> QED
  BY <1>1, <1>2 DEF HandInv, Working

\* A job that the loop does not work on before the step or after it.
Aside(j, c) ==
    over[j] = c => /\ loop[c] \in Working => msg[c].job # j
                   /\ loop'[c] \in Working => msg'[c].job # j

LEMMA ChainSame ==
    ASSUME Inv, OutInv, Onward, NEW j \in Begun,
           NEW k \in Nat, NEW l \in Nat, NEW m \in Nat, Chain(j, k, l, m), Flows(j, m)',
           row'[j].output = row[j].output, held'[j] = held[j],
           Pending(j)' <=> Pending(j), Pending(j) => clean'[over[j]] = clean[over[j]],
           Ending(j)' => Ending(j)
    PROVE  Chain(j, k, l, m)'
<1>1. over'[j] = over[j]
  BY DEF Onward
<1>2. ASSUME Ending(j)'
      PROVE  l = wrote'[j]
  <2>1. Ending(j) /\ l = wrote[j]
    BY <1>2 DEF Chain
  <2>2. over[j] \in Conn
    BY PipeTyped DEF Inv, OutInv
  <2>3. loop[over[j]] \in Working /\ msg[over[j]].job = j /\ msg[over[j]].type = "job_result"
    BY <2>1 DEF Ending, Working
  <2>4. at[j] \in {"rescan", "end"}
    BY <2>2, <2>3, HandJob DEF Inv, OutInv
  <2> QED
    BY <2>1, <2>4 DEF Onward
<1>3. IF Pending(j)' THEN clean'[over'[j]] = Pieces(k, l) ELSE k = l
  BY <1>1 DEF Chain
<1>4. k <= l /\ l <= m /\ row'[j].output = Capped(Written(k)) /\ held'[j] = Pieces(l, m)
  BY DEF Chain
<1> QED
  BY <1>2, <1>3, <1>4 DEF Chain

LEMMA ChainAside ==
    ASSUME Inv, OutInv, Onward, NEW c, Moved(c), NEW j \in Begun, Aside(j, c),
           \A m \in Nat : Flows(j, m) => Flows(j, m)',
           row'[j].output = row[j].output, held'[j] = held[j], Known(j)
    PROVE  ChainOf(j)'
<1>1. over'[j] = over[j] /\ over[j] \in Conn
  BY PipeTyped DEF Onward, Inv, OutInv
<1>2. PICK k, l, m \in Nat : Chain(j, k, l, m)
  BY DEF OutInv, ChainInv, ChainOf
<1>3. Flows(j, m)'
  BY <1>2 DEF Chain
<1>4. /\ Pending(j)' <=> Pending(j)
      /\ Pending(j) => clean'[over[j]] = clean[over[j]]
      /\ Ending(j)' => Ending(j)
  <2>1. CASE over[j] = c
    <3>1. /\ {"append", "update"} \subseteq Working
          /\ {"append", "update", "publish", "finish"} \subseteq Working
      BY DEF Working
    <3>2. ~Pending(j) /\ ~Ending(j)
      BY <2>1, <3>1 DEF Aside, Pending, Ending
    <3>3. ~Pending(j)' /\ ~Ending(j)'
      BY <1>1, <2>1, <3>1 DEF Aside, Pending, Ending
    <3> QED
      BY <3>2, <3>3
  <2>2. CASE over[j] # c
    <3>1. /\ loop'[over[j]] = loop[over[j]] /\ msg'[over[j]] = msg[over[j]]
          /\ clean'[over[j]] = clean[over[j]]
      BY <1>1, <2>2 DEF Moved
    <3> QED
      BY <1>1, <3>1 DEF Pending, Ending
  <2> QED
    BY <2>1, <2>2
<1>5. Chain(j, k, l, m)'
  BY <1>2, <1>3, <1>4, ChainSame
<1> QED
  BY <1>5 DEF ChainOf

LEMMA UpdateElse ==
    ASSUME Inv, OutInv, Onward, NEW d \in Conn, loop[d] = "update",
           msg'[d] = msg[d], clean'[d] = clean[d], current'[d] = current[d],
           row'[msg[d].job].output = row[msg[d].job].output
    PROVE  UpdateOf(d)'
<1>1. PICK j \in Begun : j = msg[d].job
  BY HandJob DEF Inv, OutInv, Working
<1>2. PICK k, l \in Nat : /\ k <= l /\ l <= wrote[j] /\ current[d] = Capped(Written(k))
                          /\ clean[d] = Pieces(k, l) /\ row[j].output = current[d]
  BY <1>1 DEF OutInv, UpdateInv, UpdateOf
<1>3. wrote[j] \in Nat /\ wrote'[j] \in Nat /\ wrote[j] <= wrote'[j]
  BY PipeTyped DEF Onward, Inv, OutInv
<1>4. l <= wrote'[j] /\ msg'[d].job = j
  BY <1>1, <1>2, <1>3
<1>5. row'[j].output = current'[d]
  BY <1>1, <1>2
<1> QED
  BY <1>2, <1>4, <1>5 DEF UpdateOf

LEMMA PrefixElse ==
    ASSUME Inv, Inv', OutInv, Onward, StatusKept, NEW j \in Job, row'[j].output = row[j].output
    PROVE  PrefixOf(j)'
<1>1. wrote[j] \in Nat /\ wrote'[j] \in Nat /\ wrote[j] <= wrote'[j]
  <2>1. wrote[j] \in Nat /\ wrote'[j] \in Nat
    BY AgentAssumption DEF Inv, AgentInv, AgentPlaces
  <2>2. CASE j \in Begun
    BY <2>1, <2>2 DEF Onward
  <2>3. CASE j \notin Begun
    BY <2>1, <2>3 DEF OutInv, WayInv
  <2> QED
    BY <2>1, <2>2, <2>3
<1>2. Over(j) => Over(j)'
  BY DEF StatusKept
<1>3. PrefixOf(j)
  BY DEF OutInv, PrefixInv
<1>4. CASE row[j].output = <<0>> /\ Over(j)
  BY <1>2, <1>4 DEF PrefixOf
<1>5. ASSUME NEW k \in Nat, k <= wrote[j], row[j].output = Capped(Written(k))
      PROVE  PrefixOf(j)'
  <2>1. k <= wrote'[j] /\ row'[j].output = Capped(Written(k))
    BY <1>1, <1>5
  <2> QED
    BY <2>1 DEF PrefixOf
<1> QED
  BY <1>3, <1>4, <1>5 DEF PrefixOf

LEMMA DoneElse ==
    ASSUME Inv, OutInv, Onward, NEW j \in Job, row[j].status = "done",
           row'[j].output = row[j].output,
           \A d \in Conn : loop'[d] = "update" /\ msg'[d].job = j
                              => loop[d] = "update" /\ msg[d].job = j
    PROVE  DoneOf(j)'
<1>1. DoneOf(j)
  BY DEF OutInv, DoneInv
<1>2. j \in Begun
  BY <1>1 DEF DoneOf, Begun
<1>3. at'[j] \in {"rescan", "end"} /\ result'[j] = result[j] /\ wrote'[j] = wrote[j]
  BY <1>1, <1>2 DEF DoneOf, Onward
<1> QED
  BY <1>1, <1>3 DEF DoneOf

\* What remains to be shown of a step, about the rows.
LEMMA RowsKept ==
    ASSUME Inv, Inv', OutInv, Onward, StatusKept, NEW c, Moved(c),
           c \in Conn /\ loop'[c] = "update" => UpdateOf(c)' /\ row[msg'[c].job].status # "done",
           \A j \in Job : \/ row'[j].output = row[j].output
                          \/ /\ PrefixOf(j)' /\ row'[j].status # "done"
                             /\ \A d \in Conn : loop'[d] = "update" /\ d # c => msg'[d].job # j,
           \A j \in Job : row'[j].status = "done" => row[j].status = "done" \/ DoneOf(j)'
    PROVE  UpdateInv' /\ PrefixInv' /\ DoneInv'
<1>1. ASSUME NEW d \in Conn, loop'[d] = "update"
      PROVE  UpdateOf(d)'
  <2>1. CASE d = c
    BY <1>1, <2>1
  <2>2. CASE d # c
    <3>1. /\ loop'[d] = loop[d] /\ msg'[d] = msg[d]
          /\ clean'[d] = clean[d] /\ current'[d] = current[d]
      BY <2>2 DEF Moved
    <3>2. msg[d].job \in Job
      BY <1>1, <3>1, HandJob DEF Inv, OutInv, Working
    <3>3. row'[msg[d].job].output = row[msg[d].job].output
      BY <1>1, <2>2, <3>1, <3>2
    <3> QED
      BY <1>1, <3>1, <3>3, UpdateElse
  <2> QED
    BY <2>1, <2>2
<1>2. ASSUME NEW j \in Job
      PROVE  PrefixOf(j)'
  BY PrefixElse
<1>3. ASSUME NEW j \in Job, row'[j].status = "done"
      PROVE  DoneOf(j)'
  <2>1. CASE row[j].status = "done"
    <3>1. row'[j].output = row[j].output
      BY <1>3
    <3>2. ASSUME NEW d \in Conn, loop'[d] = "update", msg'[d].job = j
          PROVE  loop[d] = "update" /\ msg[d].job = j
      <4>1. d # c
        BY <2>1, <3>2
      <4> QED
        BY <3>2, <4>1 DEF Moved
    <3> QED
      BY <2>1, <3>1, <3>2, DoneElse
  <2> QED
    BY <1>3, <2>1
<1> QED
  BY <1>1, <1>2, <1>3 DEF UpdateInv, PrefixInv, DoneInv

\* ... and about the chains.
LEMMA ChainsKept ==
    ASSUME Inv, OutInv, Onward, StatusKept, NEW c, Moved(c), Begun' = Begun,
           \A j \in Begun : over[j] = c => loop[c] # "closed",
           \A j \in Begun : Known(j) /\ Known(j)' =>
               \/ ChainOf(j)'
               \/ /\ Aside(j, c) /\ \A m \in Nat : Flows(j, m) => Flows(j, m)'
                  /\ row'[j].output = row[j].output /\ held'[j] = held[j]
    PROVE  ChainInv'
<1>1. ASSUME NEW j \in Begun, Known(j)'
      PROVE  ChainOf(j)'
  <2>1. j \in Job /\ over'[j] = over[j] /\ over[j] \in Conn
    BY PipeTyped DEF Onward, Inv, OutInv
  <2>2. ~Over(j)
    BY <1>1, <2>1 DEF Known, StatusKept
  <2>3. loop[over[j]] # "closed"
    BY <1>1, <2>1 DEF Known, Moved
  <2>4. Known(j)
    BY <2>2, <2>3 DEF Known
  <2>5. CASE ~ChainOf(j)'
    <3>1. Aside(j, c) /\ \A m \in Nat : Flows(j, m) => Flows(j, m)'
      BY <1>1, <2>4, <2>5
    <3>2. row'[j].output = row[j].output /\ held'[j] = held[j]
      BY <1>1, <2>4, <2>5
    <3> QED
      BY <2>4, <3>1, <3>2, ChainAside
  <2> QED
    BY <2>5
<1> QED
  BY <1>1 DEF ChainInv

\* A step of the agent, of which the server notices nothing.
LEMMA PassedKeeps ==
    ASSUME Inv, Inv', OutInv, Passed, UNCHANGED server
    PROVE  OutInv'
<1>1. /\ UNCHANGED <<row, held, reg, loop, msg, clean, current>> /\ Moved(0) /\ 0 \notin Conn
      /\ StatusKept /\ Onward /\ Begun \subseteq Begun'
  BY FromOnward, RowsStay DEF server, Moved, Passed, Conn
<1>2. HandInv'
  <2>1. \A j \in Job \ Begun' : held'[j] = <<>>
    BY <1>1 DEF OutInv, HandInv
  <2> QED
    BY <1>1, <2>1, HandMoves DEF OutInv
<1>3. UpdateInv' /\ PrefixInv' /\ DoneInv'
  BY <1>1, RowsKept
<1>4. ASSUME NEW j \in Begun', Known(j)'
      PROVE  ChainOf(j)'
  <2>1. CASE j \in Begun
    <3>1. over'[j] = over[j] /\ over[j] \in Conn
      BY <1>1, <2>1, PipeTyped DEF Onward, Inv, OutInv
    <3>2. Known(j)
      BY <1>1, <1>4, <3>1 DEF Known, Over
    <3>3. Aside(j, 0)
      BY <1>1, <3>1 DEF Aside
    <3>4. \A m \in Nat : Flows(j, m) => Flows(j, m)'
      BY <2>1 DEF Passed, FlowsKept
    <3> QED
      BY <1>1, <2>1, <3>2, <3>3, <3>4, ChainAside
  <2>2. CASE j \notin Begun
    <3>1. j \in Job /\ over'[j] \in Conn
      <4>1. j \in Job /\ over'[j] \in 1 .. conn' /\ conn' \in 0 .. MaxConn
        BY DEF Begun, Inv, AgentInv, AgentPlaces, Passed, WayInv
      <4> QED
        BY <4>1, AgentAssumption DEF Conn
    <3>2. wrote'[j] = 0 /\ Flows(j, 0)' /\ wrote[j] = 0 /\ held[j] = <<>>
      BY <2>2, <3>1 DEF Passed, FlowsBegin, OutInv, WayInv, HandInv
    <3>3. row[j].output = Capped(Written(0))
      <4>1. ~Over(j)
        BY <1>1, <1>4 DEF Known, Over
      <4>2. PICK k \in Nat : k <= wrote[j] /\ row[j].output = Capped(Written(k))
        BY <3>1, <4>1 DEF OutInv, PrefixInv, PrefixOf
      <4>3. k = 0
        BY <3>2, <4>2
      <4> QED
        BY <4>2, <4>3
    <3>4. ASSUME NEW d \in Conn, loop[d] \in Working
          PROVE  msg[d].job # j
      BY <2>2, <3>4, HandJob DEF Inv, OutInv
    <3>5. /\ {"append", "update"} \subseteq Working
          /\ {"append", "update", "publish", "finish"} \subseteq Working
      BY DEF Working
    <3>6. ~Pending(j)' /\ ~Ending(j)'
      BY <1>1, <3>1, <3>4, <3>5 DEF Pending, Ending
    <3>7. held'[j] = Pieces(0, 0) /\ row'[j].output = Capped(Written(0))
      BY <1>1, <3>2, <3>3, NoPieces
    <3>8. Chain(j, 0, 0, 0)'
      BY <3>2, <3>6, <3>7 DEF Chain
    <3> QED
      BY <3>8 DEF ChainOf
  <2> QED
    BY <2>1, <2>2
<1>5. ChainInv'
  BY <1>4 DEF ChainInv
<1> QED
  BY <1>2, <1>3, <1>5 DEF Passed, OutInv

LEMMA AgentKeepsOut ==
    ASSUME Inv, Inv', OutInv, Agent \/ SocketBreaks \/ AgentCrashes
    PROVE  OutInv'
<1>1. UNCHANGED server /\ UNCHANGED loop
  BY DEF Agent, SocketBreaks, AgentCrashes, server
<1>2. Passed
  BY <1>1, AgentPasses, BreakPasses, DeathPasses DEF Agent, SocketBreaks, AgentCrashes, Inv, OutInv
<1> QED
  BY <1>1, <1>2, PassedKeeps

-----------------------------------------------------------------------------
(* The receive loops. *)

\* Taking a message off the wire takes it off the pipe of the job it is about.
LEMMA FlowsTaken ==
    ASSUME Inv, OutInv, UNCHANGED ExceptUp, NEW c \in Conn, up[c] # <<>>, Taken(c),
           NEW j \in Begun, NEW m \in Nat, Flows(j, m)
    PROVE  \E more \in {0, 1} :
              /\ Flows(j, m + more)'
              /\ IsOutput(Head(up[c]), j) => more = 1 /\ Head(up[c]).chunk = m + 1 /\ over[j] = c
              /\ ~IsOutput(Head(up[c]), j) => more = 0
              /\ IsResult(Head(up[c]), j) => m = wrote[j] /\ over[j] = c
<1>1. /\ UNCHANGED <<conn, intact, outbox, at, over, wrote, result>>
      /\ up' = [up EXCEPT ![c] = Tail(up[c])]
  BY DEF ExceptUp, jobVars, Taken
<1>2. /\ over[j] \in Conn /\ Pipe(j) \in Seq(From(over[j])) /\ wrote[j] \in Nat
      /\ up[c] \in Seq(From(c)) /\ up[over[j]] \in Seq(From(over[j])) /\ outbox \in Seq(From(conn))
  BY PipeTyped DEF Inv, OutInv, WayInv
<1>3. /\ \A d \in Conn : d # c => up'[d] = up[d]
      /\ up'[c] = Tail(up[c])
  BY <1>1 DEF Inv, AgentInv
<1>4. PICK h \in From(c) : h = Head(up[c])
  BY <1>2, SeqParts
<1>5. CASE over[j] # c
  <2>1. Pipe(j)' = Pipe(j) /\ wrote'[j] = wrote[j] /\ (Stands(j)' => Stands(j))
    BY <1>1, <1>2, <1>3, <1>5 DEF Pipe, Stands
  <2>2. Flows(j, m)'
    BY <2>1, FlowsSame
  <2>3. ~IsOutput(h, j) /\ ~IsResult(h, j)
    BY <1>4, <1>5 DEF From, IsOutput, IsResult, JobReport
  <2>4. m + 0 = m
    OBVIOUS
  <2> QED
    BY <1>4, <2>2, <2>3, <2>4
<1>6. CASE over[j] = c
  <2>1. Pipe(j) # <<>> /\ Head(Pipe(j)) = Head(up[c]) /\ Pipe(j)' = Tail(Pipe(j))
    <3>1. CASE Stands(j)
      <4>1. Pipe(j) = up[c] \o outbox /\ Pipe(j)' = up'[c] \o outbox
        BY <1>1, <1>6, <3>1 DEF Pipe, Stands
      <4>2. outbox \in Seq(From(c))
        BY <1>2, <1>6, <3>1 DEF Stands
      <4>3. PICK u \in Seq(From(c)) : u = up[c]
        BY <1>2
      <4>4. PICK o \in Seq(From(c)) : o = outbox
        BY <4>2
      <4>5. Tail(u) \o o = Tail(u \o o) /\ Head(u) = Head(u \o o) /\ u \o o # <<>>
        BY <4>3, TwoParts
      <4> QED
        BY <1>3, <4>1, <4>3, <4>4, <4>5
    <3>2. CASE ~Stands(j)
      BY <1>1, <1>3, <1>6, <3>2 DEF Pipe, Stands
    <3> QED
      BY <3>1, <3>2
  <2>2. PICK n \in Nat : /\ n <= wrote[j] /\ (intact /\ over[j] = conn => n = wrote[j])
                         /\ Run(Pipe(j), j, m, n, wrote[j])
    BY DEF Flows
  <2>3. PICK q \in Seq(From(over[j])) : q = Pipe(j)
    BY <1>2
  <2>4. PICK more \in {0, 1} :
          /\ Run(Tail(q), j, m + more, n, wrote[j])
          /\ IsOutput(Head(q), j) => more = 1 /\ Head(q).chunk = m + 1
          /\ ~IsOutput(Head(q), j) => more = 0
          /\ IsResult(Head(q), j) => m = wrote[j]
    BY <2>1, <2>2, <2>3, RunTail
  <2>5. Run(Tail(q), j, m + more, n, wrote'[j]) /\ Pipe(j)' = Tail(q)
    BY <1>1, <2>1, <2>3, <2>4
  <2>6. n <= wrote'[j] /\ (intact' /\ over'[j] = conn' => n = wrote'[j])
    BY <1>1, <2>2
  <2>7. Flows(j, m + more)'
    <3>1. Run(Pipe(j)', j, m + more, n, wrote'[j])
      BY <2>5
    <3> QED
      BY <2>6, <3>1 DEF Flows, Run, Counts, IsOutput, IsResult
  <2>8. Head(q) = Head(up[c])
    BY <2>1, <2>3
  <2> QED
    BY <1>6, <2>4, <2>7, <2>8
<1> QED
  BY <1>5, <1>6

\* A step of the server that leaves the agent alone, but for the wire from it.
LEMMA SideKept ==
    ASSUME Inv, OutInv, UNCHANGED ExceptUp, NEW c \in Conn,
           NEW u \in Seq(From(c)), up' = [up EXCEPT ![c] = u],
           NEW to, to # "none", loop' = [loop EXCEPT ![c] = to],
           to = "closed" => u = <<>> /\ (c = conn => ~intact),
           loop[c] = "closed" => to = "closed"
    PROVE  Onward /\ Begun' = Begun /\ WayInv' /\ FrameInv' /\ EndInv'
<1>1. UNCHANGED <<conn, serve, intact, down, frame, outbox, jobVars, at, over, wrote, result>>
  BY DEF ExceptUp, jobVars
<1>2. Onward /\ Begun' = Begun
  BY <1>1, SameJobs DEF Inv
<1>3. up'[c] = u /\ \A d \in Conn : d # c => up'[d] = up[d]
  BY DEF Inv, AgentInv
<1>4. WayInv'
  <2>1. \A d \in Conn : up'[d] \in Seq(From(d))
    BY <1>3 DEF OutInv, WayInv
  <2>2. outbox' \in Seq(From(conn))
    BY <1>1 DEF OutInv, WayInv
  <2> QED
    BY <1>1, <2>1, <2>2, SameWay DEF OutInv
<1>5. FrameInv'
  BY <1>1 DEF OutInv, FrameInv
<1>6. loop'[c] = to /\ \A d \in Conn : d # c => loop'[d] = loop[d]
  BY DEF Inv, ServerTypeOK
<1>7. EndInv'
  BY <1>1, <1>3, <1>6 DEF OutInv, EndInv
<1> QED
  BY <1>2, <1>4, <1>5, <1>7

\* A receive loop that goes on with the message it has.
LEMMA LoopWorks ==
    ASSUME Inv, OutInv, NEW c \in Conn, loop[c] \in Working, UNCHANGED <<agentVars, held>>,
           NEW to, LoopTo(c, to), to \notin {"none", "closed"}, Moved(c),
           to \in Working => msg'[c] = msg[c],
           to = "finish" => msg[c].type = "job_result"
    PROVE  /\ Onward /\ Begun' = Begun /\ WayInv' /\ FrameInv' /\ EndInv' /\ HandInv'
           /\ \A j \in Begun : \A m \in Nat : Flows(j, m) => Flows(j, m)'
<1>1. UNCHANGED ExceptUp /\ up' = [up EXCEPT ![c] = up[c]] /\ up[c] \in Seq(From(c))
  BY DEF agentVars, ExceptUp, jobVars, Inv, AgentInv, OutInv, WayInv
<1>2. loop' = [loop EXCEPT ![c] = to] /\ loop'[c] = to /\ loop[c] # "closed"
  BY DEF LoopTo, Inv, ServerTypeOK, Working
<1>3. Onward /\ Begun' = Begun /\ WayInv' /\ FrameInv' /\ EndInv'
  BY <1>1, <1>2, SideKept
<1>4. HandInv'
  <2>1. loop'[c] \in Working => msg'[c] \in From(c)'
    <3>1. msg[c] \in From(c)
      BY DEF OutInv, HandInv
    <3> QED
      BY <1>2, <1>3, <3>1, FromOnward
  <2>2. loop'[c] = "finish" => msg'[c].type = "job_result"
    BY <1>2 DEF Working
  <2>3. \A j \in Job \ Begun' : held'[j] = <<>>
    BY <1>3 DEF OutInv, HandInv
  <2> QED
    BY <1>3, <2>1, <2>2, <2>3, HandMoves DEF OutInv
<1> QED
  BY <1>3, <1>4, FlowsIdle

\* A chain none of whose places changes.
LEMMA ChainStill ==
    ASSUME Inv, OutInv, Onward, NEW j \in Begun, Known(j),
           \A m \in Nat : Flows(j, m) => Flows(j, m)',
           row'[j].output = row[j].output, held'[j] = held[j],
           Pending(j)' <=> Pending(j), Pending(j) => clean'[over[j]] = clean[over[j]],
           Ending(j)' => Ending(j)
    PROVE  ChainOf(j)'
<1>1. PICK k, l, m \in Nat : Chain(j, k, l, m)
  BY DEF OutInv, ChainInv, ChainOf
<1>2. Flows(j, m)'
  BY <1>1 DEF Chain
<1>3. Chain(j, k, l, m)'
  BY <1>1, <1>2, ChainSame
<1> QED
  BY <1>3 DEF ChainOf

\* A receive loop that takes a message.
LEMMA TakenKept ==
    ASSUME Inv, OutInv, NEW c \in Conn, NEW type, Receive(c, type),
           NEW to, loop' = [loop EXCEPT ![c] = to], to \notin {"none", "closed"}, Moved(c),
           to \in Working => msg'[c] = Head(up[c]),
           to = "finish" => type = "job_result",
           \A j \in Job \ Begun : held'[j] = held[j]
    PROVE  /\ Onward /\ Begun' = Begun /\ WayInv' /\ FrameInv' /\ EndInv' /\ HandInv'
           /\ StatusKept /\ Head(up[c]) \in From(c) /\ Head(up[c]).type = type
           /\ loop[c] = "receive" /\ loop'[c] = to /\ row' = row
<1>1. /\ up' = [up EXCEPT ![c] = Tail(up[c])] /\ UNCHANGED ExceptUp /\ row' = row
      /\ loop[c] = "receive" /\ up[c] # <<>> /\ Head(up[c]).type = type
  BY DEF Receive, Taken
<1>2. Head(up[c]) \in From(c) /\ Tail(up[c]) \in Seq(From(c))
  BY <1>1, SeqParts DEF OutInv, WayInv
<1>3. Onward /\ Begun' = Begun /\ WayInv' /\ FrameInv' /\ EndInv'
  BY <1>1, <1>2, SideKept
<1>4. loop'[c] = to
  BY DEF Inv, ServerTypeOK
<1>5. HandInv'
  <2>1. loop'[c] \in Working => msg'[c] \in From(c)'
    BY <1>2, <1>3, <1>4, FromOnward
  <2>2. loop'[c] = "finish" => msg'[c].type = "job_result"
    BY <1>1, <1>4 DEF Working
  <2>3. \A j \in Job \ Begun' : held'[j] = <<>>
    BY <1>3 DEF OutInv, HandInv
  <2> QED
    BY <1>3, <2>1, <2>2, <2>3, HandMoves DEF OutInv
<1> QED
  BY <1>1, <1>2, <1>3, <1>4, <1>5, RowsStay

\* A message without output goes, the chains stay.
LEMMA TakenAside ==
    ASSUME Inv, OutInv, NEW c \in Conn, NEW type, Receive(c, type),
           NEW j \in Begun, ~IsOutput(Head(up[c]), j), NEW m \in Nat, Flows(j, m)
    PROVE  Flows(j, m)'
<1>1. UNCHANGED ExceptUp /\ up[c] # <<>> /\ Taken(c)
  BY DEF Receive
<1>2. PICK more \in {0, 1} : Flows(j, m + more)' /\ more = 0
  BY <1>1, FlowsTaken
<1>3. m + more = m
  BY <1>2
<1> QED
  BY <1>2, <1>3

LEMMA TakenQuietly ==
    ASSUME Inv, OutInv, Inv', NEW c \in Conn, NEW type, Receive(c, type),
           type \notin {"job_output", "job_result"}, UNCHANGED held,
           NEW to \in {"receive", "mark"}, loop' = [loop EXCEPT ![c] = to], Moved(c),
           to \in Working => msg'[c] = Head(up[c])
    PROVE  OutInv'
<1>1. /\ Onward /\ Begun' = Begun /\ WayInv' /\ FrameInv' /\ EndInv' /\ HandInv'
      /\ StatusKept /\ Head(up[c]).type = type
      /\ loop[c] = "receive" /\ loop'[c] = to /\ row' = row
  BY TakenKept
<1>2. ASSUME NEW j \in Begun, Known(j)
      PROVE  ChainOf(j)'
  <2>1. ~IsOutput(Head(up[c]), j)
    BY <1>1 DEF IsOutput
  <2>2. \A m \in Nat : Flows(j, m) => Flows(j, m)'
    BY <2>1, TakenAside
  <2>3. over'[j] = over[j] /\ over[j] \in Conn
    BY <1>1, PipeTyped DEF Onward, Inv, OutInv
  <2>4. /\ Pending(j)' <=> Pending(j)
        /\ Pending(j) => clean'[over[j]] = clean[over[j]]
        /\ Ending(j)' => Ending(j)
    <3>1. CASE over[j] = c
      BY <1>1, <2>3, <3>1 DEF Pending, Ending
    <3>2. CASE over[j] # c
      BY <2>3, <3>2 DEF Moved, Pending, Ending
    <3> QED
      BY <3>1, <3>2
  <2> QED
    BY <1>1, <1>2, <2>2, <2>4, ChainStill
<1>3. ChainInv'
  BY <1>1, <1>2, ChainsKept
<1>4. UpdateInv' /\ PrefixInv' /\ DoneInv'
  BY <1>1, RowsKept
<1> QED
  BY <1>1, <1>3, <1>4 DEF OutInv

LEMMA JobStartedOut ==
    ASSUME Inv, Inv', OutInv, NEW c \in Conn, JobStarted(c)
    PROVE  OutInv'
<1>1. /\ Receive(c, "job_started") /\ UNCHANGED <<held, clean, current>>
      /\ loop' = [loop EXCEPT ![c] = "mark"] /\ msg' = [msg EXCEPT ![c] = Head(up[c])]
  BY DEF JobStarted, Receive, Handle, LoopTo
<1>2. Moved(c) /\ msg'[c] = Head(up[c])
  BY <1>1 DEF Moved, Inv, ServerTypeOK
<1> QED
  BY <1>1, <1>2, TakenQuietly

LEMMA OtherMessageOut ==
    ASSUME Inv, Inv', OutInv, NEW c \in Conn, OtherMessage(c)
    PROVE  OutInv'
<1>1. PICK type \in {"patch_report", "agent_logs"} : Receive(c, type)
  BY DEF OtherMessage
<1>2. UNCHANGED <<held, loop, msg, clean, current>> /\ loop[c] = "receive"
  BY <1>1 DEF OtherMessage, Receive
<1>3. loop' = [loop EXCEPT ![c] = "receive"] /\ Moved(c) /\ "receive" \notin Working
  BY SMTT(30), <1>2 DEF Moved, Inv, ServerTypeOK, Working
<1> QED
  BY <1>1, <1>2, <1>3, TakenQuietly

\* The filter holds the piece back, or gives it to the loop with what it held.
LEMMA JobOutputOut ==
    ASSUME Inv, Inv', OutInv, NEW c \in Conn, JobOutput(c)
    PROVE  OutInv'
<1>1. Receive(c, "job_output") /\ UNCHANGED current
  BY DEF JobOutput, Receive
<1>2. PICK h \in From(c) : h = Head(up[c]) /\ h.type = "job_output"
  BY <1>1, SeqParts DEF Receive, OutInv, WayInv
<1>3. PICK i \in Begun : i = h.job /\ over[i] = c
  BY <1>2 DEF From, Reports, JobReport
<1>4. i \in Job /\ held[i] \in Seq(Piece)
  BY DEF Begun, Inv, ServerTypeOK
<1>5. \A j \in Begun : IsOutput(Head(up[c]), j) <=> i = j
  BY <1>2, <1>3 DEF IsOutput
<1>6. UNCHANGED ExceptUp /\ up[c] # <<>> /\ Taken(c) /\ loop[c] = "receive"
  BY <1>1 DEF Receive
\* What the chain of i becomes.
<1>7. ASSUME Known(i)
      PROVE  \E k, m \in Nat : /\ k <= m /\ Flows(i, m + 1)' /\ row[i].output = Capped(Written(k))
                               /\ Append(held[i], h.chunk) = Pieces(k, m + 1)
  <2>1. PICK k, l, m \in Nat : Chain(i, k, l, m)
    BY <1>7 DEF OutInv, ChainInv, ChainOf
  <2>2. PICK more \in {0, 1} : Flows(i, m + more)' /\ more = 1 /\ h.chunk = m + 1
    BY <1>2, <1>5, <1>6, <2>1, FlowsTaken DEF Chain
  <2>3. ~Pending(i)
    BY <1>3, <1>6 DEF Pending
  <2>4. k = l /\ l <= m /\ held[i] = Pieces(l, m) /\ row[i].output = Capped(Written(k))
    BY <2>1, <2>3 DEF Chain
  <2>5. Append(held[i], h.chunk) = Pieces(k, m + 1)
    BY <2>2, <2>4, NextPiece
  <2> QED
    BY <2>2, <2>4, <2>5
<1>8. CASE held' = [held EXCEPT ![i] = Append(held[i], h.chunk)] /\ UNCHANGED <<loop, msg, clean>>
  <2>1. loop' = [loop EXCEPT ![c] = "receive"] /\ Moved(c) /\ "receive" \notin Working
    BY <1>1, <1>6, <1>8 DEF Moved, Inv, ServerTypeOK, Working
  <2>2. /\ \A j \in Job : j # i => held'[j] = held[j]
        /\ held'[i] = Append(held[i], h.chunk)
    BY <1>4, <1>8 DEF Inv, ServerTypeOK
  <2>3. /\ Onward /\ Begun' = Begun /\ WayInv' /\ FrameInv' /\ EndInv' /\ HandInv'
        /\ StatusKept /\ row' = row
    <3>1. \A j \in Job \ Begun : held'[j] = held[j]
      BY <1>3, <2>2
    <3>2. "receive" \notin {"none", "closed"} /\ "receive" # "finish"
      OBVIOUS
    <3>3. "receive" \in Working => msg'[c] = Head(up[c])
      BY <2>1
    <3> QED
      BY <1>1, <2>1, <3>1, <3>2, <3>3, TakenKept
  <2>4. over'[i] = c /\ ~Pending(i)' /\ ~Ending(i)'
    BY <1>3, <1>6, <1>8, <2>3 DEF Onward, Pending, Ending
  <2>5. ASSUME Known(i)
        PROVE  ChainOf(i)'
    <3>1. PICK k, m \in Nat : /\ k <= m /\ Flows(i, m + 1)' /\ row[i].output = Capped(Written(k))
                              /\ Append(held[i], h.chunk) = Pieces(k, m + 1)
      BY <1>7, <2>5
    <3>2. m + 1 \in Nat /\ k <= m + 1 /\ held'[i] = Pieces(k, m + 1)
      BY <2>2, <3>1
    <3>3. Chain(i, k, k, m + 1)'
      BY <2>3, <2>4, <3>1, <3>2 DEF Chain
    <3> QED
      BY <3>2, <3>3 DEF ChainOf
  <2>6. ASSUME NEW j \in Begun, j # i, Known(j)
        PROVE  ChainOf(j)'
    <3>1. \A m \in Nat : Flows(j, m) => Flows(j, m)'
      BY <1>1, <1>5, <2>6, TakenAside
    <3>2. over'[j] = over[j] /\ j \in Job
      BY <2>3 DEF Onward, Begun
    <3>3. /\ Pending(j)' <=> Pending(j)
          /\ Pending(j) => clean'[over[j]] = clean[over[j]]
          /\ Ending(j)' => Ending(j)
      BY <1>8, <3>2 DEF Pending, Ending
    <3> QED
      BY <2>2, <2>3, <2>6, <3>1, <3>2, <3>3, ChainStill
  <2>7. ChainInv'
    BY <1>6, <2>1, <2>3, <2>5, <2>6, ChainsKept
  <2>8. UpdateInv' /\ PrefixInv' /\ DoneInv'
    BY <1>6, <1>8, <2>1, <2>3, RowsKept
  <2> QED
    BY <2>3, <2>7, <2>8 DEF OutInv
<1>9. CASE /\ held' = [held EXCEPT ![i] = <<>>]
           /\ clean' = [clean EXCEPT ![c] = Append(held[i], h.chunk)]
           /\ Handle(c, "append")
  <2>1. /\ loop' = [loop EXCEPT ![c] = "append"] /\ Moved(c)
        /\ msg'[c] = h /\ clean'[c] = Append(held[i], h.chunk)
    BY <1>1, <1>2, <1>9 DEF Moved, Inv, ServerTypeOK, Handle, LoopTo
  <2>2. /\ \A j \in Job : j # i => held'[j] = held[j]
        /\ held'[i] = <<>>
    BY <1>4, <1>9 DEF Inv, ServerTypeOK
  <2>3. /\ Onward /\ Begun' = Begun /\ WayInv' /\ FrameInv' /\ EndInv' /\ HandInv'
        /\ StatusKept /\ row' = row /\ loop'[c] = "append"
    <3>1. \A j \in Job \ Begun : held'[j] = held[j]
      BY <1>3, <2>2
    <3> QED
      BY ZenonT(30), <1>1, <1>2, <2>1, <3>1, TakenKept
  <2>4. over'[i] = c /\ Pending(i)' /\ ~Ending(i)'
    BY <1>2, <1>3, <2>1, <2>3 DEF Onward, Pending, Ending
  <2>5. ASSUME Known(i)
        PROVE  ChainOf(i)'
    <3>1. PICK k, m \in Nat : /\ k <= m /\ Flows(i, m + 1)' /\ row[i].output = Capped(Written(k))
                              /\ Append(held[i], h.chunk) = Pieces(k, m + 1)
      BY <1>7, <2>5
    <3>2. m + 1 \in Nat /\ k <= m + 1 /\ held'[i] = Pieces(m + 1, m + 1)
      BY <2>2, <3>1, NoPieces
    <3>3. clean'[over'[i]] = Pieces(k, m + 1)
      BY <2>1, <2>4, <3>1
    <3>4. Chain(i, k, m + 1, m + 1)'
      BY <2>3, <2>4, <3>1, <3>2, <3>3 DEF Chain
    <3> QED
      BY <3>2, <3>4 DEF ChainOf
  <2>6. ASSUME NEW j \in Begun, j # i, Known(j)
        PROVE  ChainOf(j)'
    <3>1. \A m \in Nat : Flows(j, m) => Flows(j, m)'
      BY <1>1, <1>5, <2>6, TakenAside
    <3>2. Aside(j, c)
      BY <1>3, <1>2, <1>6, <2>1, <2>6 DEF Aside, Working
    <3> QED
      BY <2>1, <2>2, <2>3, <2>6, <3>1, <3>2, ChainAside DEF Begun
  <2>7. ChainInv'
    BY <1>6, <2>1, <2>3, <2>5, <2>6, ChainsKept
  <2>8. UpdateInv' /\ PrefixInv' /\ DoneInv'
    BY <2>1, <2>3, RowsKept
  <2> QED
    BY <2>3, <2>7, <2>8 DEF OutInv
<1> QED
  <2>1. \/ /\ held' = [held EXCEPT ![Head(up[c]).job] = Append(held[Head(up[c]).job], Head(up[c]).chunk)]
           /\ UNCHANGED <<loop, msg, clean>>
        \/ /\ held' = [held EXCEPT ![Head(up[c]).job] = <<>>]
           /\ clean' = [clean EXCEPT ![c] = Append(held[Head(up[c]).job], Head(up[c]).chunk)]
           /\ Handle(c, "append")
    BY Zenon DEF JobOutput
  <2>2. i = Head(up[c]).job /\ h.chunk = Head(up[c]).chunk
    BY <1>2, <1>3
  <2> QED
    BY <1>8, <1>9, <2>1, <2>2

\* When the result has come everything has, and the filter gives it all.
LEMMA JobResultOut ==
    ASSUME Inv, Inv', OutInv, NEW c \in Conn, JobResult(c)
    PROVE  OutInv'
<1>1. Receive(c, "job_result") /\ UNCHANGED current
  BY DEF JobResult, Receive
<1>2. PICK h \in From(c) : h = Head(up[c]) /\ h.type = "job_result"
  BY <1>1, SeqParts DEF Receive, OutInv, WayInv
<1>3. PICK i \in Begun : i = h.job /\ over[i] = c
  BY <1>2 DEF From, Reports, JobReport
<1>4. i \in Job /\ held[i] \in Seq(Piece)
  BY DEF Begun, Inv, ServerTypeOK
<1>5. \A j \in Begun : ~IsOutput(Head(up[c]), j) /\ (IsResult(Head(up[c]), j) <=> i = j)
  BY <1>2, <1>3 DEF IsOutput, IsResult
<1>6. UNCHANGED ExceptUp /\ up[c] # <<>> /\ Taken(c) /\ loop[c] = "receive"
  BY <1>1 DEF Receive
<1>7. PICK to \in {"finish", "append"} : to = IF held[i] = <<>> THEN "finish" ELSE "append"
  OBVIOUS
<1>8. /\ held' = [held EXCEPT ![i] = <<>>]
      /\ clean' = [clean EXCEPT ![c] = held[i]]
      /\ loop' = [loop EXCEPT ![c] = to] /\ msg' = [msg EXCEPT ![c] = h]
  BY <1>2, <1>3, <1>7 DEF JobResult, Handle, LoopTo
<1>9. Moved(c) /\ msg'[c] = h /\ clean'[c] = held[i]
  BY <1>1, <1>8 DEF Moved, Inv, ServerTypeOK
<1>10. (\A j \in Job : j # i => held'[j] = held[j]) /\ held'[i] = <<>>
  BY <1>4, <1>8 DEF Inv, ServerTypeOK
<1>11. /\ Onward /\ Begun' = Begun /\ WayInv' /\ FrameInv' /\ EndInv' /\ HandInv'
       /\ StatusKept /\ row' = row /\ loop'[c] = to
  <2>1. \A j \in Job \ Begun : held'[j] = held[j]
    BY <1>3, <1>10
  <2>2. to \notin {"none", "closed"} /\ msg'[c] = Head(up[c]) /\ loop' = [loop EXCEPT ![c] = to]
    BY <1>2, <1>7, <1>8, <1>9
  <2> QED
    BY <1>1, <1>9, <2>1, <2>2, TakenKept
<1>12. over'[i] = c /\ (Pending(i)' <=> to = "append")
  BY <1>3, <1>9, <1>11, <1>2 DEF Onward, Pending
<1>13. ASSUME Known(i)
       PROVE  ChainOf(i)'
  <2>1. PICK k, l, m \in Nat : Chain(i, k, l, m)
    BY <1>13 DEF OutInv, ChainInv, ChainOf
  <2>2. PICK more \in {0, 1} : Flows(i, m + more)' /\ more = 0 /\ m = wrote[i]
    BY <1>5, <1>6, <2>1, FlowsTaken DEF Chain
  <2>3. ~Pending(i)
    BY <1>3, <1>6 DEF Pending
  <2>4. k = l /\ k <= m /\ held[i] = Pieces(k, m) /\ row[i].output = Capped(Written(k))
    BY <2>1, <2>3 DEF Chain
  <2>5. wrote'[i] = wrote[i] /\ m + more = m
    BY <1>6, <2>2 DEF ExceptUp, jobVars
  <2>6. held'[i] = Pieces(m, m)
    BY <1>10, NoPieces
  <2>7. IF Pending(i)' THEN clean'[over'[i]] = Pieces(k, m) ELSE k = m
    <3>1. CASE to = "append"
      BY <1>9, <1>12, <2>4, <3>1
    <3>2. CASE to # "append"
      <4>1. held[i] = <<>>
        BY <1>7, <3>2
      <4>2. Len(Pieces(k, m)) = m - k
        BY <2>4, PiecesAre
      <4>3. k = m
        BY <2>4, <4>1, <4>2
      <4> QED
        BY <1>12, <3>2, <4>3
    <3> QED
      BY <3>1, <3>2
  <2>8. Chain(i, k, m, m)'
    BY <1>11, <2>2, <2>4, <2>5, <2>6, <2>7 DEF Chain
  <2> QED
    BY <2>8 DEF ChainOf
<1>14. ASSUME NEW j \in Begun, j # i, Known(j)
       PROVE  ChainOf(j)'
  <2>1. \A m \in Nat : Flows(j, m) => Flows(j, m)'
    BY <1>1, <1>5, TakenAside
  <2>2. Aside(j, c)
    BY <1>2, <1>3, <1>6, <1>9, <1>14 DEF Aside, Working
  <2> QED
    BY <1>9, <1>10, <1>11, <1>14, <2>1, <2>2, ChainAside DEF Begun
<1>15. ChainInv'
  BY <1>6, <1>9, <1>11, <1>13, <1>14, ChainsKept
<1>16. UpdateInv' /\ PrefixInv' /\ DoneInv'
  BY <1>9, <1>11, RowsKept
<1> QED
  BY <1>11, <1>15, <1>16 DEF OutInv

\* A step of the loop with nothing in hand that is not stored yet.
LEMMA LoopRests ==
    ASSUME Inv, Inv', OutInv, NEW c \in Conn, loop[c] \in {"mark", "publish", "finish", "done"},
           UNCHANGED <<agentVars, held>>, StatusKept, Moved(c),
           NEW to \in {"receive", "finish", "done"}, LoopTo(c, to),
           to \in Working => msg'[c] = msg[c],
           to = "finish" => msg[c].type = "job_result" /\ loop[c] = "publish",
           \A j \in Job : row'[j].output = row[j].output,
           \A j \in Job : row'[j].status = "done" => row[j].status = "done" \/ DoneOf(j)'
    PROVE  OutInv'
<1>1. loop[c] \in Working /\ loop[c] \notin {"append", "update", "closed"}
  BY DEF Working
<1>2. /\ Onward /\ Begun' = Begun /\ WayInv' /\ FrameInv' /\ EndInv' /\ HandInv'
      /\ \A j \in Begun : \A m \in Nat : Flows(j, m) => Flows(j, m)'
  BY <1>1, LoopWorks
<1>3. loop'[c] = to
  BY DEF LoopTo, Inv, ServerTypeOK
<1>4. ASSUME NEW j \in Begun, Known(j)
      PROVE  ChainOf(j)'
  <2>1. over'[j] = over[j] /\ over[j] \in Conn /\ j \in Job
    BY <1>2, PipeTyped DEF Onward, Inv, OutInv
  <2>2. /\ Pending(j)' <=> Pending(j)
        /\ Pending(j) => clean'[over[j]] = clean[over[j]]
        /\ Ending(j)' => Ending(j)
    <3>1. CASE over[j] = c
      <4>1. ~Pending(j) /\ ~Pending(j)'
        BY <1>1, <1>3, <2>1, <3>1 DEF Pending
      <4>2. ASSUME Ending(j)'
            PROVE  Ending(j)
        <5>1. to = "finish" /\ msg'[c].job = j
          BY <1>3, <2>1, <3>1, <4>2 DEF Ending
        <5>2. msg[c].job = j /\ msg[c].type = "job_result" /\ loop[c] = "publish"
          BY <5>1 DEF Working
        <5> QED
          BY <3>1, <5>2 DEF Ending
      <4> QED
        BY <4>1, <4>2
    <3>2. CASE over[j] # c
      BY <2>1, <3>2 DEF Moved, Pending, Ending
    <3> QED
      BY <3>1, <3>2
  <2> QED
    BY <1>2, <1>4, <2>1, <2>2, ChainStill
<1>5. ChainInv'
  BY <1>1, <1>2, <1>4, ChainsKept
<1>6. UpdateInv' /\ PrefixInv' /\ DoneInv'
  BY <1>2, <1>3, RowsKept
<1> QED
  BY <1>2, <1>5, <1>6 DEF OutInv

\* What Idle does, seen from the loop it is done to.
LEMMA IdleMoves ==
    ASSUME Inv, NEW c \in Conn, NEW to \in {"receive", "finish"}, Idle(c, to),
           \A d \in Conn \ {c} : current'[d] = current[d]
    PROVE  /\ Moved(c) /\ LoopTo(c, to) /\ loop'[c] = to /\ clean'[c] = <<>>
           /\ to \in Working => msg'[c] = msg[c]
<1>1. "receive" \notin Working
  BY DEF Working
<1> QED
  BY <1>1 DEF Idle, LoopTo, Moved, Inv, ServerTypeOK

LEMMA MarkRunningOut ==
    ASSUME Inv, Inv', OutInv, NEW c \in Conn, MarkRunning(c)
    PROVE  OutInv'
<1>1. loop[c] = "mark" /\ UNCHANGED <<agentVars, held, current>> /\ Idle(c, "receive")
  BY DEF MarkRunning
<1>2. PICK j \in Job : j = msg[c].job
  BY <1>1, AtWork DEF Working
<1>3. row[j] \in Row /\ row[j].status \in JobState /\ row[j].status # "none"
  BY <1>1, <1>2, AtWork DEF Inv, ServerTypeOK, Row, Working
<1>4. PICK s : s = AfterStarted(row[j].status)
  OBVIOUS
<1>5. row' = [row EXCEPT ![j].status = s] /\ s \in JobState /\ s # "none" /\ (Over(j) => s \in TerminalJob)
  BY <1>2, <1>3, <1>4, StatusTypes DEF MarkRunning, SetStatus, Over
<1>6. StatusKept /\ row'[j].status = s /\ \A i \in Job \ {j} : row'[i] = row[i]
  BY <1>5, StatusWritten DEF SetStatus
<1>7. \A i \in Job : row'[i].output = row[i].output
  BY <1>3, <1>5 DEF Inv, ServerTypeOK, Row
<1>8. s = "done" => row[j].status = "done"
  BY <1>4 DEF AfterStarted
<1>9. \A i \in Job : row'[i].status = "done" => row[i].status = "done"
  BY <1>6, <1>8
<1>10. Moved(c) /\ LoopTo(c, "receive") /\ "receive" \notin Working
  BY <1>1, IdleMoves DEF Working
<1> QED
  BY <1>1, <1>6, <1>7, <1>9, <1>10, LoopRests

LEMMA PublishOutputOut ==
    ASSUME Inv, Inv', OutInv, NEW c \in Conn, PublishOutput(c)
    PROVE  OutInv'
<1>1. loop[c] = "publish" /\ UNCHANGED <<agentVars, row, held, current>> /\ Idle(c, AfterAppend(c))
  BY DEF PublishOutput
<1>2. PICK to \in {"receive", "finish"} : /\ to = AfterAppend(c)
                                          /\ to = "finish" => msg[c].type = "job_result"
  BY DEF AfterAppend
<1>3. Moved(c) /\ LoopTo(c, to) /\ (to \in Working => msg'[c] = msg[c])
  BY <1>1, <1>2, IdleMoves
<1>4. StatusKept
  BY <1>1, RowsStay
<1> QED
  BY <1>1, <1>2, <1>3, <1>4, LoopRests

LEMMA PublishDoneOut ==
    ASSUME Inv, Inv', OutInv, NEW c \in Conn, PublishDone(c)
    PROVE  OutInv'
<1>1. loop[c] = "done" /\ UNCHANGED <<agentVars, row, held, current>> /\ Idle(c, "receive")
  BY DEF PublishDone
<1>2. Moved(c) /\ LoopTo(c, "receive") /\ "receive" \notin Working
  BY <1>1, IdleMoves DEF Working
<1>3. StatusKept
  BY <1>1, RowsStay
<1> QED
  BY <1>1, <1>2, <1>3, LoopRests

\* The result of a job that is not over is written when all it wrote is stored.
LEMMA FinishJobOut ==
    ASSUME Inv, Inv', OutInv, NEW c \in Conn, FinishJob(c)
    PROVE  OutInv'
<1>1. /\ loop[c] = "finish" /\ loop[c] \in Working /\ LoopTo(c, "done")
      /\ UNCHANGED <<agentVars, held, msg, clean, current>>
  BY DEF FinishJob, Working
<1>2. PICK j \in Begun : j = msg[c].job /\ over[j] = c
  BY <1>1, HandJob DEF Inv, OutInv
<1>3. /\ j \in Job /\ msg[c].type = "job_result"
      /\ at[j] \in {"rescan", "end"} /\ msg[c].status = result[j]
  BY <1>1, <1>2, HandJob DEF Inv, OutInv, HandInv, Begun
<1>4. row[j] \in Row /\ row[j].status \in JobState
  BY <1>3 DEF Inv, ServerTypeOK, Row
<1>5. PICK s : s = AfterResult(row[j].status, result[j])
  OBVIOUS
<1>6. /\ row' = [row EXCEPT ![j].status = s] /\ s \in JobState /\ s # "none"
      /\ s \in TerminalJob
  BY <1>2, <1>3, <1>4, <1>5, StatusTypes, EndsAreNotNone DEF FinishJob, SetStatus
<1>7. StatusKept /\ row'[j].status = s /\ \A i \in Job \ {j} : row'[i] = row[i]
  BY <1>3, <1>6, StatusWritten DEF SetStatus
<1>8. \A i \in Job : row'[i].output = row[i].output
  BY <1>4, <1>6 DEF Inv, ServerTypeOK, Row
<1>9. loop'[c] = "done" /\ Moved(c) /\ \A d \in Conn : d # c => loop'[d] = loop[d]
  BY <1>1 DEF LoopTo, Moved, Inv, ServerTypeOK
<1>10. ASSUME s = "done", row[j].status # "done"
       PROVE  DoneOf(j)'
  <2>1. ~Over(j) /\ result[j] = "done"
    BY <1>5, <1>10 DEF AfterResult, Over, TerminalJob
  <2>2. Known(j) /\ Ending(j) /\ ~Pending(j)
    BY <1>1, <1>2, <1>3, <2>1 DEF Known, Ending, Pending
  <2>3. PICK k, l, m \in Nat : Chain(j, k, l, m)
    BY <2>2 DEF OutInv, ChainInv, ChainOf
  <2>4. row[j].output = Capped(Written(k)) /\ k = l /\ l = wrote[j]
    BY <2>2, <2>3 DEF Chain
  <2>5. row'[j].output = Capped(Written(wrote[j]))
    BY <1>3, <1>8, <2>4
  <2>6. UNCHANGED <<at, result, wrote>>
    BY <1>1 DEF agentVars
  <2>7. ASSUME NEW d \in Conn, loop'[d] = "update", msg'[d].job = j
        PROVE  FALSE
    <3>1. d # c /\ loop[d] = "update" /\ msg[d].job = j
      BY <1>1, <1>9, <2>7
    <3>2. over[j] = d
      BY <3>1, HandJob DEF Inv, OutInv, Working
    <3> QED
      BY <1>2, <3>1, <3>2
  <2> QED
    BY <1>3, <2>1, <2>5, <2>6, <2>7 DEF DoneOf
<1>11. \A i \in Job : row'[i].status = "done" => row[i].status = "done" \/ DoneOf(i)'
  BY <1>7, <1>10
<1> QED
  BY <1>1, <1>7, <1>8, <1>9, <1>11, LoopRests

\* append_output drops what comes when the job is over, or the row is full.
LEMMA DropOutputOut ==
    ASSUME Inv, Inv', OutInv, NEW c \in Conn, loop[c] = "append",
           UNCHANGED <<agentVars, row, held, current>>, Idle(c, AfterAppend(c)),
           Over(msg[c].job) \/ Len(row[msg[c].job].output) >= MaxOutput
    PROVE  OutInv'
<1>1. PICK to \in {"receive", "finish"} : /\ to = AfterAppend(c)
                                          /\ to = "finish" => msg[c].type = "job_result"
  BY DEF AfterAppend
<1>2. /\ Moved(c) /\ LoopTo(c, to) /\ loop'[c] = to
      /\ (to \in Working => msg'[c] = msg[c]) /\ StatusKept /\ loop[c] \in Working
  BY <1>1, IdleMoves, RowsStay DEF Working
<1>3. /\ Onward /\ Begun' = Begun /\ WayInv' /\ FrameInv' /\ EndInv' /\ HandInv'
      /\ \A j \in Begun : \A m \in Nat : Flows(j, m) => Flows(j, m)'
  BY <1>1, <1>2, LoopWorks
<1>4. PICK i \in Begun : i = msg[c].job /\ over[i] = c
  BY <1>2, HandJob DEF Inv, OutInv
<1>5. over'[i] = c
  BY <1>3, <1>4 DEF Onward
<1>6. ASSUME Known(i)
      PROVE  ChainOf(i)'
  <2>1. PICK k, l, m \in Nat : Chain(i, k, l, m)
    BY <1>6 DEF OutInv, ChainInv, ChainOf
  <2>2. /\ k <= l /\ l <= m /\ row[i].output = Capped(Written(k)) /\ held[i] = Pieces(l, m)
        /\ Flows(i, m)'
    BY <1>3, <2>1 DEF Chain
  <2>3. Len(Capped(Written(k))) >= MaxOutput
    BY <1>4, <1>6, <2>2 DEF Known
  <2>4. Capped(Written(k)) = Capped(Written(l))
    BY <2>2, <2>3, CappedFull
  <2>5. ~Pending(i)'
    BY <1>2, <1>5 DEF Pending
  <2>6. ASSUME Ending(i)'
        PROVE  l = wrote'[i]
    <3>1. to = "finish"
      BY <1>2, <1>5, <2>6 DEF Ending
    <3>2. Ending(i)
      BY <1>1, <1>4, <3>1 DEF Ending
    <3>3. wrote' = wrote
      BY DEF agentVars
    <3> QED
      BY <2>1, <3>2, <3>3 DEF Chain
  <2>7. row'[i].output = Capped(Written(l)) /\ held'[i] = Pieces(l, m)
    BY <2>2, <2>4
  <2>8. Chain(i, l, l, m)'
    BY <2>2, <2>5, <2>6, <2>7 DEF Chain
  <2> QED
    BY <2>8 DEF ChainOf
<1>7. ASSUME NEW j \in Begun, j # i
      PROVE  Aside(j, c)
  BY <1>2, <1>4, <1>7 DEF Aside
<1>8. ChainInv'
  BY <1>2, <1>3, <1>6, <1>7, ChainsKept DEF Working
<1>9. UpdateInv' /\ PrefixInv' /\ DoneInv'
  BY <1>2, <1>3, RowsKept
<1> QED
  BY <1>3, <1>8, <1>9 DEF OutInv

\* Otherwise the loop goes on from what it has read.
LEMMA TakeOutputOut ==
    ASSUME Inv, Inv', OutInv, NEW c \in Conn, loop[c] = "append",
           UNCHANGED <<agentVars, row, held, msg, clean>>, LoopTo(c, "update"),
           current' = [current EXCEPT ![c] = row[msg[c].job].output], ~Over(msg[c].job)
    PROVE  OutInv'
<1>1. /\ Moved(c) /\ loop'[c] = "update" /\ current'[c] = row[msg[c].job].output
      /\ StatusKept /\ loop[c] \in Working
  BY RowsStay DEF Moved, LoopTo, Inv, ServerTypeOK, Working
<1>2. /\ Onward /\ Begun' = Begun /\ WayInv' /\ FrameInv' /\ EndInv' /\ HandInv'
      /\ \A j \in Begun : \A m \in Nat : Flows(j, m) => Flows(j, m)'
  BY <1>1, LoopWorks
<1>3. PICK i \in Begun : i = msg[c].job /\ over[i] = c
  BY <1>1, HandJob DEF Inv, OutInv
<1>4. Known(i) /\ Pending(i)
  BY <1>3 DEF Known, Pending
<1>5. over'[i] = c /\ Pending(i)' /\ (Ending(i)' => Ending(i))
  BY <1>1, <1>2, <1>3 DEF Onward, Pending, Ending
<1>6. UNCHANGED wrote
  BY DEF agentVars
<1>7. ChainOf(i)'
  BY <1>2, <1>3, <1>4, <1>5, ChainStill
<1>8. ASSUME NEW j \in Begun, j # i
      PROVE  Aside(j, c)
  BY <1>3, <1>8 DEF Aside
<1>9. ChainInv'
  BY <1>1, <1>2, <1>7, <1>8, ChainsKept DEF Working
<1>10. UpdateOf(c)'
  <2>1. PICK k, l, m \in Nat : Chain(i, k, l, m)
    BY <1>4 DEF OutInv, ChainInv, ChainOf
  <2>2. /\ k <= l /\ l <= m /\ row[i].output = Capped(Written(k)) /\ clean[c] = Pieces(k, l)
        /\ Flows(i, m)
    BY <1>3, <1>4, <2>1 DEF Chain
  <2>3. l <= wrote[i]
    <3>1. PICK n \in Nat : n <= wrote[i] /\ Run(Pipe(i), i, m, n, wrote[i])
      BY <2>2 DEF Flows
    <3>2. m <= n
      BY <3>1, PipeTyped, RunBounds DEF Inv, OutInv
    <3>3. wrote[i] \in Nat
      BY PipeTyped DEF Inv, OutInv
    <3> QED
      BY <2>2, <3>1, <3>2, <3>3
  <2>4. /\ current'[c] = Capped(Written(k)) /\ clean'[c] = Pieces(k, l) /\ l <= wrote'[i]
        /\ row'[i].output = current'[c] /\ msg'[c].job = i
    BY <1>1, <1>3, <1>6, <2>2, <2>3
  <2> QED
    BY <2>2, <2>4 DEF UpdateOf
<1>11. UpdateInv' /\ PrefixInv' /\ DoneInv'
  <2>1. row[msg'[c].job].status # "done"
    BY DEF Over, TerminalJob
  <2> QED
    BY <1>1, <1>2, <1>10, <2>1, RowsKept
<1> QED
  BY <1>2, <1>9, <1>11 DEF OutInv

LEMMA ReadOutputOut ==
    ASSUME Inv, Inv', OutInv, NEW c \in Conn, ReadOutput(c)
    PROVE  OutInv'
<1>1. loop[c] = "append" /\ UNCHANGED <<agentVars, row, held>>
  BY DEF ReadOutput
<1>2. CASE Over(msg[c].job) \/ Len(row[msg[c].job].output) >= MaxOutput
  <2>1. Idle(c, AfterAppend(c)) /\ UNCHANGED current
    BY <1>2 DEF ReadOutput, Over
  <2> QED
    BY <1>1, <1>2, <2>1, DropOutputOut
<1>3. CASE ~(Over(msg[c].job) \/ Len(row[msg[c].job].output) >= MaxOutput)
  <2>1. /\ LoopTo(c, "update") /\ UNCHANGED <<msg, clean>>
        /\ current' = [current EXCEPT ![c] = row[msg[c].job].output]
    BY <1>3 DEF ReadOutput, Over
  <2> QED
    BY <1>1, <1>3, <2>1, TakeOutputOut
<1> QED
  BY <1>2, <1>3

\* What the loop had in hand continues what it had read.
LEMMA UpdateOutputOut ==
    ASSUME Inv, Inv', OutInv, NEW c \in Conn, UpdateOutput(c)
    PROVE  OutInv'
<1>1. /\ loop[c] = "update" /\ loop[c] \in Working /\ LoopTo(c, "publish")
      /\ UNCHANGED <<agentVars, held, msg, clean>> /\ current' = [current EXCEPT ![c] = <<>>]
  BY DEF UpdateOutput, Working
<1>2. Moved(c) /\ loop'[c] = "publish" /\ msg'[c] = msg[c]
  BY <1>1 DEF Moved, LoopTo, Inv, ServerTypeOK
<1>3. /\ Onward /\ Begun' = Begun /\ WayInv' /\ FrameInv' /\ EndInv' /\ HandInv'
      /\ \A j \in Begun : \A m \in Nat : Flows(j, m) => Flows(j, m)'
  BY <1>1, <1>2, LoopWorks
<1>4. PICK i \in Begun : i = msg[c].job /\ over[i] = c
  BY <1>1, HandJob DEF Inv, OutInv
<1>5. i \in Job /\ row[i] \in Row
  BY DEF Begun, Inv, ServerTypeOK
<1>6. PICK output : output = Capped(current[c] \o clean[c])
  OBVIOUS
<1>7. row' = [row EXCEPT ![i].output = output]
  BY <1>4, <1>6 DEF UpdateOutput
<1>8. /\ row'[i].output = output /\ row'[i].status = row[i].status
      /\ \A j \in Job : j # i => row'[j] = row[j]
  BY <1>5, <1>7 DEF Inv, ServerTypeOK, Row
<1>9. StatusKept
  BY <1>8 DEF StatusKept, Over
<1>10. PICK k, l \in Nat : /\ k <= l /\ l <= wrote[i]
                           /\ current[c] = Capped(Written(k)) /\ clean[c] = Pieces(k, l)
                           /\ row[i].output = current[c]
  BY <1>1, <1>4 DEF OutInv, UpdateInv, UpdateOf
<1>11. output = Capped(Written(l))
  BY <1>6, <1>10, CappedMore
<1>12. over'[i] = c /\ ~Pending(i)' /\ (Ending(i)' => Ending(i)) /\ Pending(i)
  BY <1>1, <1>2, <1>3, <1>4 DEF Onward, Pending, Ending
<1>13. UNCHANGED wrote
  BY <1>1 DEF agentVars
<1>14. ASSUME Known(i)
       PROVE  ChainOf(i)'
  <2>1. PICK p, q, m \in Nat : Chain(i, p, q, m)
    BY <1>14 DEF OutInv, ChainInv, ChainOf
  <2>2. /\ p <= q /\ q <= m /\ row[i].output = Capped(Written(p)) /\ clean[c] = Pieces(p, q)
        /\ held[i] = Pieces(q, m) /\ Flows(i, m)'
    BY <1>3, <1>4, <1>12, <2>1 DEF Chain
  <2>3. output = Capped(Written(q))
    BY <1>6, <1>10, <2>2, CappedMore
  <2>4. Ending(i)' => q = wrote'[i]
    BY <1>12, <1>13, <2>1 DEF Chain
  <2>5. row'[i].output = Capped(Written(q)) /\ held'[i] = Pieces(q, m)
    BY <1>1, <1>8, <2>2, <2>3
  <2>6. Chain(i, q, q, m)'
    BY <1>12, <2>2, <2>4, <2>5 DEF Chain
  <2> QED
    BY <2>6 DEF ChainOf
<1>15. ASSUME NEW j \in Begun, j # i
       PROVE  Aside(j, c)
  BY <1>2, <1>4, <1>15 DEF Aside
<1>16. ChainInv'
  <2>1. \A j \in Begun : j # i => row'[j].output = row[j].output /\ held'[j] = held[j]
    BY <1>1, <1>8 DEF Begun
  <2> QED
    BY <1>1, <1>2, <1>3, <1>9, <1>14, <1>15, <2>1, ChainsKept
<1>17. UpdateInv' /\ PrefixInv' /\ DoneInv'
  <2>1. PrefixOf(i)'
    <3>1. l <= wrote'[i] /\ row'[i].output = Capped(Written(l))
      BY <1>8, <1>10, <1>11, <1>13
    <3> QED
      BY <3>1 DEF PrefixOf
  <2>2. row[i].status # "done"
    BY <1>1, <1>4, <1>5 DEF OutInv, DoneInv, DoneOf
  <2>3. ASSUME NEW d \in Conn, loop'[d] = "update", d # c
        PROVE  msg'[d].job # i
    <3>1. loop[d] = "update" /\ msg'[d] = msg[d]
      BY <1>2, <2>3 DEF Moved
    <3>2. over[msg[d].job] = d
      BY <3>1, HandJob DEF Inv, OutInv, Working
    <3> QED
      BY <1>4, <2>3, <3>1, <3>2
  <2>4. \A j \in Job : row'[j].status = "done" => row[j].status = "done"
    BY <1>8
  <2>5. \A j \in Job : \/ row'[j].output = row[j].output
                       \/ /\ PrefixOf(j)' /\ row'[j].status # "done"
                          /\ \A d \in Conn : loop'[d] = "update" /\ d # c => msg'[d].job # j
    BY <1>8, <2>1, <2>2, <2>3
  <2> QED
    BY <1>2, <1>3, <1>9, <2>4, <2>5, RowsKept
<1> QED
  BY <1>3, <1>16, <1>17 DEF OutInv

\* A loop that ends takes what was left on its wire with it.
LEMMA LoopCloses ==
    ASSUME Inv, Inv', OutInv, NEW c \in Conn, loop[c] # "closed",
           loop' = [loop EXCEPT ![c] = "closed"], up' = [up EXCEPT ![c] = <<>>], Moved(c),
           UNCHANGED <<conn, serve, down, frame, outbox, jobVars, row, held>>,
           intact' \in BOOLEAN, IF c = conn THEN ~intact' ELSE intact' = intact
    PROVE  OutInv'
<1>1. loop'[c] = "closed" /\ "closed" \notin Working /\ StatusKept
  BY RowsStay DEF Inv, ServerTypeOK, Working
<1>2. Onward /\ Begun' = Begun /\ UNCHANGED <<at, over, wrote>>
  BY SameJobs DEF Inv, jobVars
<1>3. up'[c] = <<>> /\ \A d \in Conn : d # c => up'[d] = up[d]
  BY DEF Inv, AgentInv
<1>4. WayInv'
  <2>1. \A d \in Conn : up'[d] \in Seq(From(d))
    BY <1>3, EmptyWire DEF OutInv, WayInv
  <2>2. outbox' \in Seq(From(conn))
    BY DEF OutInv, WayInv
  <2> QED
    BY <2>1, <2>2, SameWay DEF OutInv
<1>5. FrameInv'
  BY <1>2 DEF OutInv, FrameInv
<1>6. EndInv'
  <2>1. \A d \in Conn : d # c => loop'[d] = loop[d]
    BY DEF Moved
  <2>2. ASSUME NEW d \in Conn
        PROVE  /\ loop'[d] = "closed" => up'[d] = <<>>
               /\ loop'[d] = "closed" /\ d = conn => ~intact'
               /\ d <= conn => loop'[d] # "none"
    <3>1. CASE d = c
      BY <1>1, <1>3, <3>1
    <3>2. CASE d # c
      BY <1>3, <2>1, <3>2 DEF OutInv, EndInv
    <3> QED
      BY <3>1, <3>2
  <2>3. serve = "away" => ~intact'
    BY DEF OutInv, EndInv
  <2> QED
    BY <2>2, <2>3 DEF EndInv
<1>7. HandInv'
  <2>1. \A j \in Job \ Begun' : held'[j] = <<>>
    BY <1>2 DEF OutInv, HandInv
  <2> QED
    BY <1>1, <1>2, <2>1, HandMoves DEF OutInv
<1>8. ASSUME NEW j \in Begun, Known(j)'
      PROVE  Aside(j, c) /\ \A m \in Nat : Flows(j, m) => Flows(j, m)'
  <2>1. over'[j] = over[j] /\ over[j] \in Conn
    BY <1>2, PipeTyped DEF Onward, Inv, OutInv
  <2>2. over[j] # c
    BY <1>1, <1>8, <2>1 DEF Known
  <2>3. up'[over[j]] = up[over[j]]
    BY <1>3, <2>1, <2>2
  <2>4. Pipe(j)' = Pipe(j) /\ wrote'[j] = wrote[j] /\ (Stands(j)' => Stands(j))
    BY <1>2, <2>1, <2>2, <2>3 DEF Pipe, Stands
  <2> QED
    BY <2>2, <2>4, FlowsSame DEF Aside
<1>9. ChainInv'
  BY <1>1, <1>2, <1>8, ChainsKept
<1>10. UpdateInv' /\ PrefixInv' /\ DoneInv'
  BY <1>1, <1>2, RowsKept
<1> QED
  BY <1>4, <1>5, <1>6, <1>7, <1>9, <1>10 DEF OutInv

LEMMA DisconnectOut ==
    ASSUME Inv, Inv', OutInv, NEW c \in Conn, Disconnect(c)
    PROVE  OutInv'
<1>1. /\ loop[c] # "closed" /\ loop' = [loop EXCEPT ![c] = "closed"]
      /\ up' = [up EXCEPT ![c] = <<>>] /\ UNCHANGED <<ExceptUp, row, held, msg, clean, current>>
      /\ c = conn => ~intact
  BY DEF Disconnect, LoopTo
<1>2. Moved(c) /\ UNCHANGED <<conn, serve, intact, down, frame, outbox, jobVars>>
  BY <1>1 DEF Moved, Inv, ServerTypeOK, ExceptUp
<1>3. intact' \in BOOLEAN /\ IF c = conn THEN ~intact' ELSE intact' = intact
  BY <1>1, <1>2 DEF Inv, AgentInv, AgentPlaces
<1> QED
  BY <1>1, <1>2, <1>3, LoopCloses

LEMMA LoopFailsOut ==
    ASSUME Inv, Inv', OutInv, NEW c \in Conn, LoopFails(c)
    PROVE  OutInv'
<1>1. /\ loop[c] # "closed" /\ loop' = [loop EXCEPT ![c] = "closed"]
      /\ up' = [up EXCEPT ![c] = <<>>] /\ UNCHANGED <<row, held>>
      /\ msg' = [msg EXCEPT ![c] = Logs] /\ clean' = [clean EXCEPT ![c] = <<>>]
      /\ current' = [current EXCEPT ![c] = <<>>]
      /\ IF c = conn THEN Dropped ELSE UNCHANGED ExceptUp
  BY DEF LoopFails, Idle, LoopTo
<1>2. Moved(c)
  BY <1>1 DEF Moved, Inv, ServerTypeOK
<1>3. UNCHANGED <<conn, serve, down, frame, outbox, jobVars>>
  BY <1>1 DEF Dropped, ExceptUp
<1>4. intact' \in BOOLEAN /\ IF c = conn THEN ~intact' ELSE intact' = intact
  BY <1>1 DEF Dropped, ExceptUp, Inv, AgentInv, AgentPlaces
<1> QED
  BY <1>1, <1>2, <1>3, <1>4, LoopCloses

\* After a restart of the server no piece comes any more.
LEMMA RestartOut ==
    ASSUME Inv, Inv', OutInv, Restart
    PROVE  OutInv'
<1>1. /\ ~intact' /\ up' = [d \in Conn |-> <<>>] /\ held' = [j \in Job |-> <<>>]
      /\ loop' = [d \in Conn |-> IF loop[d] = "none" THEN "none" ELSE "closed"]
      /\ UNCHANGED <<conn, serve, down, frame, outbox, jobVars, row>>
  BY DEF Restart, Dropped
<1>2. Onward /\ Begun' = Begun /\ UNCHANGED <<at, over, wrote>> /\ StatusKept
  BY <1>1, SameJobs, RowsStay DEF Inv, jobVars
<1>3. \A d \in Conn : loop'[d] \in {"none", "closed"} /\ up'[d] = <<>>
  BY <1>1
<1>4. {"none", "closed"} \cap Working = {}
  BY DEF Working
<1>5. WayInv'
  <2>1. \A d \in Conn : up'[d] \in Seq(From(d))
    BY <1>3, EmptyWire
  <2>2. outbox' \in Seq(From(conn))
    BY <1>1 DEF OutInv, WayInv
  <2> QED
    BY <1>1, <2>1, <2>2, SameWay DEF OutInv
<1>6. HandInv'
  BY <1>1, <1>3, <1>4 DEF HandInv
<1>7. FrameInv'
  BY <1>1, <1>2 DEF OutInv, FrameInv
<1>8. EndInv'
  BY <1>1, <1>3 DEF OutInv, EndInv
<1>9. ChainInv'
  <2>1. ASSUME NEW j \in Begun
        PROVE  ~Known(j)'
    <3>1. over[j] \in Conn /\ over[j] <= conn /\ over'[j] = over[j]
      BY <1>2, PipeTyped DEF Inv, OutInv, WayInv
    <3>2. loop[over[j]] # "none"
      BY <3>1 DEF OutInv, EndInv
    <3> QED
      BY <1>1, <3>1, <3>2 DEF Known
  <2> QED
    BY <1>2, <2>1 DEF ChainInv
<1>10. UpdateInv'
  BY <1>3 DEF UpdateInv
<1>11. PrefixInv'
  BY <1>1, <1>2, PrefixElse DEF PrefixInv
<1>12. DoneInv'
  <2>1. ASSUME NEW j \in Job, row'[j].status = "done"
        PROVE  DoneOf(j)'
    BY <1>1, <1>2, <1>3, <2>1, DoneElse
  <2> QED
    BY <2>1 DEF DoneInv
<1> QED
  BY <1>5, <1>6, <1>7, <1>8, <1>9, <1>10, <1>11, <1>12 DEF OutInv

\* A new connection carries nothing of the jobs there are.
LEMMA ConnectOut ==
    ASSUME Inv, Inv', OutInv, Connect
    PROVE  OutInv'
<1>1. /\ serve = "away" /\ conn' = conn + 1 /\ conn < MaxConn /\ serve' = "select"
      /\ outbox' = <<>> /\ down' = <<>> /\ frame' = NoFrame
      /\ UNCHANGED <<up, jobVars, at, over, wrote, result, row, held, msg, clean, current>>
      /\ loop' = [loop EXCEPT ![conn + 1] = "receive"]
  BY DEF Connect, Dial, LoopTo, jobVars
<1>2. PICK c \in Conn : c = conn + 1 /\ conn \in Nat
  BY <1>1, AgentAssumption DEF Conn, Inv, AgentInv, AgentPlaces
<1>3. /\ loop'[c] = "receive" /\ \A d \in Conn : d # c => loop'[d] = loop[d]
      /\ Moved(c) /\ "receive" \notin Working /\ StatusKept
  BY <1>1, <1>2, RowsStay DEF Moved, Inv, ServerTypeOK, Working
<1>4. Onward /\ Begun' = Begun
  BY <1>1, SameJobs DEF Inv
<1>5. WayInv'
  <2>1. \A d : From(d)' = From(d)
    BY <1>1, FromJobs
  <2>2. \A d \in Conn : up'[d] \in Seq(From(d)')
    BY <1>1, <2>1 DEF OutInv, WayInv
  <2>3. outbox' \in Seq(From(conn)')
    BY <1>1, EmptyWire
  <2>4. outbox' \in Seq(From(conn))'
    BY <1>1, EmptyWire
  <2>5. \A j \in Begun : over'[j] \in 1 .. conn'
    BY <1>1, <1>2 DEF OutInv, WayInv
  <2>6. \A j \in Job \ Begun : wrote'[j] = 0
    BY <1>1 DEF OutInv, WayInv
  <2> QED
    BY <1>4, <2>2, <2>4, <2>5, <2>6 DEF WayInv
<1>6. FrameInv'
  BY <1>1 DEF FrameInv, NoFrame, Command
<1>7. EndInv'
  <2>1. ~intact
    BY <1>1 DEF OutInv, EndInv
  <2>2. ASSUME NEW d \in Conn
        PROVE  /\ loop'[d] = "closed" => up'[d] = <<>> /\ d # conn'
               /\ d <= conn' => loop'[d] # "none"
    <3>1. CASE d = c
      BY <1>1, <1>2, <1>3, <3>1
    <3>2. CASE d # c
      <4>1. loop'[d] = loop[d] /\ (d <= conn' => d <= conn)
        BY <1>1, <1>2, <1>3, <3>2 DEF Conn
      <4> QED
        BY <1>1, <1>2, <3>2, <4>1 DEF OutInv, EndInv
    <3> QED
      BY <3>1, <3>2
  <2> QED
    BY <1>1, <2>2 DEF EndInv
<1>8. HandInv'
  <2>1. \A j \in Job \ Begun' : held'[j] = <<>>
    BY <1>1, <1>4 DEF OutInv, HandInv
  <2> QED
    BY <1>3, <1>4, <2>1, HandMoves DEF OutInv
<1>9. ASSUME NEW j \in Begun
      PROVE  over[j] # c /\ \A m \in Nat : Flows(j, m) => Flows(j, m)'
  <2>1. over[j] \in 1 .. conn /\ ~intact
    BY <1>1 DEF OutInv, WayInv, EndInv
  <2>2. over[j] # c /\ over[j] # conn'
    BY <1>1, <1>2, <2>1
  <2>3. Pipe(j)' = Pipe(j) /\ wrote'[j] = wrote[j] /\ (Stands(j)' => Stands(j))
    BY <1>1, <2>1, <2>2 DEF Pipe, Stands
  <2> QED
    BY <2>2, <2>3, FlowsSame
<1>10. ASSUME NEW j \in Begun
       PROVE  Aside(j, c)
  BY <1>9 DEF Aside
<1>11. ChainInv'
  BY <1>1, <1>3, <1>4, <1>9, <1>10, ChainsKept
<1>12. UpdateInv' /\ PrefixInv' /\ DoneInv'
  BY <1>1, <1>3, <1>4, RowsKept
<1> QED
  BY <1>5, <1>6, <1>7, <1>8, <1>11, <1>12 DEF OutInv

-----------------------------------------------------------------------------
(* The requests, the sweep and the dashboards. *)

\* A step of the server in which no loop moves: at most it sends something,
\* forgets what the filter holds of a job that is over, or writes a row of a
\* job the agent does not know.
LEMMA BesideOut ==
    ASSUME Inv, Inv', OutInv, StatusKept, FrameInv',
           UNCHANGED <<conn, serve, intact, up, outbox, jobVars, loop, msg, clean, current>>,
           \A j \in Job : held'[j] = held[j] \/ (held'[j] = <<>> /\ Over(j)),
           \A j \in Job : \/ row'[j].output = row[j].output
                          \/ j \notin Begun /\ PrefixOf(j)' /\ row'[j].status # "done",
           \A j \in Job : row'[j].status = "done" => row[j].status = "done"
    PROVE  OutInv'
<1>1. Onward /\ Begun' = Begun /\ Moved(0) /\ 0 \notin Conn
  BY SameJobs DEF Inv, Moved, Conn
<1>2. WayInv'
  BY SameWay DEF OutInv, WayInv
<1>3. EndInv'
  BY DEF OutInv, EndInv
<1>4. HandInv'
  <2>1. \A j \in Job \ Begun' : held'[j] = <<>>
    BY <1>1 DEF OutInv, HandInv
  <2> QED
    BY <1>1, <2>1, HandMoves DEF OutInv
<1>5. ASSUME NEW j \in Begun, Known(j)
      PROVE  /\ Aside(j, 0) /\ \A m \in Nat : Flows(j, m) => Flows(j, m)'
             /\ row'[j].output = row[j].output /\ held'[j] = held[j]
  <2>1. j \in Job /\ over[j] \in Conn
    BY PipeTyped DEF Inv, OutInv
  <2>2. Pipe(j)' = Pipe(j) /\ wrote'[j] = wrote[j] /\ (Stands(j)' => Stands(j))
    BY DEF Pipe, Stands, jobVars
  <2>3. \A m \in Nat : Flows(j, m) => Flows(j, m)'
    BY <2>2, FlowsSame
  <2>4. row'[j].output = row[j].output /\ held'[j] = held[j]
    BY <1>5, <2>1 DEF Known
  <2> QED
    BY <1>1, <2>1, <2>3, <2>4 DEF Aside
<1>6. ChainInv'
  <2>1. \A j \in Begun : over[j] = 0 => loop[0] # "closed"
    BY <1>1, PipeTyped DEF Inv, OutInv
  <2> QED
    BY <1>1, <1>5, <2>1, ChainsKept
<1>7. UpdateInv' /\ PrefixInv' /\ DoneInv'
  <2>1. ASSUME NEW j \in Job, j \notin Begun, NEW d \in Conn, loop'[d] = "update"
        PROVE  msg'[d].job # j
    BY <2>1, HandJob DEF Inv, OutInv, Working
  <2> QED
    BY <1>1, <2>1, RowsKept
<1> QED
  BY <1>2, <1>3, <1>4, <1>6, <1>7 DEF OutInv

\* ... and one of those that leave the rows and the filter alone, too.
LEMMA AsideOut ==
    ASSUME Inv, Inv', OutInv, UNCHANGED <<agentVars, row, held, loop, msg, clean, current>>
    PROVE  OutInv'
<1>1. FrameInv'
  BY DEF OutInv, FrameInv, agentVars
<1>2. UNCHANGED <<conn, serve, intact, up, outbox, jobVars>> /\ StatusKept
  BY RowsStay DEF agentVars, jobVars
<1> QED
  BY <1>1, <1>2, BesideOut

LEMMA FrameSame == FrameInv /\ UNCHANGED agentVars => FrameInv'
BY DEF FrameInv, agentVars

LEMMA CreateOut ==
    ASSUME Inv, Inv', OutInv, NEW j \in Job, Create(j)
    PROVE  OutInv'
<1>1. /\ creation[j] = "new" /\ row' = [row EXCEPT ![j].status = "queued"]
      /\ UNCHANGED <<agentVars, held, loop, msg, clean, current>>
  BY DEF Create, SetStatus
<1>2. row[j].status = "none" /\ ~Over(j) /\ "queued" \in JobState /\ row[j] \in Row
  BY <1>1, EndsAreNotNone DEF Inv, RowInv, ServerTypeOK, Over, JobState, ActiveJob
<1>3. /\ StatusKept /\ row'[j].status = "queued"
      /\ \A i \in Job \ {j} : row'[i] = row[i]
  BY <1>1, <1>2, StatusWritten DEF SetStatus
<1>4. \A i \in Job : row'[i].output = row[i].output
  BY <1>1, <1>2 DEF Inv, ServerTypeOK, Row
<1>5. \A i \in Job : row'[i].status = "done" => row[i].status = "done"
  BY <1>3
<1>6. FrameInv' /\ UNCHANGED <<conn, serve, intact, up, outbox, jobVars>>
  BY <1>1, FrameSame DEF OutInv, agentVars, jobVars
<1> QED
  BY <1>1, <1>3, <1>4, <1>5, <1>6, BesideOut

\* A job is sent once: a command that goes onto the wire is new there.
LEMMA SendingOut ==
    ASSUME Inv, Inv', OutInv, NEW f, f.type = "job" => f.job \in Job \ Sent,
           down' \in {down, Append(down, f)},
           UNCHANGED <<ExceptDown, row, held, loop, msg, clean, current>>
    PROVE  OutInv'
<1>1. UNCHANGED <<conn, serve, intact, up, frame, outbox, jobVars, at>>
  BY DEF ExceptDown, jobVars
<1>2. down \in Seq(Commands(Sent)) /\ frame \in Commands(Sent) /\ Begun \subseteq Sent
  BY DEF Inv, AgentInv
<1>3. FrameInv'
  <2>1. CASE down' = down
    BY <1>1, <2>1 DEF OutInv, FrameInv
  <2>2. CASE down' = Append(down, f)
    <3>1. PICK n \in Nat : n = Len(down)
      BY <1>2
    <3>2. /\ Len(down') = n + 1 /\ down'[n + 1] = f
          /\ \A i \in 1 .. n : down'[i] = down[i] /\ down[i] \in Commands(Sent)
      BY <1>2, <2>2, <3>1, AppendProperties, ElementOfSeq
    <3>3. \A g \in Commands(Sent) : g.type = "job" /\ f.type = "job" => g.job # f.job
      BY DEF Commands
    <3>4. f.type = "job" => at[f.job] = "idle"
      BY <1>2 DEF Begun
    <3>5. ASSUME NEW i \in 1 .. n + 1, down'[i].type = "job"
          PROVE  /\ at[down'[i].job] = "idle" /\ frame # down'[i]
                 /\ \A k \in 1 .. n + 1 : down'[k] = down'[i] => k = i
      <4>1. CASE i \in 1 .. n
        <5>1. /\ down'[i] = down[i] /\ at[down[i].job] = "idle" /\ frame # down[i]
              /\ \A k \in 1 .. n : down[k] = down[i] => k = i
          BY <3>1, <3>2, <3>5, <4>1 DEF OutInv, FrameInv
        <5>2. f # down[i]
          BY <3>2, <3>3, <3>5, <4>1, <5>1
        <5>3. ASSUME NEW k \in 1 .. n + 1, down'[k] = down'[i]
              PROVE  k = i
          <6>1. k # n + 1
            BY <3>2, <5>1, <5>2, <5>3
          <6>2. k \in 1 .. n
            BY <6>1
          <6> QED
            BY <3>2, <5>1, <5>3, <6>2
        <5> QED
          BY <5>1, <5>3
      <4>2. CASE i = n + 1
        <5>1. down'[i] = f /\ f.type = "job"
          BY <3>2, <3>5, <4>2
        <5>2. frame # f
          BY <1>2, <3>3, <5>1
        <5>3. ASSUME NEW k \in 1 .. n + 1, down'[k] = down'[i]
              PROVE  k = i
          <6>1. CASE k \in 1 .. n
            BY <3>2, <3>3, <5>1, <5>3, <6>1
          <6>2. CASE k = n + 1
            BY <4>2, <6>2
          <6> QED
            BY <6>1, <6>2
        <5> QED
          BY <3>4, <5>1, <5>2, <5>3
      <4> QED
        BY <4>1, <4>2
    <3>6. frame.type = "job" => at[frame.job] = "idle"
      BY DEF OutInv, FrameInv
    <3> QED
      BY <1>1, <3>2, <3>5, <3>6 DEF FrameInv
  <2> QED
    BY <2>1, <2>2
<1> QED
  BY <1>1, <1>3, RowsStay, BesideOut

LEMMA DispatchOut ==
    ASSUME Inv, Inv', OutInv, NEW j \in Job, Dispatch(j)
    PROVE  OutInv'
<1> DEFINE f == Command("job", j)
<1>1. /\ creation[j] = "send" /\ down' \in {down, Append(down, f)}
      /\ UNCHANGED <<ExceptDown, row, held, loop, msg, clean, current>>
  BY DEF Dispatch, SendTo
<1>2. f.type = "job" => f.job \in Job \ Sent
  BY <1>1 DEF Command, Sent
<1> HIDE DEF f
<1> QED
  BY <1>1, <1>2, SendingOut

LEMMA AskLogsOut ==
    ASSUME Inv, Inv', OutInv, AskLogs
    PROVE  OutInv'
<1> DEFINE f == Command("get_logs", NoJob)
<1>1. /\ down' \in {down, Append(down, f)}
      /\ UNCHANGED <<ExceptDown, row, held, loop, msg, clean, current>>
  BY DEF AskLogs, SendTo
<1>2. f.type # "job"
  BY DEF Command
<1> HIDE DEF f
<1> QED
  BY <1>1, <1>2, SendingOut

\* The reason instead of output goes to a job the agent has never had.
LEMMA UndispatchedOut ==
    ASSUME Inv, Inv', OutInv, NEW j \in Job, Undispatched(j)
    PROVE  OutInv'
<1>1. creation[j] = "undo" /\ UNCHANGED <<agentVars, held, loop, msg, clean, current>>
  BY DEF Undispatched
<1>2. row \in [Job -> Row] /\ row[j].status \in {"queued", "timeout"} /\ j \notin Begun
  BY <1>1 DEF Inv, AgentInv, RowInv, ServerTypeOK, Sent
<1> DEFINE new == IF row[j].status = "queued"
                 THEN [status |-> AfterUndispatched(row[j].status), output |-> <<0>>]
                 ELSE row[j]
<1>3. row' = [row EXCEPT ![j] = new]
  BY DEF Undispatched
<1>4. /\ new.status \in {"failed", "timeout"}
      /\ new.output = <<0>> \/ new = row[j]
  BY <1>2 DEF AfterUndispatched
<1>5. row'[j] = new /\ \A i \in Job : i # j => row'[i] = row[i]
  BY <1>2, <1>3
<1> HIDE DEF new
<1>6. Over(j)' /\ row'[j].status # "done"
  BY <1>4, <1>5 DEF Over, TerminalJob
<1>7. row'[j].output = row[j].output \/ PrefixOf(j)'
  BY <1>4, <1>5, <1>6 DEF PrefixOf
<1>8. StatusKept
  BY <1>5, <1>6, EndsAreNotNone DEF StatusKept, Over
<1>9. \A i \in Job : row'[i].status = "done" => row[i].status = "done"
  BY <1>5, <1>6
<1>10. \A i \in Job : \/ row'[i].output = row[i].output
                      \/ i \notin Begun /\ PrefixOf(i)' /\ row'[i].status # "done"
  BY <1>2, <1>5, <1>6, <1>7
<1>11. FrameInv' /\ UNCHANGED <<conn, serve, intact, up, outbox, jobVars>>
  BY <1>1, FrameSame DEF OutInv, agentVars, jobVars
<1> QED
  BY <1>1, <1>8, <1>9, <1>10, <1>11, BesideOut

LEMMA RequestOut ==
    ASSUME Inv, Inv', OutInv, NEW j \in Job, Request(j)
    PROVE  OutInv'
<1>1. CASE DispatchFails(j) \/ PublishUndispatched(j)
  BY <1>1, AsideOut DEF DispatchFails, PublishUndispatched
<1> QED
  BY <1>1, CreateOut, DispatchOut, UndispatchedOut DEF Request

LEMMA SweepOut ==
    ASSUME Inv, Inv', OutInv, Sweep
    PROVE  OutInv'
<1>1. CASE SelectStale
  BY <1>1, AsideOut DEF SelectStale
<1>2. CASE SweepStale
  <2>1. UNCHANGED <<agentVars, held, loop, msg, clean, current>> /\ StatusKept
    BY <1>2, Swept DEF SweepStale
  <2>2. \A j \in Job : row'[j].status = "done" => row[j].status = "done"
    BY <1>2, Swept
  <2>3. ASSUME NEW j \in Job
        PROVE  row'[j].output = row[j].output
    <3>1. row[j] \in Row
      BY DEF Inv, ServerTypeOK
    <3>2. row'[j] = IF j \in sweep.ids THEN [row[j] EXCEPT !.status = "timeout"] ELSE row[j]
      BY <1>2 DEF SweepStale, AfterSweep
    <3> QED
      BY <3>1, <3>2 DEF Row
  <2>4. FrameInv' /\ UNCHANGED <<conn, serve, intact, up, outbox, jobVars>>
    BY <2>1, FrameSame DEF OutInv, agentVars, jobVars
  <2> QED
    BY <2>1, <2>2, <2>3, <2>4, BesideOut
<1>3. CASE PublishStale
  <2>1. UNCHANGED <<agentVars, row, loop, msg, clean, current>> /\ StatusKept
    BY <1>3, RowsStay DEF PublishStale
  <2>2. \A j \in sweep.ids : Over(j)
    BY <1>3 DEF PublishStale, Inv, SweepInv
  <2>3. \A j \in Job : held'[j] = held[j] \/ (held'[j] = <<>> /\ Over(j))
    BY <1>3, <2>2 DEF PublishStale
  <2>4. FrameInv' /\ UNCHANGED <<conn, serve, intact, up, outbox, jobVars>>
    BY <2>1, FrameSame DEF OutInv, agentVars, jobVars
  <2> QED
    BY <2>1, <2>3, <2>4, BesideOut
<1> QED
  BY <1>1, <1>2, <1>3 DEF Sweep

LEMMA SocketOut ==
    ASSUME Inv, Inv', OutInv, NEW c \in Conn, AgentSocket(c)
    PROVE  OutInv'
BY DisconnectOut, JobStartedOut, MarkRunningOut, JobOutputOut, JobResultOut, OtherMessageOut,
   ReadOutputOut, UpdateOutputOut, PublishOutputOut, FinishJobOut, PublishDoneOut
DEF AgentSocket

-----------------------------------------------------------------------------
(* What is stored. *)

LEMMA OutInit == Init => OutInv
<1> SUFFICES ASSUME Init PROVE OutInv
  OBVIOUS
<1>1. Inv
  BY InvInit
<1>2. /\ conn = 0 /\ serve = "away" /\ ~intact /\ outbox = <<>> /\ frame = NoFrame /\ down = <<>>
      /\ \A j \in Job : at[j] = "idle" /\ wrote[j] = 0 /\ held[j] = <<>> /\ row[j] = NewRow
      /\ \A d \in Conn : loop[d] = "none" /\ up[d] = <<>>
  BY DEF Init, AgentInit
<1>3. Begun = {}
  BY <1>2 DEF Begun
<1>4. WayInv
  BY <1>2, <1>3, EmptyWire DEF WayInv
<1>5. HandInv /\ EndInv
  BY <1>2 DEF HandInv, EndInv, Working, Conn
<1>6. FrameInv
  BY <1>2 DEF FrameInv, NoFrame, Command
<1>7. ChainInv /\ UpdateInv
  BY <1>2, <1>3 DEF ChainInv, UpdateInv
<1>8. PrefixInv
  <2>1. Capped(Written(0)) = <<>>
    <3>1. Capped(Written(0)) = Pieces(0, AtMost(0)) /\ AtMost(0) = 0
      BY CappedIs
    <3> QED
      BY <3>1, NoPieces
  <2>2. ASSUME NEW j \in Job
        PROVE  PrefixOf(j)
    <3>1. wrote[j] = 0 /\ row[j] = NewRow
      BY <1>2
    <3>2. 0 <= wrote[j] /\ row[j].output = Capped(Written(0))
      BY <2>1, <3>1 DEF NewRow
    <3> QED
      BY <3>2 DEF PrefixOf
  <2> QED
    BY Zenon, <2>2 DEF PrefixInv
<1>9. DoneInv
  BY <1>2 DEF DoneInv, NewRow
<1> QED
  BY <1>4, <1>5, <1>6, <1>7, <1>8, <1>9 DEF OutInv

LEMMA OutStep == Inv /\ Inv' /\ OutInv /\ [Next]_vars => OutInv'
<1> SUFFICES ASSUME Inv, Inv', OutInv, [Next]_vars PROVE OutInv'
  OBVIOUS
<1>1. CASE Connect
  BY <1>1, ConnectOut
<1>2. CASE Agent
  BY <1>2, AgentKeepsOut
<1>3. CASE AskLogs
  BY <1>3, AskLogsOut
<1>4. CASE Sweep
  BY <1>4, SweepOut
<1>5. CASE Failure
  BY <1>5, AgentKeepsOut, RestartOut, LoopFailsOut DEF Failure
<1>6. ASSUME NEW c \in Conn, AgentSocket(c) PROVE OutInv'
  BY <1>6, SocketOut
<1>7. ASSUME NEW j \in Job, Request(j) PROVE OutInv'
  BY <1>7, RequestOut
<1>8. ASSUME NEW v \in Viewers, Watch(v) PROVE OutInv'
  <2>1. ASSUME NEW j \in Job, ReadJob(v, j)
        PROVE  UNCHANGED <<agentVars, server>>
    BY SMTT(30), <2>1 DEF ReadJob
  <2>2. ASSUME Subscribe(v) \/ Show(v) \/ Leave(v)
        PROVE  UNCHANGED <<agentVars, server>>
    BY <2>2 DEF Subscribe, Show, Leave
  <2>3. UNCHANGED <<agentVars, server>>
    BY <1>8, <2>1, <2>2 DEF Watch
  <2> QED
    BY <2>3, AsideOut DEF server
<1>9. CASE UNCHANGED vars
  <2>1. UNCHANGED <<agentVars, server>>
    BY <1>9 DEF vars
  <2> QED
    BY <2>1, AsideOut DEF server
<1> QED
  BY <1>1, <1>2, <1>3, <1>4, <1>5, <1>6, <1>7, <1>8, <1>9 DEF Next

\* In every reachable state the places a job's output goes through hold
\* consecutive pieces of it, as long as they may still come in.
THEOREM OutputInvariant == Spec => []OutInv
<1> QED
  BY OutInit, OutStep, Invariant, PTL DEF Spec

\* Whatever breaks, restarts, overlaps or comes late, what append_output has
\* stored is a beginning of what the job wrote on the machine, with no piece
\* missing, doubled or displaced, or the reason why the job was never sent.
THEOREM OutputOrdered == Spec => []OutputInOrder
<1>1. ASSUME Inv, OutInv
      PROVE  OutputInOrder
  <2>1. ASSUME NEW j \in Job, row[j].output # << 0 >>
        PROVE  IsPrefix(row[j].output, Written(wrote[j]))
    <3>1. PICK k \in Nat : k <= wrote[j] /\ row[j].output = Capped(Written(k))
      BY <1>1, <2>1 DEF OutInv, PrefixInv, PrefixOf
    <3>2. PICK n \in Nat : n = wrote[j]
      BY <1>1 DEF Inv, AgentInv, AgentPlaces
    <3>3. PICK a \in Nat : /\ a <= k /\ Capped(Written(k)) = Pieces(0, a)
      BY CappedIs
    <3>4. Written(n) = Pieces(0, n) /\ a <= n
      BY <3>1, <3>2, <3>3, WrittenAre
    <3>5. IsPrefix(Pieces(0, a), Pieces(0, n))
      <4>1. PICK p : p = Pieces(0, a)
        OBVIOUS
      <4>2. PICK q : q = Pieces(0, n)
        OBVIOUS
      <4>3. /\ p \in Seq(Nat) /\ Len(p) = a /\ \A i \in 1 .. a : p[i] = i
            /\ q \in Seq(Nat) /\ Len(q) = n /\ \A i \in 1 .. n : q[i] = i
        BY <4>1, <4>2, FirstPieces
      <4>4. a \in 0 .. n
        BY <3>4
      <4>5. SubSeq(q, 1, a) \in Seq(Nat) /\ Len(SubSeq(q, 1, a)) = a
            /\ \A i \in 1 .. a : SubSeq(q, 1, a)[i] = q[i]
        BY <4>3, <4>4, SubSeqProperties
      <4>6. \A i \in 1 .. a : p[i] = SubSeq(q, 1, a)[i]
        BY <4>3, <4>4, <4>5
      <4>7. p = SubSeq(q, 1, a)
        BY <4>3, <4>5, <4>6, SeqEqual
      <4>8. SubSeq(p, 1, a) = p
        BY <4>3
      <4>9. IsPrefix(p, q)
        BY <4>3, <4>4, <4>7, <4>8 DEF IsPrefix
      <4> QED
        BY <4>1, <4>2, <4>9
    <3> QED
      BY <3>1, <3>2, <3>3, <3>4, <3>5
  <2> QED
    BY Zenon, <2>1 DEF OutputInOrder
<1> QED
  BY <1>1, Invariant, OutputInvariant, PTL

\* A job counts as done only if it ended well on the machine and everything it
\* wrote, up to MAX_OUTPUT_BYTES, is stored.
THEOREM DoneIsWhole == Spec => []FinishedWhole
<1>1. OutInv => FinishedWhole
  BY DEF OutInv, DoneInv, DoneOf, FinishedWhole
<1> QED
  BY <1>1, OutputInvariant, PTL

=============================================================================
