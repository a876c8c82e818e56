---------------------------- MODULE TrafficProofs -----------------------------
(***************************************************************************)
(* What TLAPS proves of the traffic director and the bursts, for any rates,*)
(* any size of batches and windows, any number of attempts and every bound.*)
(***************************************************************************)
EXTENDS Traffic, FiniteSetTheorems, TLAPS

-----------------------------------------------------------------------------
(* Batches as records.                                                     *)

Statuses == {"unused", "running", "cancelled", "done", "failed", "abandoned"}

Batch ==
  [prefix : Nat, first : Nat, count : Nat, paced : BOOLEAN,
   fault : Faults \cup {NoFault}, split : Splits \cup {NoSplit}, todo : SUBSET Nat,
   ok : Nat, attempt : Nat, wait : Nat, status : Statuses]

(* What a batch asks for never changes ...                                 *)
SameRequest(q, r) ==
  /\ q.prefix = r.prefix /\ q.first = r.first /\ q.count = r.count
  /\ q.paced = r.paced /\ q.fault = r.fault /\ q.split = r.split

(* ... and its status goes one way.                                        *)
StatusGoesOn(q, r) ==
  \/ q.status = r.status
  \/ r.status = "running" /\ q.status \in {"done", "failed"}
  \/ r.status = "cancelled" /\ q.status = "abandoned"

(* The orders of a request.                                                *)
SeqsOf(r) == r.first .. (r.first + r.count - 1)

LEMMA DivNat == ASSUME NEW a \in Nat, NEW n \in Nat, n > 0 PROVE a \div n \in Nat
  OBVIOUS

LEMMA GapNat ==
  ASSUME NEW b \in BatchIds, batches[b] \in Batch PROVE Gap(b) \in Nat
  BY DivNat, BatchAssumption DEF Gap, Batch

LEMMA RangeNat ==
  ASSUME NEW r \in Batch
  PROVE  SeqsOf(r) \subseteq Nat
  BY DEF Batch, SeqsOf

(* What becomes of a request: orders of it are tried, it is tried anew, or *)
(* it ends.                                                                *)
Tried(r, t, k, w) == [r EXCEPT !.todo = t, !.ok = k, !.wait = w]
Retried(r, t, n) == [r EXCEPT !.todo = t, !.ok = 0, !.attempt = n, !.wait = 0]
Ended(r, u, t) == [r EXCEPT !.status = u, !.todo = t, !.wait = 0]

LEMMA RecordTried ==
  ASSUME NEW r \in Batch, NEW t \in SUBSET Nat, NEW k \in Nat, NEW w \in Nat
  PROVE  /\ Tried(r, t, k, w) \in Batch /\ SameRequest(Tried(r, t, k, w), r)
         /\ Tried(r, t, k, w).todo = t /\ Tried(r, t, k, w).ok = k
         /\ Tried(r, t, k, w).status = r.status /\ Tried(r, t, k, w).attempt = r.attempt
  BY DEF Batch, SameRequest, Tried

LEMMA RecordRetried ==
  ASSUME NEW r \in Batch, NEW t \in SUBSET Nat, NEW n \in Nat
  PROVE  /\ Retried(r, t, n) \in Batch /\ SameRequest(Retried(r, t, n), r)
         /\ Retried(r, t, n).todo = t /\ Retried(r, t, n).ok = 0
         /\ Retried(r, t, n).status = r.status /\ Retried(r, t, n).attempt = n
  BY DEF Batch, SameRequest, Retried

LEMMA RecordEnded ==
  ASSUME NEW r \in Batch, NEW t \in SUBSET Nat, NEW u \in Statuses
  PROVE  /\ Ended(r, u, t) \in Batch /\ SameRequest(Ended(r, u, t), r)
         /\ Ended(r, u, t).todo = t /\ Ended(r, u, t).ok = r.ok
         /\ Ended(r, u, t).status = u /\ Ended(r, u, t).attempt = r.attempt
  BY DEF Batch, SameRequest, Ended

-----------------------------------------------------------------------------
(* What the Activity does to the batches, whichever step it takes.         *)

Worked(b) ==
  /\ batches' \in [BatchIds -> Batch]
  /\ \A c \in BatchIds : c # b => batches'[c] = batches[c]
  /\ SameRequest(batches'[b], batches[b])
  /\ StatusGoesOn(batches'[b], batches[b])
  /\ batches'[b].todo \subseteq batches[b].todo \cup SeqsOf(batches[b])
  /\ \/ batches'[b].todo \subseteq batches[b].todo /\ batches'[b].attempt = batches[b].attempt
     \/ batches'[b].attempt = batches[b].attempt + 1
  /\ batches[b].status \in {"running", "cancelled"}

LEMMA TryWorks ==
  ASSUME batches \in [BatchIds -> Batch], NEW b \in BatchIds, NEW s, NEW a \in BOOLEAN,
         Try(b, s, a)
  PROVE  /\ Worked(b)
         /\ batches'[b].todo = batches[b].todo \ {s} /\ batches'[b].attempt = batches[b].attempt
         /\ batches'[b].status = batches[b].status
         /\ batches'[b].ok = IF a THEN batches[b].ok + 1 ELSE batches[b].ok
<1> DEFINE r == batches[b]
           t == r.todo \ {s}
           k == IF a THEN r.ok + 1 ELSE r.ok
           q == Tried(r, t, k, Gap(b))
<1>1. /\ r \in Batch /\ t \in SUBSET Nat /\ k \in Nat /\ Gap(b) \in Nat
      /\ r.status \in {"running", "cancelled"}
  BY GapNat DEF Try, Live, Batch
<1>2. batches' = [batches EXCEPT ![b] = q]
  BY DEF Try, Tried
<1>3. q \in Batch /\ SameRequest(q, r) /\ q.todo = t /\ q.ok = k /\ q.status = r.status /\ q.attempt = r.attempt
  BY <1>1, RecordTried
<1> HIDE DEF q
<1>4. /\ batches' \in [BatchIds -> Batch] /\ (\A c \in BatchIds : c # b => batches'[c] = batches[c])
      /\ batches'[b] = q
  BY <1>2, <1>3
<1> QED
  BY <1>1, <1>3, <1>4 DEF Worked, StatusGoesOn

LEMMA EndWorks ==
  ASSUME batches \in [BatchIds -> Batch], NEW b \in BatchIds, NEW t, NEW u \in Statuses,
         t \in {batches[b].todo, {}},
         batches' = [batches EXCEPT ![b] = Ended(batches[b], u, t)],
         \/ batches[b].status = "running" /\ u \in {"done", "failed"}
         \/ batches[b].status = "cancelled" /\ u = "abandoned"
  PROVE  /\ Worked(b)
         /\ batches'[b].todo = t /\ batches'[b].attempt = batches[b].attempt
         /\ batches'[b].status = u /\ batches'[b].ok = batches[b].ok
<1> DEFINE r == batches[b]
           q == Ended(r, u, t)
<1>1. r \in Batch /\ t \in SUBSET Nat
  BY DEF Batch
<1>2. /\ q \in Batch /\ SameRequest(q, r) /\ q.todo = t /\ q.ok = r.ok /\ q.status = u
      /\ q.attempt = r.attempt
  BY <1>1, RecordEnded
<1>3. batches' = [batches EXCEPT ![b] = q]
  OBVIOUS
<1> HIDE DEF q
<1>4. /\ batches' \in [BatchIds -> Batch] /\ (\A c \in BatchIds : c # b => batches'[c] = batches[c])
      /\ batches'[b] = q
  BY <1>2, <1>3
<1> QED
  BY <1>2, <1>4 DEF Worked, StatusGoesOn

LEMMA RetryWorks ==
  ASSUME batches \in [BatchIds -> Batch], NEW b \in BatchIds,
         batches[b].status = "running", batches' = [batches EXCEPT ![b] = Retry(b)]
  PROVE  /\ Worked(b)
         /\ batches'[b].todo = Seqs(b) /\ batches'[b].attempt = batches[b].attempt + 1
         /\ batches'[b].status = "running" /\ batches'[b].ok = 0
<1> DEFINE r == batches[b]
           q == Retried(r, SeqsOf(r), r.attempt + 1)
<1>1. r \in Batch /\ SeqsOf(r) \in SUBSET Nat /\ r.attempt + 1 \in Nat /\ SeqsOf(r) = Seqs(b)
  BY RangeNat DEF Batch, SeqsOf, Seqs
<1>2. /\ q \in Batch /\ SameRequest(q, r) /\ q.todo = SeqsOf(r) /\ q.ok = 0
      /\ q.status = r.status /\ q.attempt = r.attempt + 1
  BY <1>1, RecordRetried
<1>3. batches' = [batches EXCEPT ![b] = q]
  BY <1>1 DEF Retry, Retried
<1> HIDE DEF q
<1>4. /\ batches' \in [BatchIds -> Batch] /\ (\A c \in BatchIds : c # b => batches'[c] = batches[c])
      /\ batches'[b] = q
  BY <1>2, <1>3
<1> QED
  BY <1>1, <1>2, <1>4 DEF Worked, StatusGoesOn

(* The Activity's other variables: orders are only added.                  *)
LEMMA BatchStepWorks ==
  ASSUME batches \in [BatchIds -> Batch], NEW b \in BatchIds, BatchStep(b)
  PROVE  Worked(b) /\ UNCHANGED <<now, made>>
<1>1. ASSUME NEW s, Starts(b, s) \/ StartsAgain(b, s) \/ FindsRunning(b, s) \/ StartFails(b, s)
      PROVE  Worked(b) /\ UNCHANGED <<now, made>>
  <2>1. \E a \in BOOLEAN : Try(b, s, a)
    BY <1>1 DEF Starts, StartsAgain, FindsRunning, StartFails
  <2>2. UNCHANGED <<now, made>>
    BY <1>1 DEF Starts, StartsAgain, FindsRunning, StartFails
  <2> QED
    BY <2>1, <2>2, TryWorks
<1>2. CASE BatchEnds(b)
  <2>1. batches' = [batches EXCEPT ![b] = Ended(batches[b], "done", batches[b].todo)]
    <3> DEFINE r == batches[b]
    <3>1. [r EXCEPT !.status = "done", !.wait = 0] = Ended(r, "done", r.todo)
      BY DEF Ended, Batch
    <3>2. batches' = [batches EXCEPT ![b] = [r EXCEPT !.status = "done", !.wait = 0]]
      BY <1>2 DEF BatchEnds
    <3> QED
      BY <3>1, <3>2
  <2> QED
    BY <1>2, <2>1, EndWorks DEF BatchEnds, Statuses
<1>3. CASE AttemptFails(b)
  <2>1. CASE batches[b].attempt < Attempts(b)
    <3>1. batches' = [batches EXCEPT ![b] = Retry(b)]
      BY <1>3, <2>1 DEF AttemptFails
    <3> QED
      BY <1>3, <3>1, RetryWorks DEF AttemptFails
  <2>2. CASE ~(batches[b].attempt < Attempts(b))
    <3>1. batches' = [batches EXCEPT ![b] = Ended(batches[b], "failed", {})]
      BY <1>3, <2>2 DEF AttemptFails, Ended
    <3> QED
      BY <1>3, <3>1, EndWorks DEF AttemptFails, Statuses
  <2> QED
    BY <2>1, <2>2
<1>4. CASE Notices(b)
  <2>1. batches' = [batches EXCEPT ![b] = Ended(batches[b], "abandoned", {})]
    BY <1>4 DEF Notices, Ended
  <2> QED
    BY <1>4, <2>1, EndWorks DEF Notices, Statuses
<1> QED
  BY <1>1, <1>2, <1>3, <1>4 DEF BatchStep, StartNext

-----------------------------------------------------------------------------
(* Batches are made.                                                       *)

LEMMA DivMultiple ==
  ASSUME NEW a \in Nat, NEW p \in Nat \ {0}
  PROVE  (a \div p) * p <= a
  OBVIOUS

LEMMA TimesMonotone ==
  ASSUME NEW i \in Int, NEW j \in Int, NEW p \in Nat, i <= j
  PROVE  i * p <= j * p
  OBVIOUS

(* The chunks of n orders follow one another and hold no more than these.  *)
LEMMA ChunksFollow ==
  ASSUME NEW n \in Nat, NEW i \in 1 .. ChunkCount(n)
  PROVE  /\ (i - 1) * OrdersPerActivity \in Nat
         /\ ChunkSize(n, i) \in Nat \ {0} /\ ChunkSize(n, i) <= OrdersPerActivity
         /\ (i - 1) * OrdersPerActivity + ChunkSize(n, i) <= n
<1> DEFINE p == OrdersPerActivity
           q == ChunkCount(n)
           m == (i - 1) * p
<1>1. p \in Nat /\ p # 0 /\ q \in Nat /\ i \in Int /\ 1 <= i /\ i <= q
  BY BatchAssumption, DivNat DEF ChunkCount
<1>2. q * p <= n + p - 1
  BY <1>1, DivMultiple DEF ChunkCount
<1>3. i * p <= q * p
  BY <1>1, TimesMonotone
<1>4. i * p = m + p
  BY <1>1
<1>5. m \in Int
  BY <1>1
<1>6. m >= 0
  BY <1>1, TimesMonotone
<1>7. ChunkSize(n, i) = IF m + p <= n THEN p ELSE n - m
  BY <1>4 DEF ChunkSize
<1> HIDE DEF m, q
<1>8. m <= n - 1
  <2> DEFINE x == i * p
             y == q * p
  <2>1. x \in Int /\ y \in Int
    BY <1>1
  <2>2. x <= y /\ y <= n + p - 1 /\ x = m + p
    BY <1>2, <1>3, <1>4
  <2> HIDE DEF x, y
  <2> QED
    BY <1>1, <1>5, <2>1, <2>2
<1> QED
  BY <1>1, <1>5, <1>6, <1>7, <1>8 DEF m

LEMMA ChunksApart ==
  ASSUME NEW n \in Nat, NEW i \in 1 .. ChunkCount(n), NEW j \in 1 .. ChunkCount(n), i < j
  PROVE  (i - 1) * OrdersPerActivity + ChunkSize(n, i) <= (j - 1) * OrdersPerActivity
<1> DEFINE p == OrdersPerActivity
<1>1. p \in Nat /\ p # 0 /\ i \in Int /\ j \in Int /\ i <= j - 1
  BY BatchAssumption
<1>2. i * p <= (j - 1) * p
  BY <1>1, TimesMonotone
<1>3. i * p = (i - 1) * p + p
  BY <1>1
<1>4. ChunkSize(n, i) <= p /\ ChunkSize(n, i) \in Nat
  BY ChunksFollow
<1>5. (i - 1) * p \in Int /\ (j - 1) * p \in Int /\ i * p \in Int
  BY <1>1
<1> QED
  BY <1>1, <1>2, <1>3, <1>4, <1>5

(* Batches made of a request, up to as many as it makes.                   *)
Enqueued(k, prefix, first, n, paced, f, sp) ==
  /\ batches' \in [BatchIds -> Batch]
  /\ k \in Nat /\ made' = made + k /\ made' <= MaxBatches
  /\ \A b \in BatchIds : b \notin (made + 1) .. (made + k) => batches'[b] = batches[b]
  /\ \A b \in (made + 1) .. (made + k) :
       /\ b \in BatchIds /\ b - made \in 1 .. ChunkCount(n)
       /\ batches'[b].prefix = prefix /\ batches'[b].paced = paced
       /\ batches'[b].fault = f /\ batches'[b].split = sp
       /\ batches'[b].first = first + (b - made - 1) * OrdersPerActivity
       /\ batches'[b].count = ChunkSize(n, b - made)
       /\ batches'[b].todo = SeqsOf(batches'[b])
       /\ batches'[b].status = "running" /\ batches'[b].ok = 0 /\ batches'[b].attempt = 1

IsRequest(r, prefix, first, count, paced, f, sp) ==
  /\ r \in Batch /\ r.prefix = prefix /\ r.first = first /\ r.count = count
  /\ r.paced = paced /\ r.fault = f /\ r.split = sp /\ r.todo = SeqsOf(r)
  /\ r.status = "running" /\ r.ok = 0 /\ r.attempt = 1

LEMMA RequestFields ==
  ASSUME NEW prefix \in Nat, NEW first \in Nat, NEW count \in Nat, NEW paced \in BOOLEAN,
         NEW f \in Faults \cup {NoFault}, NEW sp \in Splits \cup {NoSplit}
  PROVE  IsRequest(Request(prefix, first, count, paced, f, sp), prefix, first, count, paced, f, sp)
<1>1. first .. (first + count - 1) \in SUBSET Nat
  OBVIOUS
<1> QED
  BY <1>1 DEF Request, IsRequest, Batch, SeqsOf, Statuses

LEMMA EnqueueMakes ==
  ASSUME batches \in [BatchIds -> Batch], made \in Nat,
         NEW k \in Nat, NEW prefix \in Nat, NEW first \in Nat, NEW n \in Nat, NEW paced \in BOOLEAN,
         NEW f \in Faults \cup {NoFault}, NEW sp \in Splits \cup {NoSplit},
         k <= ChunkCount(n),
         Enqueue(k, prefix, first, n, paced, f, sp)
  PROVE  Enqueued(k, prefix, first, n, paced, f, sp)
<1> DEFINE Made(b) == Chunk(prefix, first, n, b - made, paced, f, sp)
           new == (made + 1) .. (made + k)
<1>1. made' = made + k /\ made' <= MaxBatches
  BY DEF Enqueue
<1>2. batches' = [b \in BatchIds |-> IF b \in new THEN Made(b) ELSE batches[b]]
  BY DEF Enqueue
<1>3. ChunkCount(n) \in Nat
  BY BatchAssumption, DivNat DEF ChunkCount
<1>4. ASSUME NEW b \in new
      PROVE  /\ b \in BatchIds /\ b - made \in 1 .. ChunkCount(n)
             /\ Made(b) \in Batch
             /\ Made(b).prefix = prefix /\ Made(b).paced = paced
             /\ Made(b).fault = f /\ Made(b).split = sp
             /\ Made(b).first = first + (b - made - 1) * OrdersPerActivity
             /\ Made(b).count = ChunkSize(n, b - made)
             /\ Made(b).todo = SeqsOf(Made(b))
             /\ Made(b).status = "running" /\ Made(b).ok = 0 /\ Made(b).attempt = 1
  <2> DEFINE i == b - made
             x == first + (i - 1) * OrdersPerActivity
             c == ChunkSize(n, i)
             r == Request(prefix, x, c, paced, f, sp)
  <2>1. b \in BatchIds /\ i \in 1 .. ChunkCount(n)
    BY <1>1, <1>3, <1>4, BatchAssumption DEF BatchIds
  <2>2. (i - 1) * OrdersPerActivity \in Nat /\ c \in Nat
    BY <2>1, ChunksFollow
  <2>3. x \in Nat
    BY <2>2
  <2>4. Made(b) = r
    BY DEF Chunk, ChunkFirst
  <2>5. x = first + (b - made - 1) * OrdersPerActivity
    OBVIOUS
  <2> HIDE DEF x, c
  <2>6. IsRequest(r, prefix, x, c, paced, f, sp)
    BY <2>2, <2>3, RequestFields
  <2> HIDE DEF r
  <2> QED
    BY <2>1, <2>4, <2>5, <2>6 DEF c, IsRequest
<1> HIDE DEF Made
<1>5. batches' \in [BatchIds -> Batch]
  BY <1>2, <1>4
<1>6. \A b \in BatchIds : b \notin new => batches'[b] = batches[b]
  BY <1>2
<1>7. \A b \in new : batches'[b] = Made(b)
  BY <1>2, <1>4
<1> QED
  BY <1>1, <1>4, <1>5, <1>6, <1>7 DEF Enqueued

-----------------------------------------------------------------------------
(* All batches at a time: time passes, and a window is left.               *)
AllTouched ==
  /\ batches' \in [BatchIds -> Batch]
  /\ \A b \in BatchIds :
       /\ SameRequest(batches'[b], batches[b]) /\ batches'[b].todo = batches[b].todo
       /\ batches'[b].ok = batches[b].ok /\ batches'[b].attempt = batches[b].attempt

LEMMA TickTouches ==
  ASSUME batches \in [BatchIds -> Batch], Tick
  PROVE  AllTouched /\ \A b \in BatchIds : batches'[b].status = batches[b].status
<1> DEFINE w(b) == IF batches[b].wait > 0 THEN batches[b].wait - 1 ELSE 0
           Waited(b) == [batches[b] EXCEPT !.wait = w(b)]
<1>1. batches' = [b \in BatchIds |-> Waited(b)]
  BY DEF Tick
<1>2. ASSUME NEW b \in BatchIds
      PROVE  /\ Waited(b) \in Batch /\ SameRequest(Waited(b), batches[b])
             /\ Waited(b).todo = batches[b].todo /\ Waited(b).ok = batches[b].ok
             /\ Waited(b).attempt = batches[b].attempt /\ Waited(b).status = batches[b].status
  <2>1. w(b) \in Nat /\ batches[b] \in Batch
    BY DEF Batch
  <2> HIDE DEF w
  <2> QED
    BY <2>1 DEF Batch, SameRequest
<1> HIDE DEF Waited
<1> QED
  BY <1>1, <1>2 DEF AllTouched

LEMMA LeavingTouches ==
  ASSUME batches \in [BatchIds -> Batch], WindowLeft
  PROVE  /\ AllTouched
         /\ \A b \in BatchIds :
              batches'[b].status = IF b \in window /\ batches[b].status = "running"
                                     THEN "cancelled" ELSE batches[b].status
<1> DEFINE Left(b) == IF b \in window /\ batches[b].status = "running"
                        THEN [batches[b] EXCEPT !.status = "cancelled"] ELSE batches[b]
<1>1. batches' = [b \in BatchIds |-> Left(b)]
  BY DEF WindowLeft
<1>2. ASSUME NEW b \in BatchIds
      PROVE  /\ Left(b) \in Batch /\ SameRequest(Left(b), batches[b])
             /\ Left(b).todo = batches[b].todo /\ Left(b).ok = batches[b].ok
             /\ Left(b).attempt = batches[b].attempt
             /\ Left(b).status = IF b \in window /\ batches[b].status = "running"
                                   THEN "cancelled" ELSE batches[b].status
  BY DEF Batch, SameRequest, Statuses
<1> HIDE DEF Left
<1> QED
  BY <1>1, <1>2 DEF AllTouched

-----------------------------------------------------------------------------
(* Types.                                                                  *)

BatchesOK ==
  /\ batches \in [BatchIds -> Batch]
  /\ \A b \in BatchIds :
       /\ batches[b].prefix \in {Stream} \cup Millis /\ batches[b].todo \subseteq SeqsOf(batches[b])
       /\ (batches[b].status = "unused" <=> b > made)

ClockOK == now \in 0 .. MaxNow /\ stopAt \in 0 .. (now + MaxRun)

SettingsOK ==
  /\ rate \in Rates /\ fault \in Faults \cup {NoFault} /\ split \in Splits \cup {NoSplit}
  /\ autoStopped \in BOOLEAN /\ (autoStopped => rate = 0 /\ now >= stopAt)

LoopOK ==
  /\ pc \in {"none", "loop", "idle", "window", "done"}
  /\ nextSeq \in Nat /\ started \in Nat /\ carry \in 0 .. 1
  /\ stop \in BOOLEAN /\ changes \in 0 .. ChangeBuffer
  /\ (pc # "window" => window = {})

MadeOK ==
  /\ made \in 0 .. MaxBatches /\ window \subseteq 1 .. made /\ base \in 0 .. made

TypeInv == BatchesOK /\ ClockOK /\ SettingsOK /\ LoopOK /\ MadeOK

LEMMA TypeParts == TypeInv => TypeOK
<1> SUFFICES ASSUME TypeInv PROVE TypeOK
  OBVIOUS
<1>1. \A b \in BatchIds : BatchOK(batches[b]) /\ (batches[b].status = "unused" <=> b > made)
  BY DEF TypeInv, BatchesOK, MadeOK, BatchOK, Batch, Statuses, SeqsOf
<1> QED
  BY <1>1 DEF TypeInv, ClockOK, SettingsOK, LoopOK, MadeOK, TypeOK, WindowsPerMinute

LEMMA TypeInit == Init => TypeInv
<1> SUFFICES ASSUME Init PROVE TypeInv
  OBVIOUS
<1> USE BatchAssumption, TrafficAssumption
<1>1. /\ Unused \in Batch /\ Unused.prefix = 0 /\ Unused.todo \subseteq SeqsOf(Unused)
      /\ Unused.status = "unused"
  <2> DEFINE r == Request(Stream, 0, 0, FALSE, NoFault, NoSplit)
  <2>1. IsRequest(r, 0, 0, 0, FALSE, NoFault, NoSplit)
    BY RequestFields DEF Stream
  <2>2. Unused = [r EXCEPT !.status = "unused"]
    BY DEF Unused
  <2> HIDE DEF r
  <2> QED
    BY <2>1, <2>2 DEF IsRequest, Batch, Statuses, SeqsOf
<1>2. BatchesOK
  BY <1>1 DEF Init, BatchesOK, BatchIds, Stream
<1>3. 0 \in 0 .. MaxNow /\ 0 \in 0 .. MaxBatches /\ 0 \in 0 .. ChangeBuffer
  OBVIOUS
<1>4. ClockOK
  BY <1>3 DEF Init, ClockOK
<1>5. SettingsOK
  <2>1. autoStopped = FALSE /\ rate = 0 /\ fault = NoFault /\ split = NoSplit
    BY DEF Init
  <2> QED
    BY <2>1 DEF SettingsOK
<1>6. LoopOK
  <2>1. stop = FALSE /\ pc = "none" /\ window = {}
    BY DEF Init
  <2>2. nextSeq = 0 /\ started = 0 /\ carry = 0 /\ changes = 0
    BY DEF Init
  <2>3. nextSeq \in Nat /\ started \in Nat /\ carry \in 0 .. 1 /\ changes \in 0 .. ChangeBuffer
    BY <1>3, <2>2
  <2> QED
    BY <2>1, <2>3 DEF LoopOK
<1>7. MadeOK
  BY <1>3 DEF Init, MadeOK
<1> QED
  BY <1>2, <1>4, <1>5, <1>6, <1>7 DEF TypeInv

(* What a step does to the batches.                                        *)
StatusKept == \A b \in BatchIds :
  \/ batches'[b].status = batches[b].status
  \/ batches[b].status = "running" /\ batches'[b].status = "cancelled"

MakesWindow ==
  /\ Enqueued(ChunkCount(Due), Stream, nextSeq, Due, TRUE, fault, split)
  /\ pc = "loop" /\ window' = (made + 1) .. made' /\ nextSeq' = nextSeq + Due
  /\ Due \in Nat /\ UNCHANGED <<started, base, orders, rerun>>

MakesBurst ==
  \E k \in Nat, n \in Nat, ms \in Millis, f \in Faults \cup {NoFault}, sp \in Splits \cup {NoSplit} :
    /\ Enqueued(k, ms, 1, n, FALSE, f, sp)
    /\ \A i \in 1 .. k : ~Refused(ms, i)
    /\ UNCHANGED <<director, base, orders, rerun>>

LEMMA DueNat == TypeInv => Due \in Nat /\ Carried \in 0 .. 1
<1> SUFFICES ASSUME TypeInv PROVE Due \in Nat /\ Carried \in 0 .. 1
  OBVIOUS
<1>1. carry \in 0 .. 1 /\ rate \in Nat
  BY TrafficAssumption DEF TypeInv, LoopOK, SettingsOK
<1> QED
  BY <1>1 DEF Due, Carried, WindowsPerMinute

LEMMA WindowMakes == TypeInv /\ WindowBegins => MakesWindow
<1> SUFFICES ASSUME TypeInv, WindowBegins PROVE MakesWindow
  OBVIOUS
<1>1. Due \in Nat /\ ChunkCount(Due) \in Nat
  BY DueNat, DivNat, BatchAssumption DEF ChunkCount
<1>2. Enqueued(ChunkCount(Due), Stream, nextSeq, Due, TRUE, fault, split)
  <2>1. Enqueue(ChunkCount(Due), Stream, nextSeq, Due, TRUE, fault, split)
    BY DEF WindowBegins
  <2>2. /\ batches \in [BatchIds -> Batch] /\ made \in Nat /\ Stream \in Nat /\ nextSeq \in Nat
        /\ fault \in Faults \cup {NoFault} /\ split \in Splits \cup {NoSplit}
        /\ ChunkCount(Due) <= ChunkCount(Due)
    BY <1>1 DEF TypeInv, BatchesOK, MadeOK, LoopOK, SettingsOK, Stream
  <2> QED
    BY <1>1, <2>1, <2>2, EnqueueMakes
<1> QED
  BY <1>1, <1>2 DEF WindowBegins, MakesWindow

LEMMA BurstMakes == TypeInv /\ QueueBurst => MakesBurst
<1> SUFFICES ASSUME TypeInv, QueueBurst PROVE MakesBurst
  OBVIOUS
<1>1. PICK n \in BurstSizes, ms \in Millis, f \in Faults \cup {NoFault}, sp \in Splits \cup {NoSplit} :
        /\ \E k \in 1 .. ChunkCount(n) :
             (\A i \in 1 .. k : ~Refused(ms, i)) /\ Enqueue(k, ms, 1, n, FALSE, f, sp)
        /\ UNCHANGED <<director, base, now, orders, rerun>>
  BY DEF QueueBurst
<1>2. PICK k \in 1 .. ChunkCount(n) :
        (\A i \in 1 .. k : ~Refused(ms, i)) /\ Enqueue(k, ms, 1, n, FALSE, f, sp)
  BY <1>1
<1>3. n \in Nat /\ ChunkCount(n) \in Nat /\ ms \in Nat
  BY TrafficAssumption, BatchAssumption, DivNat DEF ChunkCount
<1>4. k \in Nat /\ k <= ChunkCount(n)
  BY <1>3
<1>5. batches \in [BatchIds -> Batch] /\ made \in Nat
  BY DEF TypeInv, BatchesOK, MadeOK
<1>6. Enqueued(k, ms, 1, n, FALSE, f, sp)
  BY <1>2, <1>3, <1>4, <1>5, EnqueueMakes
<1> QED
  BY <1>1, <1>2, <1>3, <1>4, <1>6 DEF MakesBurst

LEMMA Shapes ==
  ASSUME TypeInv, [Next]_vars
  PROVE  \/ /\ UNCHANGED <<batches, made, orders, rerun>>
            /\ base' = made \/ UNCHANGED <<base, nextSeq>>
         \/ \E b \in BatchIds :
              Worked(b) /\ BatchStep(b) /\ UNCHANGED <<made, base, nextSeq>>
         \/ AllTouched /\ StatusKept /\ UNCHANGED <<made, base, nextSeq, orders, rerun>>
         \/ MakesWindow
         \/ MakesBurst
<1> USE DEF steady, activities, progress
<1>0. batches \in [BatchIds -> Batch]
  BY DEF TypeInv, BatchesOK
<1>1. CASE Ensure \/ SetRate \/ SetSplit \/ SetChaos \/ Stop
  BY <1>1 DEF Ensure, SetRate, SetSplit, SetChaos, Stop, Accept
<1>2. CASE LoopStops \/ LoopExpires \/ LoopIdles \/ LoopContinues \/ IdleChanged
  BY <1>2 DEF LoopStops, LoopExpires, LoopIdles, LoopContinues, IdleChanged
<1>3. CASE WindowBegins
  BY <1>3, WindowMakes
<1>4. CASE WindowEnds \/ WindowFails \/ WindowChanged
  <2>1. WindowLeft /\ UNCHANGED <<made, base, nextSeq, orders, rerun>>
    BY <1>4 DEF WindowEnds, WindowFails, WindowChanged
  <2>2. AllTouched /\ StatusKept
    BY <1>0, <2>1, LeavingTouches DEF StatusKept
  <2> QED
    BY <2>1, <2>2
<1>5. CASE QueueBurst
  BY <1>5, BurstMakes
<1>6. CASE Activity
  <2>1. UNCHANGED <<base, nextSeq>>
    BY <1>6 DEF Activity, director
  <2> QED
    BY <1>0, <1>6, <2>1, BatchStepWorks DEF Activity
<1>7. CASE Clock
  <2>1. AllTouched /\ StatusKept
    BY <1>0, <1>7, TickTouches DEF Clock, StatusKept
  <2> QED
    BY <1>7, <2>1 DEF Clock, Tick, director
<1>8. CASE UNCHANGED vars
  BY <1>8 DEF vars, director
<1> QED
  BY <1>1, <1>2, <1>3, <1>4, <1>5, <1>6, <1>7, <1>8 DEF Next, Direct

LEMMA BatchesStep ==
  ASSUME TypeInv, [Next]_vars
  PROVE  BatchesOK'
<1>1. /\ batches \in [BatchIds -> Batch] /\ made \in Nat
      /\ \A b \in BatchIds :
           /\ batches[b] \in Batch
           /\ batches[b].prefix \in {Stream} \cup Millis /\ batches[b].todo \subseteq SeqsOf(batches[b])
           /\ (batches[b].status = "unused" <=> b > made)
  BY DEF TypeInv, BatchesOK, MadeOK
<1>2. CASE UNCHANGED <<batches, made>>
  BY <1>1, <1>2 DEF BatchesOK
<1>3. ASSUME NEW b \in BatchIds, Worked(b), UNCHANGED made
      PROVE  BatchesOK'
  <2>1. SeqsOf(batches'[b]) = SeqsOf(batches[b])
    BY <1>3 DEF Worked, SameRequest, SeqsOf
  <2>2. /\ batches'[b].prefix \in {Stream} \cup Millis /\ batches'[b].todo \subseteq SeqsOf(batches'[b])
        /\ batches'[b].status # "unused" /\ batches[b].status # "unused"
    BY <1>1, <1>3, <2>1 DEF Worked, SameRequest, StatusGoesOn
  <2> QED
    BY <1>1, <1>3, <2>2 DEF BatchesOK, Worked
<1>4. CASE AllTouched /\ StatusKept /\ UNCHANGED made
  <2>1. ASSUME NEW b \in BatchIds
        PROVE  /\ batches'[b].prefix \in {Stream} \cup Millis /\ batches'[b].todo \subseteq SeqsOf(batches'[b])
               /\ (batches'[b].status = "unused" <=> b > made')
    BY <1>1, <1>4 DEF AllTouched, StatusKept, SameRequest, SeqsOf
  <2> QED
    BY <1>4, <2>1 DEF BatchesOK, AllTouched
<1>5. ASSUME NEW k, NEW p \in {Stream} \cup Millis, NEW first, NEW n, NEW paced, NEW f, NEW sp,
             Enqueued(k, p, first, n, paced, f, sp)
      PROVE  BatchesOK'
  <2>1. batches' \in [BatchIds -> Batch] /\ k \in Nat /\ made' = made + k
    BY <1>5 DEF Enqueued
  <2>2. ASSUME NEW b \in BatchIds, b \in (made + 1) .. (made + k)
        PROVE  /\ batches'[b].prefix \in {Stream} \cup Millis /\ batches'[b].todo \subseteq SeqsOf(batches'[b])
               /\ (batches'[b].status = "unused" <=> b > made')
    BY <1>1, <1>5, <2>1, <2>2 DEF Enqueued
  <2>3. ASSUME NEW b \in BatchIds, b \notin (made + 1) .. (made + k)
        PROVE  /\ batches'[b].prefix \in {Stream} \cup Millis /\ batches'[b].todo \subseteq SeqsOf(batches'[b])
               /\ (batches'[b].status = "unused" <=> b > made')
    <3>1. batches'[b] = batches[b]
      BY <1>5, <2>3 DEF Enqueued
    <3>2. b > made <=> b > made'
      BY <1>1, <2>1, <2>3 DEF BatchIds
    <3> QED
      BY <1>1, <3>1, <3>2
  <2> QED
    BY <2>1, <2>2, <2>3 DEF BatchesOK
<1>6. CASE MakesWindow
  BY <1>5, <1>6 DEF MakesWindow
<1>7. CASE MakesBurst
  BY <1>5, <1>7 DEF MakesBurst
<1> QED
  BY <1>2, <1>3, <1>4, <1>6, <1>7, Shapes

(* The other parts, action by action.                                      *)
LEMMA ClockStep ==
  ASSUME TypeInv, [Next]_vars
  PROVE  ClockOK'
<1>1. now \in 0 .. MaxNow /\ stopAt \in 0 .. (now + MaxRun) /\ MaxRun \in Nat /\ MaxNow \in Nat
  BY TrafficAssumption, BatchAssumption DEF TypeInv, ClockOK
<1>2. CASE now' = now /\ stopAt' \in {stopAt, now + MaxRun}
  BY <1>1, <1>2 DEF ClockOK
<1>3. CASE Clock
  <2>1. now' = (IF now < MaxNow THEN now + 1 ELSE now) /\ stopAt' = stopAt
    BY <1>3 DEF Clock, Tick, director
  <2> QED
    BY <1>1, <2>1 DEF ClockOK
<1>4. (now' = now /\ stopAt' \in {stopAt, now + MaxRun}) \/ Clock
  <2> USE DEF steady, activities
  <2>1. CASE Ensure \/ SetRate \/ SetSplit \/ SetChaos \/ Stop
    BY <2>1 DEF Ensure, SetRate, SetSplit, SetChaos, Stop, Accept, Touched
  <2>2. CASE Direct
    BY <2>2 DEF Direct, LoopStops, LoopExpires, LoopIdles, LoopContinues, WindowBegins, WindowEnds,
      WindowFails, WindowChanged, IdleChanged
  <2>3. CASE QueueBurst
    BY <2>3 DEF QueueBurst, director
  <2>4. CASE Activity
    <3>1. now' = now
      BY <2>4, BatchStepWorks DEF Activity, TypeInv, BatchesOK
    <3> QED
      BY <2>4, <3>1 DEF Activity, director
  <2>5. CASE UNCHANGED vars
    BY <2>5 DEF vars, director
  <2> QED
    BY <2>1, <2>2, <2>3, <2>4, <2>5 DEF Next
<1> QED
  BY <1>2, <1>3, <1>4

LEMMA SettingsStep ==
  ASSUME TypeInv, [Next]_vars
  PROVE  SettingsOK'
<1>0. SettingsOK /\ ClockOK
  BY DEF TypeInv
<1> USE DEF SettingsOK
<1>1. CASE Ensure
  BY <1>0, <1>1, TrafficAssumption DEF Ensure
<1>2. CASE SetRate \/ SetSplit \/ SetChaos
  <2>1. /\ autoStopped' = FALSE
        /\ rate' \in Rates /\ fault' \in Faults \cup {NoFault} /\ split' \in Splits \cup {NoSplit}
    BY <1>0, <1>2 DEF SetRate, SetSplit, SetChaos, Touched
  <2> QED
    BY <2>1
<1>3. CASE Stop
  BY <1>0, <1>3, TrafficAssumption DEF Stop, steady
<1>4. CASE LoopExpires
  <2>1. rate' = 0 /\ now >= stopAt /\ UNCHANGED <<fault, split, stopAt, now>> /\ autoStopped' = TRUE
    BY <1>4 DEF LoopExpires, Expired, activities
  <2> QED
    BY <1>0, <2>1, TrafficAssumption
<1>5. CASE LoopContinues
  BY <1>0, <1>5 DEF LoopContinues, settings
<1>6. ASSUME UNCHANGED <<settings, autoStopped, stopAt>>, now' >= now, now' \in Int
      PROVE  SettingsOK'
  BY <1>0, <1>6 DEF settings, ClockOK
<1>7. CASE UNCHANGED <<settings, autoStopped, stopAt>> /\ now' >= now /\ now' \in Int
  BY <1>6, <1>7
<1>8. \/ Ensure \/ SetRate \/ SetSplit \/ SetChaos \/ Stop \/ LoopExpires \/ LoopContinues
      \/ UNCHANGED <<settings, autoStopped, stopAt>>
  <2>1. CASE Direct
    BY <2>1 DEF Direct, LoopStops, LoopIdles, WindowBegins, WindowEnds, WindowFails, WindowChanged,
      IdleChanged
  <2>2. CASE QueueBurst \/ Activity \/ Clock
    BY <2>2 DEF QueueBurst, Activity, Clock, director
  <2>3. CASE UNCHANGED vars
    BY <2>3 DEF vars, director
  <2> QED
    BY <2>1, <2>2, <2>3 DEF Next
<1>9. now' >= now /\ now' \in Int
  <2>1. now \in Int
    BY <1>0 DEF ClockOK
  <2>2. now' = now \/ now' = now + 1
    <3> USE DEF steady, activities
    <3>1. CASE Ensure \/ SetRate \/ SetSplit \/ SetChaos \/ Stop
      BY <3>1 DEF Ensure, SetRate, SetSplit, SetChaos, Stop, Accept
    <3>2. CASE Direct
      BY <3>2 DEF Direct, LoopStops, LoopExpires, LoopIdles, LoopContinues, WindowBegins, WindowEnds,
        WindowFails, WindowChanged, IdleChanged
    <3>3. CASE QueueBurst \/ Clock
      BY <3>3 DEF QueueBurst, Clock, Tick
    <3>4. CASE Activity
      BY <3>4, BatchStepWorks DEF Activity, TypeInv, BatchesOK
    <3>5. CASE UNCHANGED vars
      BY <3>5 DEF vars
    <3> QED
      BY <3>1, <3>2, <3>3, <3>4, <3>5 DEF Next
  <2> QED
    BY <2>1, <2>2
<1> QED
  BY <1>1, <1>2, <1>3, <1>4, <1>5, <1>7, <1>8, <1>9

LEMMA LoopStep ==
  ASSUME TypeInv, [Next]_vars
  PROVE  LoopOK'
<1>0. /\ LoopOK /\ Due \in Nat /\ Carried \in 0 .. 1
      /\ ChangeBuffer \in Nat /\ ChangeBuffer # 0
      /\ \A b \in window : batches[b].ok \in Nat
  <2>1. \A b \in window : b \in BatchIds
    BY BatchAssumption DEF TypeInv, MadeOK, BatchIds
  <2> QED
    BY <2>1, DueNat, TrafficAssumption DEF TypeInv, BatchesOK, Batch
<1> USE DEF LoopOK
<1>1. CASE Ensure
  <2>1. /\ pc' = "loop" /\ nextSeq' = 0 /\ started' = 0 /\ carry' = 0
        /\ stop' = FALSE /\ changes' = 0 /\ window' = {}
    BY <1>1 DEF Ensure
  <2>2. /\ nextSeq' \in Nat /\ started' \in Nat /\ carry' \in 0 .. 1
        /\ changes' \in 0 .. ChangeBuffer
    BY <1>0, <2>1
  <2> QED
    BY <2>1, <2>2
<1>2. CASE SetRate \/ SetSplit \/ SetChaos
  <2>1. UNCHANGED <<pc, nextSeq, started, carry, stop, window>> /\ changes' \in 0 .. ChangeBuffer
    BY <1>0, <1>2 DEF SetRate, SetSplit, SetChaos, Accept, progress, Touched, Send
  <2> QED
    BY <1>0, <2>1
<1>3. CASE Stop
  <2>1. UNCHANGED <<pc, nextSeq, started, carry, window>> /\ changes' \in 0 .. ChangeBuffer
        /\ stop' = TRUE
    BY <1>0, <1>3 DEF Stop, progress, Send
  <2> QED
    BY <1>0, <2>1
<1>4. CASE LoopStops \/ LoopExpires \/ LoopIdles
  <2>1. UNCHANGED <<nextSeq, started, carry, stop, changes, window>> /\ pc = "loop"
        /\ pc' \in {"idle", "done"}
    BY <1>4 DEF LoopStops, LoopExpires, LoopIdles, progress, loop
  <2> QED
    BY <1>0, <2>1
<1>5. CASE LoopContinues
  <2>1. UNCHANGED <<pc, nextSeq, started, stop>> /\ carry' = 0 /\ changes' = 0 /\ window' = {}
    BY <1>5 DEF LoopContinues
  <2> QED
    BY <1>0, <2>1
<1>6. CASE WindowBegins
  <2>1. UNCHANGED <<started, stop, changes>> /\ pc' = "window" /\ carry' = Carried
        /\ nextSeq' = nextSeq + Due
    BY <1>6 DEF WindowBegins
  <2> QED
    BY <1>0, <2>1
<1>7. CASE WindowEnds
  <2>1. PICK b \in window : started' = Counted(b) /\ WindowLeft
          /\ UNCHANGED <<nextSeq, carry, stop, changes>>
    BY <1>7 DEF WindowEnds
  <2>2. started' \in Nat
    BY <1>0, <2>1 DEF Counted
  <2> QED
    BY <1>0, <2>1, <2>2 DEF WindowLeft
<1>8. CASE WindowFails
  <2>1. WindowLeft /\ UNCHANGED <<nextSeq, started, carry, stop, changes>>
    BY <1>8 DEF WindowFails, progress
  <2> QED
    BY <1>0, <2>1 DEF WindowLeft
<1>9. CASE WindowChanged
  <2>1. WindowLeft /\ UNCHANGED <<nextSeq, started, carry, stop>> /\ changes > 0
        /\ changes' = changes - 1
    BY <1>9 DEF WindowChanged, progress
  <2> QED
    BY <1>0, <2>1 DEF WindowLeft
<1>10. CASE IdleChanged
  <2>1. UNCHANGED <<nextSeq, started, carry, stop, window>> /\ changes > 0
        /\ changes' = changes - 1 /\ pc = "idle" /\ pc' = "loop"
    BY <1>10 DEF IdleChanged, progress
  <2> QED
    BY <1>0, <2>1
<1>11. CASE QueueBurst \/ Activity \/ Clock \/ UNCHANGED vars
  BY <1>0, <1>11 DEF QueueBurst, Activity, Clock, vars, director, progress, loop
<1> QED
  BY <1>1, <1>2, <1>3, <1>4, <1>5, <1>6, <1>7, <1>8, <1>9, <1>10, <1>11 DEF Next, Direct

LEMMA MadeStep ==
  ASSUME TypeInv, [Next]_vars
  PROVE  MadeOK'
<1>0. /\ MadeOK /\ made \in Nat /\ MaxBatches \in Nat
  BY BatchAssumption, TrafficAssumption DEF TypeInv, MadeOK
<1> USE DEF MadeOK
<1>1. CASE Ensure
  BY <1>0, <1>1 DEF Ensure, steady
<1>2. CASE SetRate \/ SetSplit \/ SetChaos \/ Stop
  BY <1>0, <1>2 DEF SetRate, SetSplit, SetChaos, Stop, Accept, steady
<1>3. CASE LoopStops \/ LoopExpires \/ LoopIdles \/ LoopContinues \/ IdleChanged
  BY <1>0, <1>3 DEF LoopStops, LoopExpires, LoopIdles, LoopContinues, IdleChanged, steady,
    activities, loop
<1>4. CASE WindowBegins
  <2>1. MakesWindow
    BY <1>4, WindowMakes
  <2>2. PICK k \in Nat : made' = made + k
    BY <2>1 DEF MakesWindow, Enqueued
  <2>3. made' <= MaxBatches /\ window' = (made + 1) .. made' /\ UNCHANGED base
    BY <2>1 DEF MakesWindow, Enqueued
  <2> QED
    BY <1>0, <2>2, <2>3
<1>5. CASE WindowEnds \/ WindowFails \/ WindowChanged
  <2>1. window' = {} /\ UNCHANGED <<made, base>>
    BY <1>5 DEF WindowEnds, WindowFails, WindowChanged, WindowLeft
  <2> QED
    BY <1>0, <2>1
<1>6. CASE QueueBurst
  <2>1. PICK k \in Nat : made' = made + k /\ made' <= MaxBatches
    BY <1>6, BurstMakes DEF MakesBurst, Enqueued
  <2>2. UNCHANGED <<window, base>>
    BY <1>6 DEF QueueBurst, director, loop
  <2> QED
    BY <1>0, <2>1, <2>2
<1>7. CASE Activity
  <2>1. made' = made
    BY <1>7, BatchStepWorks DEF Activity, TypeInv, BatchesOK
  <2> QED
    BY <1>0, <1>7, <2>1 DEF Activity, director, loop
<1>8. CASE Clock \/ UNCHANGED vars
  BY <1>0, <1>8 DEF Clock, Tick, vars, director, loop, activities
<1> QED
  BY <1>1, <1>2, <1>3, <1>4, <1>5, <1>6, <1>7, <1>8 DEF Next, Direct

LEMMA TypeStep == TypeInv /\ [Next]_vars => TypeInv'
  BY BatchesStep, ClockStep, SettingsStep, LoopStep, MadeStep DEF TypeInv

LEMMA TypeInvCorrect == Spec => []TypeInv
  BY TypeInit, TypeStep, PTL DEF Spec

(* The variables have their types; less than an order is carried over; the *)
(* deadline is never further off than MaxRun, and the dashboard's notice   *)
(* that traffic was stopped goes with a rate of zero.                      *)
THEOREM TypeCorrect == Spec => []TypeOK
  BY TypeInvCorrect, TypeParts, PTL

-----------------------------------------------------------------------------
(* The window in force.                                                    *)

LEMMA WindowInit == Init => WindowIsCurrent
  BY DEF Init, WindowIsCurrent

LEMMA WindowStep == TypeInv /\ WindowIsCurrent /\ [Next]_vars => WindowIsCurrent'
<1> SUFFICES ASSUME TypeInv, WindowIsCurrent, [Next]_vars PROVE WindowIsCurrent'
  OBVIOUS
<1>0. /\ batches \in [BatchIds -> Batch] /\ made \in Nat /\ window \subseteq 1 .. made
      /\ 1 .. made \subseteq BatchIds /\ (pc # "window" => window = {})
      /\ changes \in Nat /\ ChangeBuffer \in Nat /\ ChangeBuffer # 0
  BY BatchAssumption, TrafficAssumption DEF TypeInv, BatchesOK, MadeOK, LoopOK, BatchIds
<1> USE DEF WindowIsCurrent
<1>1. CASE Ensure
  <2>1. window = {} /\ window' = {} /\ pc' = "loop" /\ UNCHANGED <<batches, made>>
    BY <1>0, <1>1 DEF Ensure, Running, steady
  <2> QED
    BY <2>1
<1>2. CASE SetRate \/ SetSplit \/ SetChaos \/ Stop
  <2>1. changes' # 0 /\ UNCHANGED <<pc, window, batches, made>>
    BY <1>0, <1>2 DEF SetRate, SetSplit, SetChaos, Stop, Accept, Touched, Send, steady
  <2> QED
    BY <2>1
<1>3. CASE LoopStops \/ LoopExpires \/ LoopIdles \/ LoopContinues \/ IdleChanged
  <2>1. window = {} /\ window' = {} /\ pc' # "window" /\ UNCHANGED <<batches, made>>
    BY <1>0, <1>3 DEF LoopStops, LoopExpires, LoopIdles, LoopContinues, IdleChanged, loop, steady,
      activities
  <2> QED
    BY <2>1
<1>4. CASE WindowBegins
  <2>1. /\ Enqueued(ChunkCount(Due), Stream, nextSeq, Due, TRUE, fault, split)
        /\ pc = "loop" /\ window' = (made + 1) .. made'
    BY <1>4, WindowMakes DEF MakesWindow
  <2>2. ~stop /\ rate > 0 /\ UNCHANGED <<rate, fault, split, stop>>
    BY <1>4 DEF WindowBegins, settings
  <2>3. made' = made + ChunkCount(Due) /\ ChunkCount(Due) \in Nat /\ made' <= MaxBatches
    BY <2>1 DEF Enqueued
  <2>4. \A b \in window' : batches'[b].fault = fault' /\ batches'[b].split = split'
    BY <2>1, <2>2, <2>3 DEF Enqueued
  <2>5. ASSUME NEW b \in 1 .. made', batches'[b].paced /\ batches'[b].status = "running"
        PROVE  b \in window'
    <3>1. CASE b > made
      BY <1>0, <2>1, <2>3, <3>1
    <3>2. CASE b <= made
      <4>1. b \in 1 .. made /\ b \in BatchIds /\ b \notin (made + 1) .. (made + ChunkCount(Due))
        BY <1>0, <2>3, <3>2
      <4>2. batches'[b] = batches[b]
        BY <2>1, <4>1 DEF Enqueued
      <4>3. window = {}
        BY <1>0, <2>1
      <4> QED
        BY <2>5, <4>1, <4>2, <4>3
    <3> QED
      BY <1>0, <2>3, <3>1, <3>2
  <2> QED
    BY <2>2, <2>4, <2>5
<1>5. CASE WindowEnds \/ WindowFails \/ WindowChanged
  <2>1. WindowLeft /\ UNCHANGED <<made, base>>
    BY <1>5 DEF WindowEnds, WindowFails, WindowChanged
  <2>2. \A b \in BatchIds :
          /\ batches'[b].paced = batches[b].paced
          /\ batches'[b].status = IF b \in window /\ batches[b].status = "running"
                                    THEN "cancelled" ELSE batches[b].status
    BY <1>0, <2>1, LeavingTouches DEF AllTouched, SameRequest
  <2>3. pc' = "loop" /\ window' = {}
    BY <2>1 DEF WindowLeft
  <2> QED
    BY <1>0, <2>1, <2>2, <2>3
<1>6. CASE QueueBurst
  <2>1. PICK k \in Nat, n \in Nat, ms \in Millis, f \in Faults \cup {NoFault},
             sp \in Splits \cup {NoSplit} :
          Enqueued(k, ms, 1, n, FALSE, f, sp) /\ UNCHANGED director
    BY <1>6, BurstMakes DEF MakesBurst
  <2>2. UNCHANGED <<pc, rate, fault, split, stop, changes, window>>
    BY <2>1 DEF director, settings, loop
  <2>3. made' = made + k
    BY <2>1 DEF Enqueued
  <2>4. ASSUME NEW b \in 1 .. made
        PROVE  batches'[b] = batches[b]
    <3>1. b \in BatchIds /\ b \notin (made + 1) .. (made + k)
      BY <1>0
    <3> QED
      BY <2>1, <3>1 DEF Enqueued
  <2>5. ASSUME NEW b \in (made + 1) .. (made + k)
        PROVE  batches'[b].paced = FALSE
    BY <2>1 DEF Enqueued
  <2>6. ASSUME NEW b \in 1 .. made', batches'[b].paced /\ batches'[b].status = "running"
        PROVE  b \in window'
    <3>1. b \in 1 .. made \/ b \in (made + 1) .. (made + k)
      BY <1>0, <2>3
    <3> QED
      BY <2>2, <2>4, <2>5, <2>6, <3>1
  <2>7. \A b \in window : batches'[b] = batches[b]
    BY <1>0, <2>4
  <2> QED
    BY <2>2, <2>6, <2>7
<1>7. CASE Activity
  <2>1. PICK b \in BatchIds : Worked(b) /\ made' = made
    BY <1>0, <1>7, BatchStepWorks DEF Activity
  <2>2. UNCHANGED <<pc, rate, fault, split, stop, changes, window>>
    BY <1>7 DEF Activity, director, settings, loop
  <2>3. \A c \in BatchIds :
          /\ SameRequest(batches'[c], batches[c])
          /\ batches'[c].status = "running" => batches[c].status = "running"
    BY <2>1 DEF Worked, SameRequest, StatusGoesOn
  <2> QED
    BY <1>0, <2>1, <2>2, <2>3 DEF SameRequest
<1>8. CASE Clock
  <2>1. UNCHANGED <<pc, rate, fault, split, stop, changes, window, made>>
    BY <1>8 DEF Clock, Tick, director, settings, loop
  <2>2. \A c \in BatchIds :
          SameRequest(batches'[c], batches[c]) /\ batches'[c].status = batches[c].status
    BY <1>0, <1>8, TickTouches DEF Clock, AllTouched
  <2> QED
    BY <1>0, <2>1, <2>2 DEF SameRequest
<1>9. CASE UNCHANGED vars
  BY <1>9 DEF vars, director, settings, loop, activities
<1> QED
  BY <1>1, <1>2, <1>3, <1>4, <1>5, <1>6, <1>7, <1>8, <1>9 DEF Next, Direct

(* Batches that have not been told to stop are the window's, and carry the *)
(* fault and the split the operators asked for last, or the loop is about  *)
(* to be woken to leave the window.                                        *)
THEOREM WindowCurrent == Spec => []WindowIsCurrent
  BY TypeInvCorrect, WindowInit, WindowStep, PTL DEF Spec

LEMMA IdleStep == TypeInv /\ IdleIsMeant /\ [Next]_vars => IdleIsMeant'
<1> SUFFICES ASSUME TypeInv, IdleIsMeant, [Next]_vars PROVE IdleIsMeant'
  OBVIOUS
<1> USE DEF IdleIsMeant
<1>0. changes \in Nat /\ ChangeBuffer \in Nat /\ ChangeBuffer # 0
  BY TrafficAssumption DEF TypeInv, LoopOK
<1>1. CASE Ensure \/ LoopStops \/ LoopContinues \/ WindowBegins \/ IdleChanged
  <2>1. pc' = "loop" \/ pc' = "done" \/ pc' = "window"
    BY <1>1 DEF Ensure, LoopStops, LoopContinues, WindowBegins, IdleChanged
  <2> QED
    BY <2>1
<1>2. CASE WindowEnds \/ WindowFails \/ WindowChanged
  BY <1>2 DEF WindowEnds, WindowFails, WindowChanged, WindowLeft
<1>3. CASE SetRate \/ SetSplit \/ SetChaos \/ Stop
  <2>1. changes' # 0
    BY <1>0, <1>3 DEF SetRate, SetSplit, SetChaos, Stop, Accept, Touched, Send
  <2> QED
    BY <2>1
<1>4. CASE LoopExpires \/ LoopIdles
  <2>1. ~stop' /\ rate' = 0
    BY <1>4 DEF LoopExpires, LoopIdles, settings, loop
  <2> QED
    BY <2>1
<1>5. CASE QueueBurst \/ Activity \/ Clock \/ UNCHANGED vars
  <2>1. UNCHANGED <<pc, rate, stop, changes>>
    BY <1>5 DEF QueueBurst, Activity, Clock, vars, director, settings, loop
  <2> QED
    BY <2>1
<1> QED
  BY <1>1, <1>2, <1>3, <1>4, <1>5 DEF Next, Direct

(* A director that waits without a note to wake it has been given neither  *)
(* a stop nor a rate it does not know of.                                  *)
THEOREM IdleMeant == Spec => []IdleIsMeant
<1>1. Init => IdleIsMeant
  BY DEF Init, IdleIsMeant
<1> QED
  BY <1>1, TypeInvCorrect, IdleStep, PTL DEF Spec

-----------------------------------------------------------------------------
(* Order numbers.                                                          *)

(* The director's batches have the stream's name, a burst's another one.   *)
Named == \A b \in 1 .. made : batches[b].paced <=> batches[b].prefix = Stream

(* What this director has numbered lies below its next number.             *)
Numbered == \A b \in 1 .. made :
  batches[b].prefix = Stream /\ b > base => batches[b].first + batches[b].count <= nextSeq

(* Batches of one director have no number in common.                       *)
Apart == \A b, c \in 1 .. made :
  /\ b # c /\ batches[b].prefix = Stream /\ batches[c].prefix = Stream
  /\ b > base /\ c > base
  => SeqsOf(batches[b]) \cap SeqsOf(batches[c]) = {}

NumbersInv == Named /\ Numbered /\ Apart

LEMMA NumbersInit == Init => NumbersInv
  BY DEF Init, NumbersInv, Named, Numbered, Apart

(* Nothing but new batches can disturb the numbers.                        *)
LEMMA NumbersKept ==
  ASSUME TypeInv, NumbersInv, made' = made,
         \A b \in BatchIds : SameRequest(batches'[b], batches[b]),
         base' = made \/ UNCHANGED <<base, nextSeq>>
  PROVE  NumbersInv'
<1>1. \A b \in 1 .. made : b \in BatchIds
  BY BatchAssumption DEF TypeInv, MadeOK, BatchIds
<1>2. \A b \in 1 .. made : SameRequest(batches'[b], batches[b])
  BY <1>1
<1>3. \A b \in 1 .. made : SeqsOf(batches'[b]) = SeqsOf(batches[b])
  BY <1>2 DEF SeqsOf, SameRequest
<1>4. made \in Int /\ base \in Int /\ base <= made /\ \A b \in 1 .. made : b \in Int /\ b <= made
  BY DEF TypeInv, MadeOK
<1>5. \A b \in 1 .. made : b > base' => b > base /\ nextSeq' = nextSeq
  BY <1>4
<1>6. Named'
  BY <1>2 DEF NumbersInv, Named, SameRequest
<1>7. Numbered'
  BY <1>2, <1>5 DEF NumbersInv, Numbered, SameRequest
<1>8. Apart'
  BY <1>2, <1>3, <1>5 DEF NumbersInv, Apart, SameRequest
<1> QED
  BY <1>6, <1>7, <1>8 DEF NumbersInv

(* The batches of one request: they have its numbers, and none in common.  *)
LEMMA EnqueuedSeqs ==
  ASSUME made \in Nat, NEW k, NEW prefix, NEW first \in Nat, NEW n \in Nat, NEW paced, NEW f, NEW sp,
         Enqueued(k, prefix, first, n, paced, f, sp)
  PROVE  /\ \A b \in (made + 1) .. (made + k) :
              /\ batches'[b].first \in Nat /\ batches'[b].count \in Nat
              /\ first <= batches'[b].first /\ batches'[b].first + batches'[b].count <= first + n
         /\ \A b, c \in (made + 1) .. (made + k) :
              b < c => batches'[b].first + batches'[b].count <= batches'[c].first
<1> DEFINE x(b) == (b - made - 1) * OrdersPerActivity
           y(b) == ChunkSize(n, b - made)
<1>1. ASSUME NEW b \in (made + 1) .. (made + k)
      PROVE  /\ b - made \in 1 .. ChunkCount(n)
             /\ batches'[b].first = first + x(b) /\ batches'[b].count = y(b)
             /\ x(b) \in Nat /\ y(b) \in Nat /\ x(b) + y(b) <= n
  <2>1. b - made \in 1 .. ChunkCount(n)
        /\ batches'[b].first = first + x(b) /\ batches'[b].count = y(b)
    BY DEF Enqueued
  <2>2. /\ (b - made - 1) * OrdersPerActivity \in Nat /\ y(b) \in Nat
        /\ (b - made - 1) * OrdersPerActivity + y(b) <= n
    BY <2>1, ChunksFollow
  <2> QED
    BY <2>1, <2>2
<1>2. ASSUME NEW b \in (made + 1) .. (made + k), NEW c \in (made + 1) .. (made + k), b < c
      PROVE  x(b) + y(b) <= x(c)
  <2>1. b - made \in 1 .. ChunkCount(n) /\ c - made \in 1 .. ChunkCount(n) /\ b - made < c - made
    BY <1>1, <1>2
  <2> QED
    BY <2>1, ChunksApart
<1> HIDE DEF x, y
<1>3. ASSUME NEW b \in (made + 1) .. (made + k)
      PROVE  /\ batches'[b].first \in Nat /\ batches'[b].count \in Nat
             /\ first <= batches'[b].first /\ batches'[b].first + batches'[b].count <= first + n
  BY <1>1
<1>4. ASSUME NEW b \in (made + 1) .. (made + k), NEW c \in (made + 1) .. (made + k), b < c
      PROVE  batches'[b].first + batches'[b].count <= batches'[c].first
  BY <1>1, <1>2, <1>4
<1> QED
  BY <1>3, <1>4

(* Requests that follow one another have no number in common.              *)
LEMMA FollowingApart ==
  ASSUME NEW q, NEW r, q.first \in Int, q.count \in Int, r.first \in Int, r.count \in Int,
         q.first + q.count <= r.first
  PROVE  SeqsOf(q) \cap SeqsOf(r) = {} /\ SeqsOf(r) \cap SeqsOf(q) = {}
  BY DEF SeqsOf

LEMMA NumbersMade ==
  ASSUME TypeInv, NumbersInv,
         NEW k, NEW prefix \in Nat, NEW first \in Nat, NEW n \in Nat, NEW paced \in BOOLEAN, NEW f, NEW sp,
         Enqueued(k, prefix, first, n, paced, f, sp), base' = base,
         paced <=> prefix = Stream,
         prefix = Stream => first = nextSeq /\ nextSeq' = nextSeq + n,
         prefix # Stream => nextSeq' = nextSeq
  PROVE  NumbersInv'
<1>0. /\ made \in Nat /\ nextSeq \in Nat /\ base \in Int /\ base <= made
      /\ k \in Nat /\ made' = made + k
      /\ \A b \in 1 .. made :
           b \in BatchIds /\ batches[b].first \in Nat /\ batches[b].count \in Nat
  <2>1. /\ made \in Nat /\ nextSeq \in Nat /\ base \in Int /\ base <= made
        /\ \A b \in 1 .. made : b \in BatchIds
    BY BatchAssumption DEF TypeInv, MadeOK, LoopOK, BatchIds
  <2>2. \A b \in BatchIds :
          /\ batches[b].first \in Nat /\ batches[b].count \in Nat
    BY DEF TypeInv, BatchesOK, Batch
  <2>3. k \in Nat /\ made' = made + k
    BY DEF Enqueued
  <2> QED
    BY <2>1, <2>2, <2>3
<1>1. \A b \in 1 .. made' : b \in 1 .. made \/ b \in (made + 1) .. (made + k)
  BY <1>0
<1>2. \A b \in 1 .. made : batches'[b] = batches[b]
  <2>1. \A b \in 1 .. made : b \in BatchIds /\ b \notin (made + 1) .. (made + k)
    BY <1>0
  <2> QED
    BY <2>1 DEF Enqueued
<1>3. \A b \in (made + 1) .. (made + k) : batches'[b].prefix = prefix /\ batches'[b].paced = paced
  BY DEF Enqueued
<1>4. /\ \A b \in (made + 1) .. (made + k) :
            /\ batches'[b].first \in Nat /\ batches'[b].count \in Nat
            /\ first <= batches'[b].first /\ batches'[b].first + batches'[b].count <= first + n
      /\ \A b, c \in (made + 1) .. (made + k) :
            b < c => batches'[b].first + batches'[b].count <= batches'[c].first
  BY <1>0, EnqueuedSeqs
<1>5. Named'
  BY <1>1, <1>2, <1>3 DEF NumbersInv, Named
<1>6. Numbered'
  <2>1. ASSUME NEW b \in 1 .. made', batches'[b].prefix = Stream, b > base
        PROVE  batches'[b].first + batches'[b].count <= nextSeq'
    <3>1. CASE b \in 1 .. made
      <4>1. batches[b].first + batches[b].count <= nextSeq
        BY <1>2, <2>1, <3>1 DEF NumbersInv, Numbered
      <4>2. nextSeq <= nextSeq' /\ nextSeq' \in Int
        BY <1>0
      <4> QED
        BY <1>0, <1>2, <3>1, <4>1, <4>2
    <3>2. CASE b \in (made + 1) .. (made + k)
      BY <1>0, <1>3, <1>4, <2>1, <3>2
    <3> QED
      BY <1>1, <3>1, <3>2
  <2> QED
    BY <2>1 DEF Numbered
<1>7. Apart'
  <2>1. ASSUME NEW b \in (made + 1) .. (made + k), NEW c \in 1 .. made,
               batches'[b].prefix = Stream, batches'[c].prefix = Stream, b > base, c > base
        PROVE  /\ SeqsOf(batches'[b]) \cap SeqsOf(batches'[c]) = {}
               /\ SeqsOf(batches'[c]) \cap SeqsOf(batches'[b]) = {}
    <3>1. prefix = Stream
      BY <1>3, <2>1
    <3>2. c > base /\ batches[c].prefix = Stream
      BY <1>2, <1>3, <2>1, <3>1
    <3>3. batches[c].first + batches[c].count <= nextSeq
      BY <3>2 DEF NumbersInv, Numbered
    <3>4. nextSeq <= batches'[b].first
      BY <1>4, <3>1
    <3>5. batches'[c].first + batches'[c].count <= batches'[b].first
      BY <1>0, <1>2, <1>4, <3>3, <3>4
    <3> QED
      BY <1>0, <1>2, <1>4, <3>5, FollowingApart
  <2>2. ASSUME NEW b \in (made + 1) .. (made + k), NEW c \in (made + 1) .. (made + k), b # c
        PROVE  SeqsOf(batches'[b]) \cap SeqsOf(batches'[c]) = {}
    <3>1. b < c \/ c < b
      BY <2>2
    <3> QED
      BY <1>4, <3>1, FollowingApart
  <2>3. ASSUME NEW b \in 1 .. made', NEW c \in 1 .. made', b # c,
               batches'[b].prefix = Stream, batches'[c].prefix = Stream, b > base, c > base
        PROVE  SeqsOf(batches'[b]) \cap SeqsOf(batches'[c]) = {}
    <3>1. CASE b \in 1 .. made /\ c \in 1 .. made
      BY <1>2, <2>3, <3>1 DEF NumbersInv, Apart
    <3>2. CASE b \in (made + 1) .. (made + k) /\ c \in 1 .. made
      BY <2>1, <2>3, <3>2
    <3>3. CASE c \in (made + 1) .. (made + k) /\ b \in 1 .. made
      BY <2>1, <2>3, <3>3
    <3>4. CASE b \in (made + 1) .. (made + k) /\ c \in (made + 1) .. (made + k)
      BY <2>2, <2>3, <3>4
    <3> QED
      BY <1>1, <3>1, <3>2, <3>3, <3>4
  <2> QED
    BY <2>3 DEF Apart
<1> QED
  BY <1>5, <1>6, <1>7 DEF NumbersInv

LEMMA NumbersStep == TypeInv /\ NumbersInv /\ [Next]_vars => NumbersInv'
<1> SUFFICES ASSUME TypeInv, NumbersInv, [Next]_vars PROVE NumbersInv'
  OBVIOUS
<1>1. CASE UNCHANGED <<batches, made>> /\ (base' = made \/ UNCHANGED <<base, nextSeq>>)
  BY <1>1, NumbersKept DEF SameRequest
<1>2. ASSUME NEW b \in BatchIds, Worked(b), UNCHANGED <<made, base, nextSeq>>
      PROVE  NumbersInv'
  BY <1>2, NumbersKept DEF Worked, SameRequest
<1>3. CASE AllTouched /\ UNCHANGED <<made, base, nextSeq>>
  BY <1>3, NumbersKept DEF AllTouched
<1>4. CASE MakesWindow
  <2>1. /\ Enqueued(ChunkCount(Due), Stream, nextSeq, Due, TRUE, fault, split)
        /\ nextSeq' = nextSeq + Due /\ Due \in Nat /\ base' = base
    BY <1>4 DEF MakesWindow
  <2>2. nextSeq \in Nat /\ Stream \in Nat
    BY DEF TypeInv, LoopOK, Stream
  <2> QED
    BY <2>1, <2>2, NumbersMade
<1>5. CASE MakesBurst
  <2>1. PICK k \in Nat, n \in Nat, ms \in Millis, f \in Faults \cup {NoFault},
             sp \in Splits \cup {NoSplit} :
          Enqueued(k, ms, 1, n, FALSE, f, sp)
    BY <1>5 DEF MakesBurst
  <2>2. ms \in Nat /\ ms # Stream
    BY TrafficAssumption DEF Stream
  <2>3. nextSeq' = nextSeq /\ base' = base
    BY <1>5 DEF MakesBurst, director, progress
  <2> QED
    BY <2>1, <2>2, <2>3, NumbersMade
<1> QED
  BY <1>1, <1>2, <1>3, <1>4, <1>5, Shapes

(* The batches of bursts.                                                  *)

(* The batches of a burst are cut from its orders at the same places as    *)
(* any other's.                                                            *)
Cut(r) == \E i \in Nat : r.first = 1 + i * OrdersPerActivity /\ r.count <= OrdersPerActivity

(* Two with an order in common are the same-numbered batches of two        *)
(* bursts, and the server lets one of them run at a time.                  *)
Alone == \A b, c \in 1 .. made :
  /\ b # c /\ batches[b].prefix # Stream /\ batches[b].prefix = batches[c].prefix
  /\ SeqsOf(batches[b]) \cap SeqsOf(batches[c]) # {}
  => ~(Live(b) /\ Live(c))

BurstsInv ==
  /\ \A b \in 1 .. made : batches[b].prefix # Stream => Cut(batches[b])
  /\ Alone

LEMMA BurstsInit == Init => BurstsInv
  BY DEF Init, BurstsInv, Alone

LEMMA CutAlike ==
  ASSUME NEW q \in Batch, NEW r \in Batch, Cut(q), Cut(r), SeqsOf(q) \cap SeqsOf(r) # {}
  PROVE  q.first = r.first
<1> DEFINE p == OrdersPerActivity
<1>1. p \in Nat
  BY BatchAssumption
<1>2. PICK i \in Nat : q.first = 1 + i * p /\ q.count <= p
  BY DEF Cut
<1>3. PICK j \in Nat : r.first = 1 + j * p /\ r.count <= p
  BY DEF Cut
<1>4. q.first \in Nat /\ q.count \in Nat /\ r.first \in Nat /\ r.count \in Nat
  BY DEF Batch
<1>5. ASSUME NEW a \in Nat, NEW z \in Nat, a < z PROVE a * p + p <= z * p
  <2>1. (a + 1) * p <= z * p
    BY <1>1, <1>5, TimesMonotone
  <2>2. (a + 1) * p = a * p + p
    BY <1>1
  <2> QED
    BY <2>1, <2>2
<1>6. i * p \in Nat /\ j * p \in Nat
  BY <1>1
<1>7. CASE i < j
  <2>1. i * p + p <= j * p
    BY <1>5, <1>7
  <2>2. q.first + q.count <= r.first
    BY <1>1, <1>2, <1>3, <1>4, <1>6, <2>1
  <2> QED
    BY <1>4, <2>2, FollowingApart
<1>8. CASE j < i
  <2>1. j * p + p <= i * p
    BY <1>5, <1>8
  <2>2. r.first + r.count <= q.first
    BY <1>1, <1>2, <1>3, <1>4, <1>6, <2>1
  <2> QED
    BY <1>4, <2>2, FollowingApart
<1>9. CASE i = j
  BY <1>2, <1>3, <1>9
<1> QED
  BY <1>7, <1>8, <1>9

(* A step that makes no batch starts none again.                           *)
LEMMA BurstsKept ==
  ASSUME TypeInv, BurstsInv, made' = made,
         \A b \in BatchIds : SameRequest(batches'[b], batches[b]),
         \A b \in BatchIds : batches'[b].status \in {"running", "cancelled"} => Live(b)
  PROVE  BurstsInv'
<1>1. \A b \in 1 .. made : b \in BatchIds
  BY BatchAssumption DEF TypeInv, MadeOK, BatchIds
<1>2. \A b \in 1 .. made : /\ SameRequest(batches'[b], batches[b])
                           /\ SeqsOf(batches'[b]) = SeqsOf(batches[b])
                           /\ (Live(b)' => Live(b))
  BY <1>1 DEF SeqsOf, SameRequest, Live
<1>3. \A b \in 1 .. made' : batches'[b].prefix # Stream => Cut(batches'[b])
  BY <1>2 DEF BurstsInv, Cut, SameRequest
<1>4. Alone'
  BY <1>2 DEF BurstsInv, Alone, SameRequest
<1> QED
  BY <1>3, <1>4 DEF BurstsInv

LEMMA BurstsStep == TypeInv /\ BurstsInv /\ [Next]_vars => BurstsInv'
<1> SUFFICES ASSUME TypeInv, BurstsInv, [Next]_vars PROVE BurstsInv'
  OBVIOUS
<1>0. /\ batches \in [BatchIds -> Batch] /\ made \in Nat
      /\ \A b \in 1 .. made : b \in BatchIds /\ batches[b] \in Batch
  <2>1. \A b \in 1 .. made : b \in BatchIds
    BY BatchAssumption DEF TypeInv, MadeOK, BatchIds
  <2> QED
    BY <2>1 DEF TypeInv, BatchesOK, MadeOK
<1>1. CASE UNCHANGED <<batches, made>>
  BY <1>1, BurstsKept DEF SameRequest, Live
<1>2. ASSUME NEW b \in BatchIds, Worked(b), UNCHANGED made
      PROVE  BurstsInv'
  BY <1>2, BurstsKept DEF Worked, SameRequest, StatusGoesOn, Live
<1>3. CASE AllTouched /\ StatusKept /\ UNCHANGED made
  BY <1>3, BurstsKept DEF AllTouched, StatusKept, Live
<1>4. ASSUME NEW k, NEW prefix, NEW first, NEW n, NEW paced, NEW f, NEW sp,
             Enqueued(k, prefix, first, n, paced, f, sp)
      PROVE  /\ k \in Nat /\ made' = made + k
             /\ \A b \in 1 .. made : batches'[b] = batches[b] /\ (Live(b)' <=> Live(b))
             /\ \A b \in 1 .. made' : b \in 1 .. made \/ b \in (made + 1) .. (made + k)
  <2>1. k \in Nat /\ made' = made + k
    BY <1>4 DEF Enqueued
  <2>2. \A b \in 1 .. made : b \in BatchIds /\ b \notin (made + 1) .. (made + k)
    BY <1>0, <2>1
  <2>3. \A b \in 1 .. made : batches'[b] = batches[b]
    BY <1>4, <2>2 DEF Enqueued
  <2> QED
    BY <1>0, <2>1, <2>3 DEF Live
<1>5. CASE MakesWindow
  <2> DEFINE k == ChunkCount(Due)
  <2>1. Enqueued(k, Stream, nextSeq, Due, TRUE, fault, split)
    BY <1>5 DEF MakesWindow
  <2>2. /\ k \in Nat /\ made' = made + k
        /\ \A b \in 1 .. made : batches'[b] = batches[b] /\ (Live(b)' <=> Live(b))
        /\ \A b \in 1 .. made' : b \in 1 .. made \/ b \in (made + 1) .. (made + k)
    BY <1>4, <2>1
  <2>3. \A b \in (made + 1) .. (made + k) : batches'[b].prefix = Stream
    BY <2>1 DEF Enqueued
  <2> HIDE DEF k
  <2>4. \A b \in 1 .. made' : batches'[b].prefix # Stream => b \in 1 .. made
    BY <2>2, <2>3
  <2>5. \A b \in 1 .. made' : batches'[b].prefix # Stream => Cut(batches'[b])
    BY <2>2, <2>4 DEF BurstsInv
  <2>6. Alone'
    BY <2>2, <2>4 DEF BurstsInv, Alone
  <2> QED
    BY <2>5, <2>6 DEF BurstsInv
<1>6. CASE MakesBurst
  <2>1. PICK k \in Nat, n \in Nat, ms \in Millis, f \in Faults \cup {NoFault},
             sp \in Splits \cup {NoSplit} :
          Enqueued(k, ms, 1, n, FALSE, f, sp) /\ \A i \in 1 .. k : ~Refused(ms, i)
    BY <1>6 DEF MakesBurst
  <2> DEFINE new == (made + 1) .. (made + k)
  <2>2. /\ made' = made + k
        /\ \A b \in 1 .. made : batches'[b] = batches[b] /\ (Live(b)' <=> Live(b))
        /\ \A b \in 1 .. made' : b \in 1 .. made \/ b \in new
    BY <1>4, <2>1
  <2>3. ASSUME NEW b \in new
        PROVE  /\ batches'[b] \in Batch /\ batches'[b].prefix = ms
               /\ b - made \in 1 .. k /\ batches'[b].first = ChunkFirst(1, b - made)
               /\ Cut(batches'[b])
    <3>1. /\ b \in BatchIds /\ b - made \in 1 .. ChunkCount(n) /\ batches'[b].prefix = ms
          /\ batches'[b].first = 1 + (b - made - 1) * OrdersPerActivity
          /\ batches'[b].count = ChunkSize(n, b - made) /\ batches' \in [BatchIds -> Batch]
      BY <2>1 DEF Enqueued
    <3>2. ChunkSize(n, b - made) <= OrdersPerActivity
      BY <3>1, ChunksFollow
    <3>3. b - made \in 1 .. k /\ b - made - 1 \in Nat
      BY <1>0
    <3>4. Cut(batches'[b])
      BY <3>1, <3>2, <3>3 DEF Cut
    <3> QED
      BY <3>1, <3>3, <3>4 DEF ChunkFirst
  <2>4. \A b, c \in new : b < c => batches'[b].first + batches'[b].count <= batches'[c].first
    BY <1>0, <2>1, EnqueuedSeqs
  <2>5. ASSUME NEW b \in new, NEW c \in new, b # c
        PROVE  SeqsOf(batches'[b]) \cap SeqsOf(batches'[c]) = {}
    <3>1. /\ batches'[b].first \in Int /\ batches'[b].count \in Int
          /\ batches'[c].first \in Int /\ batches'[c].count \in Int
      BY <2>3 DEF Batch
    <3>2. b < c \/ c < b
      BY <2>5
    <3> QED
      BY <2>4, <3>1, <3>2, FollowingApart
  <2>6. ASSUME NEW b \in new, NEW c \in 1 .. made, batches'[c].prefix = ms,
               SeqsOf(batches'[b]) \cap SeqsOf(batches'[c]) # {}
        PROVE  ~Live(c)'
    <3>1. ms # Stream
      BY TrafficAssumption DEF Stream
    <3>2. batches'[c] \in Batch /\ batches[c].prefix = ms /\ Cut(batches'[c])
      BY <1>0, <2>2, <2>6, <3>1 DEF BurstsInv
    <3>3. batches'[b].first = batches'[c].first
      BY <2>3, <2>6, <3>2, CutAlike
    <3>4. b - made \in 1 .. k /\ batches[c].first = ChunkFirst(1, b - made)
      BY <2>2, <2>3, <3>3
    <3>5. ~Live(c)
      BY <2>1, <3>2, <3>4 DEF Refused
    <3> QED
      BY <2>2, <3>5
  <2> HIDE DEF new
  <2>7. \A b \in 1 .. made' : batches'[b].prefix # Stream => Cut(batches'[b])
    BY <2>2, <2>3 DEF BurstsInv
  <2>8. ASSUME NEW b \in 1 .. made', NEW c \in 1 .. made', b # c, batches'[b].prefix # Stream,
               batches'[b].prefix = batches'[c].prefix,
               SeqsOf(batches'[b]) \cap SeqsOf(batches'[c]) # {}
        PROVE  ~Live(b)' \/ ~Live(c)'
    <3>1. CASE b \in 1 .. made /\ c \in 1 .. made
      BY <2>2, <2>8, <3>1 DEF BurstsInv, Alone
    <3>2. CASE b \in new /\ c \in 1 .. made
      BY <2>3, <2>6, <2>8, <3>2
    <3>3. CASE c \in new /\ b \in 1 .. made
      BY <2>3, <2>6, <2>8, <3>3
    <3>4. CASE b \in new /\ c \in new
      BY <2>5, <2>8, <3>4
    <3> QED
      BY <2>2, <3>1, <3>2, <3>3, <3>4
  <2>9. Alone'
    BY <2>8 DEF Alone
  <2> QED
    BY <2>7, <2>9 DEF BurstsInv
<1> QED
  BY <1>1, <1>2, <1>3, <1>5, <1>6, Shapes

-----------------------------------------------------------------------------
(* The orders that are started.                                            *)

(* An attempt at an order: it starts it, finds it, or fails to.            *)
Attempted(b) == \E x \in batches[b].todo :
  /\ batches'[b].todo = batches[b].todo \ {x} /\ batches'[b].attempt = batches[b].attempt
  /\ \/ /\ orders' = orders \cup {OrderID(b, x)} /\ rerun' = rerun
        /\ OrderID(b, x) \notin orders /\ batches'[b].ok = batches[b].ok + 1
     \/ /\ orders' = orders /\ OrderID(b, x) \in orders
        /\ rerun' = rerun \cup {OrderID(b, x)} \/ rerun' = rerun
        /\ batches'[b].ok \in {batches[b].ok, batches[b].ok + 1}
     \/ UNCHANGED <<orders, rerun>> /\ batches'[b].ok = batches[b].ok

(* Or the batch ends, or is tried anew.                                    *)
TriedAnew(b) ==
  /\ UNCHANGED <<orders, rerun>>
  /\ \/ batches'[b].todo \subseteq batches[b].todo /\ batches'[b].ok = batches[b].ok
     \/ batches'[b].ok = 0

LEMMA BatchStepOrders ==
  ASSUME batches \in [BatchIds -> Batch], NEW b \in BatchIds, BatchStep(b)
  PROVE  Attempted(b) \/ TriedAnew(b)
<1>1. ASSUME NEW x \in NextOut(b),
             Starts(b, x) \/ StartsAgain(b, x) \/ FindsRunning(b, x) \/ StartFails(b, x)
      PROVE  Attempted(b)
  <2>1. x \in batches[b].todo
    BY DEF NextOut
  <2>2. ASSUME NEW a \in BOOLEAN, Try(b, x, a)
        PROVE  /\ batches'[b].todo = batches[b].todo \ {x} /\ batches'[b].attempt = batches[b].attempt
               /\ batches'[b].ok = IF a THEN batches[b].ok + 1 ELSE batches[b].ok
    BY <2>2, TryWorks
  <2>3. CASE Starts(b, x)
    BY <2>1, <2>2, <2>3 DEF Starts, Attempted
  <2>4. CASE StartsAgain(b, x)
    BY <2>1, <2>2, <2>4 DEF StartsAgain, Attempted
  <2>5. CASE FindsRunning(b, x)
    <3>1. (batches[b].split = NoSplit) \in BOOLEAN /\ Try(b, x, batches[b].split = NoSplit)
      BY <2>5 DEF FindsRunning
    <3>2. /\ batches'[b].todo = batches[b].todo \ {x} /\ batches'[b].attempt = batches[b].attempt
          /\ batches'[b].ok \in {batches[b].ok, batches[b].ok + 1}
      BY <2>2, <3>1
    <3> QED
      BY <2>1, <2>5, <3>2 DEF FindsRunning, Attempted
  <2>6. CASE StartFails(b, x)
    BY <2>1, <2>2, <2>6 DEF StartFails, Attempted
  <2> QED
    BY <1>1, <2>3, <2>4, <2>5, <2>6
<1>2. CASE BatchEnds(b)
  <2>1. batches'[b] = [batches[b] EXCEPT !.status = "done", !.wait = 0]
    BY <1>2 DEF BatchEnds
  <2>2. batches'[b].todo = batches[b].todo /\ batches'[b].ok = batches[b].ok
    BY <2>1 DEF Batch
  <2> QED
    BY <1>2, <2>2 DEF BatchEnds, TriedAnew
<1>3. CASE AttemptFails(b)
  <2>1. CASE batches[b].attempt < Attempts(b)
    <3>1. batches' = [batches EXCEPT ![b] = Retry(b)] /\ batches[b].status = "running"
      BY <1>3, <2>1 DEF AttemptFails
    <3>2. batches'[b].ok = 0
      BY <3>1, RetryWorks
    <3> QED
      BY <1>3, <3>2 DEF AttemptFails, TriedAnew
  <2>2. CASE ~(batches[b].attempt < Attempts(b))
    <3>1. batches' = [batches EXCEPT ![b] = Ended(batches[b], "failed", {})]
      BY <1>3, <2>2 DEF AttemptFails, Ended
    <3>2. batches'[b].todo = {} /\ batches'[b].ok = batches[b].ok
      BY <1>3, <3>1, EndWorks DEF AttemptFails, Statuses
    <3> QED
      BY <1>3, <3>2 DEF AttemptFails, TriedAnew
  <2> QED
    BY <2>1, <2>2
<1>4. CASE Notices(b)
  <2>1. batches' = [batches EXCEPT ![b] = Ended(batches[b], "abandoned", {})]
    BY <1>4 DEF Notices, Ended
  <2>2. batches'[b].todo = {} /\ batches'[b].ok = batches[b].ok
    BY <1>4, <2>1, EndWorks DEF Notices, Statuses
  <2> QED
    BY <1>4, <2>2 DEF Notices, TriedAnew
<1> QED
  BY <1>1, <1>2, <1>3, <1>4 DEF BatchStep, StartNext

(* Every order there is was started by a batch, which is past it or has    *)
(* been tried more than once; every order run twice is accounted for.      *)
AtLeastOnce == \A b \in 1 .. made : batches[b].attempt >= 1

From(b, id) == \E x \in SeqsOf(batches[b]) :
  /\ id = <<batches[b].prefix, x>>
  /\ x \notin batches[b].todo \/ batches[b].attempt > 1

Traced == \A id \in orders : \E b \in 1 .. made : From(b, id)

Excused(id) ==
  \/ id[1] = Stream /\ \E b \in 1 .. base : batches[b].paced
  \/ \E b \in 1 .. made :
       /\ id[1] = batches[b].prefix /\ id[2] \in SeqsOf(batches[b])
       /\ batches[b].attempt > 1
  \/ \E b, c \in 1 .. made :
       /\ b # c /\ id[1] \in Millis
       /\ id[1] = batches[b].prefix /\ id[2] \in SeqsOf(batches[b])
       /\ id[1] = batches[c].prefix /\ id[2] \in SeqsOf(batches[c])

OrdersInv == AtLeastOnce /\ Traced /\ \A id \in rerun : Excused(id)

LEMMA OrdersInit == Init => OrdersInv
  BY DEF Init, OrdersInv, AtLeastOnce, Traced

(* What is known of an order stays so while batches go on or are added.    *)
LEMMA KnownStays ==
  ASSUME TypeInv, OrdersInv, made' >= made, made' \in Int,
         base' = made \/ base' = base,
         \A b \in 1 .. made :
           /\ SameRequest(batches'[b], batches[b])
           /\ \/ batches'[b].todo \subseteq batches[b].todo /\ batches'[b].attempt = batches[b].attempt
              \/ batches'[b].attempt = batches[b].attempt + 1
  PROVE  /\ \A b \in 1 .. made : batches'[b].attempt >= 1
         /\ \A id \in orders : \E b \in 1 .. made' : From(b, id)'
         /\ \A id : Excused(id) => Excused(id)'
         /\ \A id \in rerun : Excused(id)'
<1>1. /\ made \in Nat /\ base \in Nat /\ base <= made
      /\ \A b \in 1 .. made : b \in BatchIds /\ batches[b].attempt \in Nat /\ batches[b].attempt >= 1
  BY BatchAssumption DEF TypeInv, MadeOK, BatchesOK, Batch, OrdersInv, AtLeastOnce, BatchIds
<1>2. \A b \in 1 .. made : SeqsOf(batches'[b]) = SeqsOf(batches[b])
  BY DEF SameRequest, SeqsOf
<1>3. \A b \in 1 .. made : b \in 1 .. made'
  BY <1>1
<1>4. \A b \in 1 .. made : batches[b].attempt > 1 => batches'[b].attempt > 1
  BY <1>1
<1>5. ASSUME NEW id, NEW b \in 1 .. made, From(b, id)
      PROVE  From(b, id)'
  <2>1. PICK x \in SeqsOf(batches[b]) :
          id = <<batches[b].prefix, x>> /\ (x \notin batches[b].todo \/ batches[b].attempt > 1)
    BY <1>5 DEF From
  <2>2. x \notin batches'[b].todo \/ batches'[b].attempt > 1
    BY <1>1, <1>4, <2>1
  <2>3. batches'[b].prefix = batches[b].prefix
    BY DEF SameRequest
  <2> QED
    BY <1>2, <2>1, <2>2, <2>3 DEF From
<1>6. \A id \in orders : \E b \in 1 .. made' : From(b, id)'
  BY <1>3, <1>5 DEF OrdersInv, Traced
<1>7. ASSUME NEW id, Excused(id)
      PROVE  Excused(id)'
  <2>1. CASE id[1] = Stream /\ \E b \in 1 .. base : batches[b].paced
    <3>1. PICK b \in 1 .. base : batches[b].paced
      BY <2>1
    <3>2. b \in 1 .. base' /\ b \in 1 .. made
      BY <1>1
    <3>3. batches'[b].paced
      BY <3>1, <3>2 DEF SameRequest
    <3> QED
      BY <2>1, <3>2, <3>3 DEF Excused
  <2>2. CASE \E b \in 1 .. made :
               /\ id[1] = batches[b].prefix /\ id[2] \in SeqsOf(batches[b])
               /\ batches[b].attempt > 1
    <3>1. PICK b \in 1 .. made :
            /\ id[1] = batches[b].prefix /\ id[2] \in SeqsOf(batches[b])
            /\ batches[b].attempt > 1
      BY <2>2
    <3>2. batches'[b].prefix = batches[b].prefix
      BY DEF SameRequest
    <3> QED
      BY <1>2, <1>3, <1>4, <3>1, <3>2 DEF Excused
  <2>3. CASE \E b, c \in 1 .. made :
               /\ b # c /\ id[1] \in Millis
               /\ id[1] = batches[b].prefix /\ id[2] \in SeqsOf(batches[b])
               /\ id[1] = batches[c].prefix /\ id[2] \in SeqsOf(batches[c])
    <3>1. PICK b \in 1 .. made, c \in 1 .. made :
            /\ b # c /\ id[1] \in Millis
            /\ id[1] = batches[b].prefix /\ id[2] \in SeqsOf(batches[b])
            /\ id[1] = batches[c].prefix /\ id[2] \in SeqsOf(batches[c])
      BY <2>3
    <3>2. batches'[b].prefix = batches[b].prefix /\ batches'[c].prefix = batches[c].prefix
      BY DEF SameRequest
    <3> QED
      BY <1>2, <1>3, <3>1, <3>2 DEF Excused
  <2> QED
    BY <1>7, <2>1, <2>2, <2>3 DEF Excused
<1> QED
  BY <1>1, <1>6, <1>7 DEF OrdersInv

(* An order is run a second time by a batch that has been tried before, or *)
(* by one that shares its numbers.                                         *)
LEMMA SecondRun ==
  ASSUME TypeInv, NumbersInv, OrdersInv, NEW b \in 1 .. made, NEW x \in batches[b].todo,
         OrderID(b, x) \in orders
  PROVE  Excused(OrderID(b, x))
<1> DEFINE id == OrderID(b, x)
<1>0. /\ \A c \in 1 .. made : c \in BatchIds /\ c \in Int
      /\ x \in SeqsOf(batches[b]) /\ id = <<batches[b].prefix, x>> /\ base \in Int
  BY BatchAssumption DEF TypeInv, MadeOK, BatchIds, BatchesOK, OrderID
<1>1. PICK c \in 1 .. made : From(c, id)
  BY DEF OrdersInv, Traced
<1>2. PICK y \in SeqsOf(batches[c]) :
        id = <<batches[c].prefix, y>> /\ (y \notin batches[c].todo \/ batches[c].attempt > 1)
  BY <1>1 DEF From
<1>3. batches[b].prefix = batches[c].prefix /\ x = y
  BY <1>0, <1>2
<1>4. CASE c = b
  <2>1. batches[b].attempt > 1
    BY <1>2, <1>3, <1>4
  <2>2. id[1] = batches[b].prefix /\ id[2] \in SeqsOf(batches[b])
    BY <1>0
  <2> QED
    BY <2>1, <2>2 DEF Excused
<1>5. CASE c # b
  <2>1. SeqsOf(batches[b]) \cap SeqsOf(batches[c]) # {}
    BY <1>0, <1>2, <1>3
  <2>2. CASE batches[b].prefix = Stream
    <3>1. ~(b > base /\ c > base)
      BY <1>3, <1>5, <2>1, <2>2 DEF NumbersInv, Apart
    <3>2. batches[b].paced /\ batches[c].paced
      BY <1>3, <2>2 DEF NumbersInv, Named
    <3>3. b \in 1 .. base \/ c \in 1 .. base
      BY <1>0, <3>1
    <3>4. id[1] = Stream
      BY <1>0, <2>2
    <3> QED
      BY <3>2, <3>3, <3>4 DEF Excused
  <2>3. CASE batches[b].prefix # Stream
    <3>1. batches[b].prefix \in Millis
      BY <1>0, <2>3 DEF TypeInv, BatchesOK
    <3>2. id[1] = batches[b].prefix /\ id[2] = x /\ id[1] = batches[c].prefix /\ x \in SeqsOf(batches[c])
      BY <1>0, <1>2, <1>3
    <3> QED
      BY <1>0, <1>5, <3>1, <3>2 DEF Excused
  <2> QED
    BY <2>2, <2>3
<1> QED
  BY <1>4, <1>5

LEMMA OrdersStep == TypeInv /\ NumbersInv /\ OrdersInv /\ [Next]_vars => OrdersInv'
<1> SUFFICES ASSUME TypeInv, NumbersInv, OrdersInv, [Next]_vars PROVE OrdersInv'
  OBVIOUS
<1>0. /\ batches \in [BatchIds -> Batch] /\ made \in Nat /\ made <= MaxBatches
      /\ \A b \in 1 .. made : b \in BatchIds
      /\ \A b \in BatchIds : batches[b].status = "unused" <=> b > made
      /\ base' = made \/ base' = base
  <2>1. base' = made \/ base' = base
    BY Shapes DEF MakesWindow, MakesBurst
  <2> QED
    BY <2>1, BatchAssumption DEF TypeInv, BatchesOK, MadeOK, BatchIds
<1>1. ASSUME made' = made, UNCHANGED <<orders, rerun>>,
             \A b \in BatchIds : /\ SameRequest(batches'[b], batches[b])
                                 /\ batches'[b].todo = batches[b].todo
                                 /\ batches'[b].attempt = batches[b].attempt
      PROVE  OrdersInv'
  <2>1. /\ \A b \in 1 .. made : batches'[b].attempt >= 1
        /\ \A id \in orders : \E b \in 1 .. made' : From(b, id)'
        /\ \A id \in rerun : Excused(id)'
    BY <1>0, <1>1, KnownStays
  <2> QED
    BY <1>1, <2>1 DEF OrdersInv, AtLeastOnce, Traced
<1>2. CASE UNCHANGED <<batches, made, orders, rerun>>
  BY <1>1, <1>2 DEF SameRequest
<1>3. CASE AllTouched /\ UNCHANGED <<made, orders, rerun>>
  BY <1>1, <1>3 DEF AllTouched
<1>4. ASSUME NEW k, NEW prefix, NEW first, NEW n, NEW paced, NEW f, NEW sp,
             Enqueued(k, prefix, first, n, paced, f, sp), UNCHANGED <<orders, rerun>>
      PROVE  OrdersInv'
  <2>1. made' = made + k /\ k \in Nat
    BY <1>4 DEF Enqueued
  <2>2. \A b \in 1 .. made : batches'[b] = batches[b]
    <3>1. \A b \in 1 .. made : b \in BatchIds /\ b \notin (made + 1) .. (made + k)
      BY <1>0, <2>1
    <3> QED
      BY <1>4, <3>1 DEF Enqueued
  <2>3. \A b \in (made + 1) .. (made + k) : batches'[b].attempt = 1
    BY <1>4 DEF Enqueued
  <2>4. made' >= made /\ made' \in Int
    BY <1>0, <2>1
  <2>5. /\ \A b \in 1 .. made : batches'[b].attempt >= 1
        /\ \A id \in orders : \E b \in 1 .. made' : From(b, id)'
        /\ \A id \in rerun : Excused(id)'
    BY <1>0, <2>2, <2>4, KnownStays DEF SameRequest
  <2>6. \A b \in 1 .. made' : b \in 1 .. made \/ b \in (made + 1) .. (made + k)
    BY <1>0, <2>1
  <2> QED
    BY <1>4, <2>3, <2>5, <2>6 DEF OrdersInv, AtLeastOnce, Traced
<1>5. CASE MakesWindow
  BY <1>4, <1>5 DEF MakesWindow
<1>6. CASE MakesBurst
  BY <1>4, <1>6 DEF MakesBurst
<1>7. ASSUME NEW b \in BatchIds, Worked(b), BatchStep(b), UNCHANGED made
      PROVE  OrdersInv'
  <2>1. b \in 1 .. made
    BY <1>0, <1>7 DEF Worked, BatchIds
  <2>2. \A c \in 1 .. made :
          /\ SameRequest(batches'[c], batches[c])
          /\ \/ batches'[c].todo \subseteq batches[c].todo /\ batches'[c].attempt = batches[c].attempt
             \/ batches'[c].attempt = batches[c].attempt + 1
    BY <1>0, <1>7 DEF Worked, SameRequest
  <2>3. /\ \A c \in 1 .. made : batches'[c].attempt >= 1
        /\ \A id \in orders : \E c \in 1 .. made' : From(c, id)'
        /\ \A id : Excused(id) => Excused(id)'
        /\ \A id \in rerun : Excused(id)'
    BY <1>0, <1>7, <2>2, KnownStays
  <2>4. CASE UNCHANGED <<orders, rerun>>
    BY <1>7, <2>3, <2>4 DEF OrdersInv, AtLeastOnce, Traced
  <2>5. CASE Attempted(b)
    <3>1. PICK x \in batches[b].todo :
            /\ batches'[b].todo = batches[b].todo \ {x} /\ batches'[b].attempt = batches[b].attempt
            /\ \/ orders' = orders \cup {OrderID(b, x)} /\ rerun' = rerun
               \/ /\ orders' = orders /\ OrderID(b, x) \in orders
                  /\ rerun' = rerun \cup {OrderID(b, x)} \/ rerun' = rerun
               \/ UNCHANGED <<orders, rerun>>
      BY <2>5 DEF Attempted
    <3>2. CASE orders' = orders \cup {OrderID(b, x)} /\ rerun' = rerun
      <4>1. SeqsOf(batches'[b]) = SeqsOf(batches[b]) /\ batches'[b].prefix = batches[b].prefix
        BY <2>1, <2>2 DEF SeqsOf, SameRequest
      <4>2. x \in SeqsOf(batches[b])
        BY DEF TypeInv, BatchesOK
      <4>3. From(b, OrderID(b, x))'
        <5>1. x \notin batches'[b].todo
          BY <3>1
        <5>2. OrderID(b, x)' = <<batches'[b].prefix, x>>
          BY DEF OrderID
        <5> QED
          BY <4>1, <4>2, <5>1, <5>2 DEF From
      <4>4. OrderID(b, x)' = OrderID(b, x)
        BY <4>1 DEF OrderID
      <4>5. From(b, OrderID(b, x))' <=>
              \E y \in SeqsOf(batches'[b]) :
                /\ OrderID(b, x)' = <<batches'[b].prefix, y>>
                /\ y \notin batches'[b].todo \/ batches'[b].attempt > 1
        BY DEF From
      <4>6. \A id \in orders' : \E c \in 1 .. made' : From(c, id)'
        <5> SUFFICES ASSUME NEW id \in orders' PROVE \E c \in 1 .. made' : From(c, id)'
          OBVIOUS
        <5>1. CASE id \in orders
          BY <2>3, <5>1
        <5>2. CASE id = OrderID(b, x)
          <6>1. From(b, id)'
            BY <4>3, <4>4, <4>5, <5>2 DEF From
          <6> QED
            BY <1>7, <2>1, <6>1
        <5> QED
          BY <3>2, <5>1, <5>2
      <4> QED
        BY <1>7, <2>3, <3>2, <4>6 DEF OrdersInv, AtLeastOnce, Traced
    <3>3. CASE /\ orders' = orders /\ OrderID(b, x) \in orders
               /\ rerun' = rerun \cup {OrderID(b, x)} \/ rerun' = rerun
      <4>1. Excused(OrderID(b, x))
        BY <2>1, <3>3, SecondRun
      <4>2. PICK id : id = OrderID(b, x)
        OBVIOUS
      <4>3. Excused(id)'
        BY <2>3, <4>1, <4>2
      <4>4. rerun' = rerun \cup {id} \/ rerun' = rerun
        BY <3>3, <4>2
      <4>5. \A i \in rerun' : Excused(i)'
        BY <2>3, <4>3, <4>4
      <4> QED
        BY <1>7, <2>3, <3>3, <4>5 DEF OrdersInv, AtLeastOnce, Traced
    <3> QED
      BY <2>4, <3>1, <3>2, <3>3
  <2> QED
    BY <1>0, <1>7, <2>4, <2>5, BatchStepOrders DEF TriedAnew
<1> QED
  BY <1>2, <1>3, <1>5, <1>6, <1>7, Shapes

(* Two batches of the stream have an order in common only across a new     *)
(* start of the director, two of bursts only if both bursts are of one     *)
(* millisecond and the batches have the same number, and never while both  *)
(* run; and only for these reasons, or by a retry, is an order run twice.  *)
THEOREM UniqueIds == Spec => []IdsAreUnique
<1>1. TypeInv /\ NumbersInv /\ BurstsInv /\ OrdersInv => IdsAreUnique
  <2> SUFFICES ASSUME TypeInv, NumbersInv, BurstsInv, OrdersInv PROVE IdsAreUnique
    OBVIOUS
  <2>1. \A b : Seqs(b) = SeqsOf(batches[b])
    BY DEF Seqs, SeqsOf
  <2>2. /\ base \in Int
        /\ \A b \in 1 .. made : /\ b \in Int /\ batches[b] \in Batch
                                /\ batches[b].prefix \in {Stream} \cup Millis
    <3>1. \A b \in 1 .. made : b \in BatchIds
      BY BatchAssumption DEF TypeInv, MadeOK, BatchIds
    <3> QED
      BY <3>1 DEF TypeInv, MadeOK, BatchesOK
  <2>3. ASSUME NEW b \in 1 .. made, NEW c \in 1 .. made, b # c,
               batches[b].prefix = batches[c].prefix, Seqs(b) \cap Seqs(c) # {}
        PROVE  \/ batches[b].prefix = Stream /\ (b <= base \/ c <= base)
               \/ /\ batches[b].prefix \in Millis /\ batches[b].first = batches[c].first
                  /\ ~(Live(b) /\ Live(c))
    <3>1. CASE batches[b].prefix = Stream
      <4>1. ~(b > base /\ c > base)
        BY <2>1, <2>3, <3>1 DEF NumbersInv, Apart
      <4> QED
        BY <2>2, <3>1, <4>1
    <3>2. CASE batches[b].prefix # Stream
      <4>1. Cut(batches[b]) /\ Cut(batches[c])
        BY <2>3, <3>2 DEF BurstsInv
      <4>2. batches[b].first = batches[c].first
        BY <2>1, <2>2, <2>3, <4>1, CutAlike
      <4>3. ~(Live(b) /\ Live(c))
        BY <2>1, <2>3, <3>2 DEF BurstsInv, Alone
      <4> QED
        BY <2>2, <3>2, <4>2, <4>3
    <3> QED
      BY <3>1, <3>2
  <2>4. \A id \in rerun :
          \/ id[1] = Stream /\ \E b \in 1 .. base : batches[b].paced
          \/ \E b \in 1 .. made : /\ id[1] = batches[b].prefix /\ id[2] \in Seqs(b)
                                  /\ batches[b].attempt > 1
          \/ \E b, c \in 1 .. made : /\ b # c /\ id[1] \in Millis
                                     /\ id[1] = batches[b].prefix /\ id[2] \in Seqs(b)
                                     /\ id[1] = batches[c].prefix /\ id[2] \in Seqs(c)
    BY <2>1 DEF OrdersInv, Excused
  <2> QED
    BY <2>3, <2>4 DEF IdsAreUnique
<1> QED
  BY <1>1, TypeInvCorrect, NumbersInit, NumbersStep, BurstsInit, BurstsStep, OrdersInit, OrdersStep,
     PTL DEF Spec

-----------------------------------------------------------------------------
(* Counts.                                                                 *)

(* The orders a batch has been at in its present attempt, and that exist.  *)
Got(b) == {id \in orders :
  \E x \in SeqsOf(batches[b]) : x \notin batches[b].todo /\ id = <<batches[b].prefix, x>>}

(* The stream's orders that the window in force cannot count any more.     *)
Past == {id \in orders :
  /\ id[1] = Stream /\ id[2] \in Nat /\ id[2] < nextSeq
  /\ \A b \in window : id[2] \notin SeqsOf(batches[b])}

WindowOwn == \A b \in window : batches[b].paced /\ b > base

CountsInv ==
  /\ IsFiniteSet(orders) /\ WindowOwn
  /\ \A b \in 1 .. made : batches[b].ok <= Cardinality(Got(b))
  /\ started <= Cardinality(Past)

LEMMA CountsInit == Init => CountsInv
<1> SUFFICES ASSUME Init PROVE CountsInv
  OBVIOUS
<1>1. orders = {} /\ window = {} /\ made = 0 /\ started = 0
  BY DEF Init
<1>2. IsFiniteSet(orders) /\ Past = {} /\ Cardinality({}) = 0
  BY <1>1, FS_EmptySet DEF Past
<1> QED
  BY <1>1, <1>2 DEF CountsInv, WindowOwn

(* Finite sets that grow.                                                  *)
LEMMA Grows ==
  ASSUME NEW S, NEW T, IsFiniteSet(T), S \subseteq T
  PROVE  /\ Cardinality(S) \in Nat /\ Cardinality(T) \in Nat
         /\ Cardinality(S) <= Cardinality(T)
  BY FS_Subset, FS_CardinalityType

LEMMA GotGrows ==
  ASSUME IsFiniteSet(orders'), orders \subseteq orders', NEW b,
         SameRequest(batches'[b], batches[b]), batches'[b].todo \subseteq batches[b].todo
  PROVE  /\ Got(b) \subseteq Got(b)'
         /\ Cardinality(Got(b)) \in Nat /\ Cardinality(Got(b)') \in Nat
         /\ Cardinality(Got(b)) <= Cardinality(Got(b)')
<1>1. SeqsOf(batches'[b]) = SeqsOf(batches[b]) /\ batches'[b].prefix = batches[b].prefix
  BY DEF SeqsOf, SameRequest
<1>2. Got(b) \subseteq Got(b)'
  BY <1>1 DEF Got
<1>3. IsFiniteSet(Got(b)')
  <2>1. Got(b)' \subseteq orders'
    BY DEF Got
  <2> QED
    BY <2>1, FS_Subset
<1> QED
  BY <1>2, <1>3, Grows

(* A batch that got a new order has one more.                              *)
LEMMA GotAnother ==
  ASSUME IsFiniteSet(orders'), orders \subseteq orders', NEW b, NEW x \in SeqsOf(batches[b]),
         SameRequest(batches'[b], batches[b]),
         x \in batches[b].todo, batches'[b].todo = batches[b].todo \ {x},
         OrderID(b, x) \in orders'
  PROVE  /\ Cardinality(Got(b)) \in Nat /\ Cardinality(Got(b)') \in Nat
         /\ Cardinality(Got(b)) + 1 <= Cardinality(Got(b)')
<1> DEFINE id == OrderID(b, x)
<1>1. SeqsOf(batches'[b]) = SeqsOf(batches[b]) /\ batches'[b].prefix = batches[b].prefix
  BY DEF SeqsOf, SameRequest
<1>2. id = <<batches[b].prefix, x>>
  BY DEF OrderID
<1>3. id \notin Got(b)
  BY <1>2 DEF Got
<1>4. Got(b) \subseteq Got(b)' /\ id \in Got(b)'
  BY <1>1, <1>2 DEF Got
<1>5. IsFiniteSet(Got(b)')
  <2>1. Got(b)' \subseteq orders'
    BY DEF Got
  <2> QED
    BY <2>1, FS_Subset
<1>6. IsFiniteSet(Got(b)) /\ Cardinality(Got(b)) \in Nat
  BY <1>4, <1>5, FS_Subset, FS_CardinalityType
<1>7. Cardinality(Got(b) \cup {id}) = Cardinality(Got(b)) + 1
  BY <1>3, <1>6, FS_AddElement
<1>8. Got(b) \cup {id} \subseteq Got(b)'
  BY <1>4
<1> HIDE DEF id
<1>9. /\ Cardinality(Got(b)') \in Nat
      /\ Cardinality(Got(b) \cup {id}) <= Cardinality(Got(b)')
  BY <1>5, <1>8, Grows
<1> QED
  BY <1>6, <1>7, <1>9

(* The counts of batches, whatever the Activity does.                      *)
LEMMA GotStep ==
  ASSUME TypeInv, CountsInv, NEW b \in 1 .. made, Worked(b), Attempted(b) \/ TriedAnew(b)
  PROVE  /\ IsFiniteSet(orders') /\ orders \subseteq orders'
         /\ batches'[b].ok <= Cardinality(Got(b)')
<1>0. /\ b \in BatchIds /\ batches[b].ok \in Nat /\ batches[b].ok <= Cardinality(Got(b))
      /\ batches[b].todo \subseteq SeqsOf(batches[b]) /\ SameRequest(batches'[b], batches[b])
  <2>1. b \in BatchIds
    BY BatchAssumption DEF TypeInv, MadeOK, BatchIds
  <2> QED
    BY <2>1 DEF TypeInv, BatchesOK, Batch, CountsInv, Worked
<1>1. IsFiniteSet(orders') /\ orders \subseteq orders'
  <2>1. orders' = orders \/ \E x : orders' = orders \cup {OrderID(b, x)}
    BY DEF Attempted, TriedAnew
  <2> QED
    BY <2>1, FS_AddElement DEF CountsInv
<1>2. CASE batches'[b].todo \subseteq batches[b].todo /\ batches'[b].ok = batches[b].ok
  BY <1>0, <1>1, <1>2, GotGrows
<1>3. CASE batches'[b].ok = 0
  <2>1. IsFiniteSet(Got(b)')
    <3>1. Got(b)' \subseteq orders'
      BY DEF Got
    <3> QED
      BY <1>1, <3>1, FS_Subset
  <2>2. Cardinality(Got(b)') \in Nat
    BY <2>1, FS_CardinalityType
  <2> QED
    BY <1>1, <1>3, <2>2
<1>4. ASSUME NEW x \in batches[b].todo, batches'[b].todo = batches[b].todo \ {x},
             OrderID(b, x) \in orders', batches'[b].ok \in {batches[b].ok, batches[b].ok + 1}
      PROVE  batches'[b].ok <= Cardinality(Got(b)')
  <2>1. x \in SeqsOf(batches[b])
    BY <1>0
  <2>2. /\ Cardinality(Got(b)) \in Nat /\ Cardinality(Got(b)') \in Nat
        /\ Cardinality(Got(b)) + 1 <= Cardinality(Got(b)')
    BY <1>0, <1>1, <1>4, <2>1, GotAnother
  <2> QED
    BY <1>0, <1>4, <2>2
<1>5. CASE Attempted(b)
  <2>1. PICK x \in batches[b].todo :
          /\ batches'[b].todo = batches[b].todo \ {x}
          /\ \/ OrderID(b, x) \in orders' /\ batches'[b].ok \in {batches[b].ok, batches[b].ok + 1}
             \/ batches'[b].ok = batches[b].ok
    BY <1>5 DEF Attempted
  <2> QED
    BY <1>1, <1>2, <1>4, <2>1
<1> QED
  BY <1>1, <1>2, <1>3, <1>5 DEF TriedAnew

LEMMA GotKept ==
  ASSUME TypeInv, CountsInv, orders' = orders,
         \A b \in 1 .. made : /\ SameRequest(batches'[b], batches[b])
                            /\ batches'[b].todo = batches[b].todo
                            /\ batches'[b].ok = batches[b].ok
  PROVE  \A b \in 1 .. made : batches'[b].ok <= Cardinality(Got(b)')
<1> SUFFICES ASSUME NEW b \in 1 .. made PROVE batches'[b].ok <= Cardinality(Got(b)')
  OBVIOUS
<1>1. b \in BatchIds
  BY BatchAssumption DEF TypeInv, MadeOK, BatchIds
<1>2. batches[b].ok \in Nat /\ batches[b].ok <= Cardinality(Got(b))
  BY <1>1 DEF TypeInv, BatchesOK, Batch, CountsInv
<1>3. /\ Cardinality(Got(b)) \in Nat /\ Cardinality(Got(b)') \in Nat
      /\ Cardinality(Got(b)) <= Cardinality(Got(b)')
  BY GotGrows DEF CountsInv
<1> QED
  BY <1>2, <1>3

LEMMA PastKept ==
  ASSUME TypeInv, CountsInv, IsFiniteSet(orders'), Past \subseteq Past', started' = started
  PROVE  started' <= Cardinality(Past')
<1>1. IsFiniteSet(Past')
  <2>1. Past' \subseteq orders'
    BY DEF Past
  <2> QED
    BY <2>1, FS_Subset
<1>2. Cardinality(Past) \in Nat /\ Cardinality(Past') \in Nat /\ Cardinality(Past) <= Cardinality(Past')
  BY <1>1, Grows
<1> QED
  BY <1>2 DEF CountsInv, TypeInv, LoopOK

(* A window that ends for a batch adds that batch's orders to the past.    *)
LEMMA PastGains ==
  ASSUME TypeInv, NumbersInv, CountsInv, NEW b \in window,
         orders' = orders, window' = {}, nextSeq' = nextSeq
  PROVE  /\ Cardinality(Past) \in Nat /\ Cardinality(Got(b)) \in Nat /\ Cardinality(Past') \in Nat
         /\ Cardinality(Past) + Cardinality(Got(b)) <= Cardinality(Past')
<1>0. /\ b \in 1 .. made /\ b \in BatchIds /\ batches[b].prefix = Stream /\ b > base
      /\ batches[b].first \in Nat /\ batches[b].count \in Nat /\ nextSeq \in Nat
  <2>1. b \in 1 .. made /\ b \in BatchIds /\ nextSeq \in Nat
    BY BatchAssumption DEF TypeInv, MadeOK, LoopOK, BatchIds
  <2>2. batches[b].prefix = Stream /\ b > base
    BY <2>1 DEF CountsInv, WindowOwn, NumbersInv, Named
  <2> QED
    BY <2>1, <2>2 DEF TypeInv, BatchesOK, Batch
<1>1. batches[b].first + batches[b].count <= nextSeq
  BY <1>0 DEF NumbersInv, Numbered
<1>2. \A x \in SeqsOf(batches[b]) : x \in Nat /\ x < nextSeq
  BY <1>0, <1>1 DEF SeqsOf
<1>3. Past \cup Got(b) \subseteq Past'
  <2>1. Past \subseteq Past'
    BY DEF Past
  <2>2. Got(b) \subseteq Past'
    BY <1>0, <1>2 DEF Past, Got
  <2> QED
    BY <2>1, <2>2
<1>4. Past \cap Got(b) = {}
  BY DEF Past, Got
<1>5. IsFiniteSet(Past) /\ IsFiniteSet(Got(b)) /\ IsFiniteSet(Past')
  <2>1. Past \subseteq orders /\ Got(b) \subseteq orders /\ Past' \subseteq orders
    BY DEF Past, Got
  <2> QED
    BY <2>1, FS_Subset DEF CountsInv
<1>6. Cardinality(Past \cup Got(b)) = Cardinality(Past) + Cardinality(Got(b)) - Cardinality({})
  BY <1>4, <1>5, FS_Union
<1>7. Cardinality({}) = 0 /\ Cardinality(Past) \in Nat /\ Cardinality(Got(b)) \in Nat
  BY <1>5, FS_EmptySet, FS_CardinalityType
<1>8. Cardinality(Past \cup Got(b)) <= Cardinality(Past') /\ Cardinality(Past') \in Nat
  BY <1>3, <1>5, Grows
<1> QED
  BY <1>6, <1>7, <1>8

LEMMA CountsStep == TypeInv /\ NumbersInv /\ CountsInv /\ [Next]_vars => CountsInv'
<1> SUFFICES ASSUME TypeInv, NumbersInv, CountsInv, [Next]_vars PROVE CountsInv'
  OBVIOUS
<1>0. /\ batches \in [BatchIds -> Batch] /\ made \in Nat /\ made <= MaxBatches
      /\ window \subseteq 1 .. made /\ (pc # "window" => window = {})
      /\ \A b \in 1 .. made : b \in BatchIds
      /\ \A b \in BatchIds : batches[b].status = "unused" <=> b > made
      /\ IsFiniteSet(orders) /\ WindowOwn /\ base \in Nat /\ base <= made
      /\ nextSeq \in Nat
  BY BatchAssumption DEF TypeInv, BatchesOK, MadeOK, LoopOK, BatchIds, CountsInv
<1>1. CASE Ensure
  <2>1. UNCHANGED <<batches, made, orders>> /\ started' = 0 /\ window' = {}
    BY <1>1 DEF Ensure, steady
  <2>2. \A b \in 1 .. made : batches'[b].ok <= Cardinality(Got(b)')
    BY <2>1, GotKept DEF SameRequest
  <2>3. IsFiniteSet(Past')
    <3>1. Past' \subseteq orders
      BY <2>1 DEF Past
    <3> QED
      BY <1>0, <3>1, FS_Subset
  <2>4. Cardinality(Past') \in Nat
    BY <2>3, FS_CardinalityType
  <2> QED
    BY <1>0, <2>1, <2>2, <2>4 DEF CountsInv, WindowOwn
<1>2. ASSUME UNCHANGED <<batches, made, orders, window, nextSeq, started, base>>
      PROVE  CountsInv'
  <2>1. \A b \in 1 .. made : batches'[b].ok <= Cardinality(Got(b)')
    BY <1>2, GotKept DEF SameRequest
  <2>2. Past \subseteq Past'
    BY <1>2 DEF Past
  <2>3. started' <= Cardinality(Past')
    BY <1>0, <1>2, <2>2, PastKept
  <2> QED
    BY <1>0, <1>2, <2>1, <2>3 DEF CountsInv, WindowOwn
<1>3. CASE \/ SetRate \/ SetSplit \/ SetChaos \/ Stop \/ LoopStops \/ LoopExpires \/ LoopIdles
           \/ LoopContinues \/ IdleChanged \/ UNCHANGED vars
  <2>1. UNCHANGED <<batches, made, orders, window, nextSeq, started, base>>
    BY <1>0, <1>3 DEF SetRate, SetSplit, SetChaos, Stop, Accept, LoopStops, LoopExpires, LoopIdles,
      LoopContinues, IdleChanged, vars, director, progress, loop, steady, activities
  <2> QED
    BY <1>2, <2>1
<1>4. CASE WindowBegins
  <2>1. MakesWindow
    BY <1>4, WindowMakes
  <2>2. /\ Enqueued(ChunkCount(Due), Stream, nextSeq, Due, TRUE, fault, split)
        /\ window' = (made + 1) .. made' /\ nextSeq' = nextSeq + Due /\ Due \in Nat
        /\ UNCHANGED <<started, base, orders>> /\ pc = "loop"
    BY <2>1 DEF MakesWindow
  <2>3. made' = made + ChunkCount(Due) /\ ChunkCount(Due) \in Nat
    BY <2>2 DEF Enqueued
  <2>4. \A b \in 1 .. made : batches'[b] = batches[b]
    <3>1. \A b \in 1 .. made : b \in BatchIds /\ b \notin (made + 1) .. (made + ChunkCount(Due))
      BY <1>0, <2>3
    <3> QED
      BY <2>2, <3>1 DEF Enqueued
  <2>5. /\ \A b \in window' : batches'[b].ok = 0 /\ batches'[b].paced
        /\ \A b \in window' : nextSeq <= batches'[b].first
        /\ \A b \in window' : batches'[b].first \in Nat /\ batches'[b].count \in Nat
    <3>1. \A b \in window' : b \in (made + 1) .. (made + ChunkCount(Due))
      BY <2>2, <2>3
    <3>2. \A b \in window' : batches'[b].ok = 0 /\ batches'[b].paced
      BY <2>2, <3>1 DEF Enqueued
    <3>3. \A b \in (made + 1) .. (made + ChunkCount(Due)) :
            /\ batches'[b].first \in Nat /\ batches'[b].count \in Nat
            /\ nextSeq <= batches'[b].first
      BY <1>0, <2>2, EnqueuedSeqs
    <3> QED
      BY <3>1, <3>2, <3>3
  <2>6. \A b \in 1 .. made : batches'[b].ok <= Cardinality(Got(b)')
    BY <2>2, <2>4, GotKept DEF SameRequest
  <2>7. \A b \in window' : batches'[b].ok <= Cardinality(Got(b)')
    <3>1. ASSUME NEW b \in window' PROVE Cardinality(Got(b)') \in Nat
      <4>1. Got(b)' \subseteq orders
        BY <2>2 DEF Got
      <4>2. IsFiniteSet(Got(b)')
        BY <1>0, <4>1, FS_Subset
      <4> QED
        BY <4>2, FS_CardinalityType
    <3> QED
      BY <2>5, <3>1
  <2>8. \A b \in 1 .. made' : b \in 1 .. made \/ b \in window'
    BY <1>0, <2>2, <2>3
  <2>9. Past \subseteq Past'
    <3>1. ASSUME NEW x \in Nat, x < nextSeq
          PROVE  x < nextSeq' /\ \A b \in window' : x \notin SeqsOf(batches'[b])
      <4>1. x < nextSeq'
        BY <1>0, <2>2, <3>1
      <4>2. ASSUME NEW b \in window' PROVE x \notin SeqsOf(batches'[b])
        BY <1>0, <2>5, <3>1 DEF SeqsOf
      <4> QED
        BY <4>1, <4>2
    <3> QED
      BY <2>2, <3>1 DEF Past
  <2>10. started' <= Cardinality(Past')
    BY <1>0, <2>2, <2>9, PastKept
  <2> QED
    BY <1>0, <2>2, <2>5, <2>6, <2>7, <2>8, <2>10 DEF CountsInv, WindowOwn
<1>5. ASSUME AllTouched, UNCHANGED <<made, orders, nextSeq, started, base>>,
             window' \subseteq window
      PROVE  CountsInv'
  <2>1. \A b \in 1 .. made :
          /\ SameRequest(batches'[b], batches[b])
          /\ batches'[b].todo = batches[b].todo /\ batches'[b].ok = batches[b].ok
    BY <1>0, <1>5 DEF AllTouched
  <2>2. \A b \in 1 .. made : batches'[b].ok <= Cardinality(Got(b)')
    BY <1>5, <2>1, GotKept
  <2>3. \A b \in window : SeqsOf(batches'[b]) = SeqsOf(batches[b]) /\ batches'[b].paced = batches[b].paced
    BY <1>0, <2>1 DEF SeqsOf, SameRequest
  <2>4. Past \subseteq Past'
    BY <1>5, <2>3 DEF Past
  <2>5. started' <= Cardinality(Past')
    BY <1>0, <1>5, <2>4, PastKept
  <2> QED
    BY <1>0, <1>5, <2>2, <2>3, <2>5 DEF CountsInv, WindowOwn
<1>6. CASE WindowFails \/ WindowChanged
  <2>1. WindowLeft /\ UNCHANGED <<made, orders, nextSeq, started, base>>
    BY <1>6 DEF WindowFails, WindowChanged, progress
  <2>2. AllTouched /\ window' = {}
    BY <1>0, <2>1, LeavingTouches DEF WindowLeft
  <2> QED
    BY <1>5, <2>1, <2>2
<1>7. CASE WindowEnds
  <2>1. PICK b \in window :
          /\ started' = started + batches[b].ok /\ WindowLeft
          /\ UNCHANGED <<made, orders, nextSeq, base>>
    BY <1>7 DEF WindowEnds, Counted
  <2>2. AllTouched /\ window' = {}
    BY <1>0, <2>1, LeavingTouches DEF WindowLeft
  <2>3. \A c \in 1 .. made :
          /\ SameRequest(batches'[c], batches[c])
          /\ batches'[c].todo = batches[c].todo /\ batches'[c].ok = batches[c].ok
    BY <1>0, <2>2 DEF AllTouched
  <2>4. \A c \in 1 .. made : batches'[c].ok <= Cardinality(Got(c)')
    BY <2>1, <2>3, GotKept
  <2>5. /\ Cardinality(Past) \in Nat /\ Cardinality(Got(b)) \in Nat /\ Cardinality(Past') \in Nat
        /\ Cardinality(Past) + Cardinality(Got(b)) <= Cardinality(Past')
    BY <2>1, <2>2, PastGains
  <2>6. b \in 1 .. made /\ b \in BatchIds
    BY <1>0, <2>1
  <2>7. batches[b].ok \in Nat /\ batches[b].ok <= Cardinality(Got(b))
    BY <1>0, <2>6 DEF Batch, CountsInv
  <2>8. started \in Nat /\ started <= Cardinality(Past)
    BY DEF TypeInv, LoopOK, CountsInv
  <2>9. started' <= Cardinality(Past')
    BY <2>1, <2>5, <2>7, <2>8
  <2> QED
    BY <1>0, <2>1, <2>2, <2>4, <2>9 DEF CountsInv, WindowOwn
<1>8. CASE QueueBurst
  <2>1. MakesBurst
    BY <1>8, BurstMakes
  <2>2. PICK k \in Nat, n \in Nat, ms \in Millis, f \in Faults \cup {NoFault},
             sp \in Splits \cup {NoSplit} :
          Enqueued(k, ms, 1, n, FALSE, f, sp)
    BY <2>1 DEF MakesBurst
  <2>3. UNCHANGED <<window, nextSeq, started, base, orders>>
    BY <2>1 DEF MakesBurst, director, progress, loop
  <2>4. made' = made + k
    BY <2>2 DEF Enqueued
  <2>5. \A b \in 1 .. made : batches'[b] = batches[b]
    <3>1. \A b \in 1 .. made : b \in BatchIds /\ b \notin (made + 1) .. (made + k)
      BY <1>0, <2>4
    <3> QED
      BY <2>2, <3>1 DEF Enqueued
  <2>6. \A b \in 1 .. made : batches'[b].ok <= Cardinality(Got(b)')
    BY <2>3, <2>5, GotKept DEF SameRequest
  <2>7. \A b \in (made + 1) .. (made + k) : batches'[b].ok <= Cardinality(Got(b)')
    <3>1. ASSUME NEW b \in (made + 1) .. (made + k) PROVE Cardinality(Got(b)') \in Nat
      <4>1. Got(b)' \subseteq orders
        BY <2>3 DEF Got
      <4>2. IsFiniteSet(Got(b)')
        BY <1>0, <4>1, FS_Subset
      <4> QED
        BY <4>2, FS_CardinalityType
    <3>2. \A b \in (made + 1) .. (made + k) : batches'[b].ok = 0
      BY <2>2 DEF Enqueued
    <3> QED
      BY <3>1, <3>2
  <2>8. \A b \in 1 .. made' : b \in 1 .. made \/ b \in (made + 1) .. (made + k)
    BY <1>0, <2>4
  <2>9. \A b \in window : batches'[b] = batches[b]
    BY <1>0, <2>5
  <2>10. Past \subseteq Past'
    BY <2>3, <2>9 DEF Past
  <2>11. started' <= Cardinality(Past')
    BY <1>0, <2>3, <2>10, PastKept
  <2> QED
    BY <1>0, <2>3, <2>6, <2>7, <2>8, <2>9, <2>11 DEF CountsInv, WindowOwn
<1>9. CASE Activity
  <2>1. UNCHANGED <<window, nextSeq, started, base>>
    BY <1>9 DEF Activity, director, progress, loop
  <2>2. PICK b \in BatchIds : Worked(b) /\ (Attempted(b) \/ TriedAnew(b)) /\ made' = made
    BY <1>0, <1>9, BatchStepWorks, BatchStepOrders DEF Activity
  <2>3. b \in 1 .. made
    BY <1>0, <2>2 DEF Worked, BatchIds
  <2>4. /\ IsFiniteSet(orders') /\ orders \subseteq orders'
        /\ batches'[b].ok <= Cardinality(Got(b)')
    BY <2>2, <2>3, GotStep
  <2>5. ASSUME NEW c \in 1 .. made, c # b
        PROVE  batches'[c].ok <= Cardinality(Got(c)')
    <3>1. batches'[c] = batches[c] /\ c \in BatchIds
      BY <1>0, <2>2, <2>5 DEF Worked
    <3>2. /\ Cardinality(Got(c)) \in Nat /\ Cardinality(Got(c)') \in Nat
          /\ Cardinality(Got(c)) <= Cardinality(Got(c)')
      BY <2>4, <3>1, GotGrows DEF SameRequest
    <3>3. batches[c].ok \in Nat /\ batches[c].ok <= Cardinality(Got(c))
      BY <1>0, <3>1 DEF Batch, CountsInv
    <3> QED
      BY <3>1, <3>2, <3>3
  <2>6. \A c \in window : SeqsOf(batches'[c]) = SeqsOf(batches[c]) /\ batches'[c].paced = batches[c].paced
    BY <1>0, <2>2 DEF Worked, SameRequest, SeqsOf
  <2>7. Past \subseteq Past'
    BY <2>1, <2>4, <2>6 DEF Past
  <2>8. started' <= Cardinality(Past')
    BY <2>1, <2>4, <2>7, PastKept
  <2> QED
    BY <1>0, <2>1, <2>2, <2>4, <2>5, <2>6, <2>8 DEF CountsInv, WindowOwn
<1>10. CASE Clock
  <2>1. UNCHANGED <<window, nextSeq, started, base, made, orders>> /\ AllTouched
    BY <1>0, <1>10, TickTouches DEF Clock, Tick, director, progress, loop
  <2> QED
    BY <1>5, <2>1
<1> QED
  BY <1>1, <1>3, <1>4, <1>6, <1>7, <1>8, <1>9, <1>10 DEF Next, Direct

LEMMA CountsCorrect == Spec => [](TypeInv /\ NumbersInv /\ CountsInv)
  BY TypeInvCorrect, NumbersInit, NumbersStep, CountsInit, CountsStep, PTL DEF Spec

(* The count on the dashboard never exceeds the orders there are: what a   *)
(* window counts at its end are orders no earlier window counted, and the  *)
(* count is lost with the window, never repeated.                          *)
THEOREM CountReal == Spec => []StartedIsReal
<1>1. TypeInv /\ CountsInv => StartedIsReal
  <2> SUFFICES ASSUME TypeInv, CountsInv PROVE StartedIsReal
    OBVIOUS
  <2> DEFINE all == {id \in orders : id[1] = Stream}
  <2>1. Past \subseteq all /\ all \subseteq orders
    BY DEF Past
  <2>2. IsFiniteSet(all)
    BY <2>1, FS_Subset DEF CountsInv
  <2> HIDE DEF all
  <2>3. Cardinality(Past) \in Nat /\ Cardinality(all) \in Nat /\ Cardinality(Past) <= Cardinality(all)
    BY <2>1, <2>2, Grows
  <2>4. started <= Cardinality(all)
    BY <2>3 DEF CountsInv, TypeInv, LoopOK
  <2> QED
    BY <2>4 DEF StartedIsReal, all
<1> QED
  BY <1>1, CountsCorrect, PTL

(* A batch that ended has an order of its own, that was started, for every *)
(* one it counted, through retries and answers of every kind.              *)
THEOREM CountedExist == Spec => []CountedOrdersExist
<1>1. TypeInv /\ CountsInv => CountedOrdersExist
  <2> SUFFICES ASSUME TypeInv, CountsInv, NEW b \in 1 .. made
               PROVE  Cardinality({s \in Seqs(b) : OrderID(b, s) \in orders}) >= batches[b].ok
    BY DEF CountedOrdersExist
  <2> DEFINE own == {s \in Seqs(b) : OrderID(b, s) \in orders}
             f == [s \in own |-> OrderID(b, s)]
             taken == {f[s] : s \in own}
  <2>1. batches[b].first \in Nat /\ batches[b].count \in Nat /\ batches[b].ok \in Nat
    <3>1. b \in BatchIds
      BY BatchAssumption DEF TypeInv, MadeOK, BatchIds
    <3> QED
      BY <3>1 DEF TypeInv, BatchesOK, Batch
  <2>2. IsFiniteSet(Seqs(b))
    <3>1. /\ batches[b].first \in Int
          /\ batches[b].first + batches[b].count - 1 \in Int
      BY <2>1
    <3> DEFINE last == batches[b].first + batches[b].count - 1
    <3> HIDE DEF last
    <3>2. IsFiniteSet(batches[b].first .. last)
      BY <3>1, FS_Interval DEF last
    <3> QED
      BY <3>2 DEF Seqs, last
  <2>3. IsFiniteSet(own)
    BY <2>2, FS_Subset
  <2>4. Got(b) \subseteq taken
    BY DEF Got, Seqs, SeqsOf, OrderID
  <2>5. IsFiniteSet(taken) /\ Cardinality(taken) \in Nat /\ Cardinality(own) \in Nat
        /\ Cardinality(taken) <= Cardinality(own)
    <3>1. f \in Surjection(own, taken)
      BY DEF Surjection
    <3> HIDE DEF f, taken, own
    <3> QED
      BY <2>3, <3>1, FS_Surjection, FS_CardinalityType
  <2> HIDE DEF own, taken
  <2>6. Cardinality(Got(b)) \in Nat /\ Cardinality(Got(b)) <= Cardinality(taken)
    BY <2>4, <2>5, Grows
  <2>7. batches[b].ok <= Cardinality(own)
    BY <2>1, <2>5, <2>6 DEF CountsInv
  <2> QED
    BY <2>1, <2>5, <2>7 DEF own
<1> QED
  BY <1>1, CountsCorrect, PTL

-----------------------------------------------------------------------------
(* The contract.                                                           *)

LEMMA ContractInit == Init => Contract!Init
  BY DEF Init, Contract!Init, Running

LEMMA ContractStep == TypeInv /\ [Next]_vars => [Contract!Next]_Contract!vars
<1> SUFFICES ASSUME TypeInv, [Next]_vars PROVE Contract!Next \/ UNCHANGED Contract!vars
  OBVIOUS
<1> USE DEF Contract!vars, Contract!settings, Contract!progress, Running
<1>1. CASE Ensure
  <2>1. Contract!Begin
    BY <1>1 DEF Ensure, Contract!Begin, steady
  <2> QED
    BY <2>1 DEF Contract!Next
<1>2. CASE SetRate \/ SetSplit \/ SetChaos
  <2>1. Contract!Change
    BY <1>2 DEF SetRate, SetSplit, SetChaos, Accept, Touched, progress, steady, TypeInv, SettingsOK,
      Contract!Change
  <2> QED
    BY <2>1 DEF Contract!Next
<1>3. CASE Stop
  <2>1. Contract!Stop
    BY <1>3 DEF Stop, progress, steady, Contract!Stop
  <2> QED
    BY <2>1 DEF Contract!Next
<1>4. CASE LoopStops
  <2>1. Contract!End
    BY <1>4 DEF LoopStops, settings, progress, activities, Contract!End
  <2> QED
    BY <2>1 DEF Contract!Next
<1>5. CASE LoopExpires
  <2>1. Contract!Expire
    BY <1>5 DEF LoopExpires, Expired, progress, activities, Contract!Expire
  <2> QED
    BY <2>1 DEF Contract!Next
<1>6. CASE LoopIdles \/ LoopContinues \/ WindowFails \/ WindowChanged \/ IdleChanged
  BY <1>6 DEF LoopIdles, LoopContinues, WindowFails, WindowChanged, WindowLeft, IdleChanged,
    settings, progress, steady, activities
<1>7. CASE WindowBegins
  <2>1. /\ nextSeq' = nextSeq + Due /\ rate > 0 /\ ~Expired /\ pc = "loop" /\ pc' = "window"
        /\ UNCHANGED <<settings, stopAt, started, now>>
    BY <1>7 DEF WindowBegins
  <2>2. Due \in Nat /\ nextSeq \in Nat /\ now \in Int /\ stopAt \in Int
    BY DueNat DEF TypeInv, LoopOK, ClockOK
  <2>3. CASE Due = 0
    BY <2>1, <2>2, <2>3 DEF settings
  <2>4. CASE Due # 0
    <3>1. Contract!Number
      BY <2>1, <2>2, <2>4 DEF settings, Expired, Contract!Number
    <3> QED
      BY <3>1 DEF Contract!Next
  <2> QED
    BY <2>3, <2>4
<1>8. CASE WindowEnds
  <2>1. PICK b \in window :
          /\ started' = started + batches[b].ok /\ pc = "window" /\ WindowLeft
          /\ UNCHANGED <<settings, stopAt, nextSeq, now>>
    BY <1>8 DEF WindowEnds, Counted
  <2>2. b \in BatchIds
    BY <2>1, BatchAssumption DEF TypeInv, MadeOK, BatchIds
  <2>3. batches[b].ok \in Nat /\ started \in Nat
    BY <2>2 DEF TypeInv, BatchesOK, Batch, LoopOK
  <2>4. Contract!Count
    BY <2>1, <2>3 DEF settings, WindowLeft, Contract!Count
  <2> QED
    BY <2>4 DEF Contract!Next
<1>9. CASE QueueBurst
  BY <1>9 DEF QueueBurst, director, settings, progress
<1>10. CASE Activity
  <2>1. now' = now
    BY <1>10, BatchStepWorks DEF Activity, TypeInv, BatchesOK
  <2> QED
    BY <1>10, <2>1 DEF Activity, director, settings, progress
<1>11. CASE Clock
  <2>1. UNCHANGED director /\ (now' = now + 1 \/ now' = now)
    BY <1>11 DEF Clock, Tick
  <2> QED
    BY <2>1 DEF director, settings, progress, Contract!Tick, Contract!Next
<1>12. CASE UNCHANGED vars
  BY <1>12 DEF vars, director, settings, progress, activities
<1> QED
  BY <1>1, <1>2, <1>3, <1>4, <1>5, <1>6, <1>7, <1>8, <1>9, <1>10, <1>11, <1>12 DEF Next, Direct

(* The director is the generator of the contract: nothing but an operator  *)
(* or the deadline moves the settings, continuing as new is not noticed,   *)
(* and numbers and counts never go back.                                   *)
THEOREM Implements == Spec => KeepsContract
  BY TypeInvCorrect, ContractInit, ContractStep, PTL DEF Spec, KeepsContract, Contract!Spec
=============================================================================
