-------------------------- MODULE AnalysisRunProofs --------------------------
(***************************************************************************)
(* Proofs about the runs of an analysis, for a history of any length, any  *)
(* limit of a batch, any targets, any number of processes, failures and    *)
(* crashes, with and without readers beside them: the tables always tell   *)
(* one history, a run that succeeds has covered exactly what was asked,    *)
(* the tables implement CoverageLedger, and readers see one history.  The  *)
(* argument: only the owner of the lock writes; only the last batch may be *)
(* pending, and its rows are sealed without a hole, up to where the owner  *)
(* stands, so that rows are counted by their distances.                    *)
(***************************************************************************)
EXTENDS PairListing, FiniteSetTheorems, TLAPS

BatchSet == UNION {BatchRecords(n) : n \in 1..BatchLimit}

\* The first n rows of batch b have an outcome and the others none.
SealedTo(b, n) == \A s \in 0..(batches[b].count - 1) : Row(b, s).outcome # Open <=> s < n

\* Batches lie apart, and those that are done cover the committed pairs.
Ordered ==
    /\ \A b, c \in 1..Latest : b < c => batches[b].oldest <= batches[c].newest
    /\ \A d \in 0..(completed - 1) : \E b \in 1..Latest :
          batches[b].done /\ batches[b].newest <= d /\ d < batches[b].oldest

\* The singleton row and the batches.
Coverage ==
    /\ completed = boundary
    /\ exhausted <=> completed = HistoryPairs
    /\ created <=> Latest > 0
    /\ \A b \in 1..Latest : batches[b].oldest <= HistoryPairs
    /\ \A b \in 1..Latest : batches[b].done <=> batches[b].oldest <= completed
    /\ \A b \in 1..Latest : b < Latest => batches[b].done
    /\ \A b \in 1..Latest : batches[b].reaches <=> batches[b].oldest = HistoryPairs
    /\ Latest > 0 => IF batches[Latest].done
                     THEN revision = 2 * Latest /\ completed = batches[Latest].oldest
                     ELSE /\ revision = 2 * Latest - 1
                          /\ batches[Latest].base + 1 = revision
                          /\ completed = batches[Latest].newest
    /\ Latest = 0 => revision = 0 /\ completed = 0

\* What is sealed in a batch has no hole, and nothing is open in one that is done.
Sealing ==
    \A b \in 1..Latest : \E n \in 0..batches[b].count :
        SealedTo(b, n) /\ (batches[b].done => n = batches[b].count)

\* Every outcome is credited to an invocation, later ones to later ones.
Credit ==
    \A b \in 1..Latest : \A s \in 0..(batches[b].count - 1) :
        /\ IF Row(b, s).outcome = Open THEN Row(b, s).by = 0
           ELSE Row(b, s).by \in 1..Len(invocations)
        /\ \A c \in b..Latest : \A t \in 0..(batches[c].count - 1) :
              (c > b \/ t > s) /\ Row(c, t).outcome # Open => Row(b, s).by <= Row(c, t).by

\* The tables.
TablesInv ==
    /\ batches \in Seq(BatchSet)
    /\ RowsTile /\ Ordered /\ Coverage /\ Sealing /\ Credit

\* Where a process has an invocation that is recorded and not ended.
Recorded == {"advance", "execute", "commit", "success", "failed", "interrupted"}

\* The owner of the lock is the one process that is not idle; its invocation is
\* the newest and is running.
Ownership ==
    \A p \in Runners :
        /\ pc[p] # "idle" <=> lock = p
        /\ pc[p] = "begin" => created
        /\ pc[p] \in Recorded => /\ created
                                 /\ own[p] = Len(invocations) /\ own[p] >= 1
                                 /\ invocations[own[p]] = "running"

\* A process that executes pairs stands at the first open one.
Standing ==
    \A p \in Runners :
        /\ pc[p] = "execute" => /\ ~batches[Latest].done
                                /\ position[p] <= batches[Latest].count
                                /\ SealedTo(Latest, position[p])
        /\ pc[p] = "commit" => /\ ~batches[Latest].done
                               /\ SealedTo(Latest, batches[Latest].count)

\* The total a target stands for, counted from where the run began.
Wanted(p) == CASE target[p].kind = "all" -> NoLimit
               [] target[p].kind = "additional_pairs" -> startedAt[p] + target[p].value
               [] OTHER -> target[p].value

\* A run never goes beyond its target, pending work included, and has met it
\* when it succeeds.
TargetKept ==
    \A p \in Runners :
        /\ pc[p] \in Recorded => /\ startedAt[p] <= completed /\ desired[p] = Wanted(p)
                                 /\ completed <= Most(startedAt[p], desired[p])
        /\ pc[p] \in {"execute", "commit"} => completed + batches[Latest].count <= desired[p]
        /\ pc[p] = "success" => /\ exhausted \/ completed >= desired[p]

\* The inductive invariant.
IInv == TypeOK /\ TablesInv /\ Ownership /\ Standing /\ TargetKept

-----------------------------------------------------------------------------
(* What the operators return.                                               *)

RowSet == [distance : 0..(HistoryPairs - 1), outcome : Outcomes \cup {Open}, by : Nat]

\* The columns of a batch and of its rows.
LEMMA BatchColumns ==
    ASSUME batches \in Seq(BatchSet), NEW b \in 1..Latest
    PROVE  /\ batches[b].count \in 1..BatchLimit /\ batches[b].count \in Nat
           /\ batches[b] \in BatchRecords(batches[b].count)
           /\ batches[b].newest \in 0..HistoryPairs /\ batches[b].oldest \in 0..HistoryPairs
           /\ batches[b].base \in Nat /\ batches[b].done \in BOOLEAN
           /\ batches[b].reaches \in BOOLEAN
           /\ batches[b].rows \in [0..(batches[b].count - 1) -> RowSet]
           /\ \A s \in 0..(batches[b].count - 1) :
                 Row(b, s) \in RowSet /\ Row(b, s).by \in Nat
                 /\ Row(b, s).distance \in 0..(HistoryPairs - 1)
  <1>1. PICK n \in 1..BatchLimit : batches[b] \in BatchRecords(n)
    BY DEF BatchSet, Latest
  <1>2. batches[b].count = n
    BY <1>1 DEF BatchRecords
  <1>3. n \in Nat
    BY HistoryAssumption
  <1>4. batches[b].rows \in [0..(n - 1) -> RowSet]
    BY <1>1 DEF BatchRecords, RowSet
  <1>5. \A s \in 0..(n - 1) : Row(b, s) \in RowSet
    BY <1>4 DEF Row
  <1>6. \A r \in RowSet : r.by \in Nat /\ r.distance \in 0..(HistoryPairs - 1)
    BY DEF RowSet
  <1> QED BY <1>1, <1>2, <1>3, <1>4, <1>5, <1>6 DEF BatchRecords

\* The latest batch is the one that may be pending.
LEMMA PendingLast ==
    ASSUME TablesInv
    PROVE  /\ Latest \in Nat
           /\ HasPending <=> Latest > 0 /\ ~batches[Latest].done
           /\ HasPending => PendingBatches = {Latest} /\ Pending = Latest
  <1>1. Latest \in Nat
    BY DEF TablesInv, Latest
  <1>2. \A b \in 1..Latest : b < Latest => batches[b].done
    BY DEF TablesInv, Coverage
  <1>3. PendingBatches \subseteq {Latest}
    BY <1>1, <1>2 DEF PendingBatches
  <1>4. HasPending <=> Latest > 0 /\ ~batches[Latest].done
    BY <1>1, <1>3 DEF HasPending, PendingBatches
  <1>5. HasPending => PendingBatches = {Latest}
    BY <1>3 DEF HasPending
  <1> QED BY <1>1, <1>4, <1>5 DEF Pending

\* The sealed prefix is the place up to which the rows are sealed.
LEMMA PrefixIs ==
    ASSUME NEW b, batches[b].count \in Nat, NEW n \in 0..batches[b].count, SealedTo(b, n)
    PROVE  Prefix(b) = n /\ PrefixContiguous(b)
  <1> DEFINE IsPrefix(m) == /\ \A s \in 0..(m - 1) : Row(b, s).outcome # Open
                            /\ m < batches[b].count => Row(b, m).outcome = Open
  <1>1. IsPrefix(n)
    BY DEF SealedTo
  <1>2. \A m \in 0..batches[b].count : IsPrefix(m) => m = n
    <2> SUFFICES ASSUME NEW m \in 0..batches[b].count, IsPrefix(m), m # n PROVE FALSE
      OBVIOUS
    <2>1. CASE m < n
      BY <2>1 DEF SealedTo
    <2>2. CASE n < m
      BY <2>2 DEF SealedTo
    <2> QED BY <2>1, <2>2
  <1>3. Prefix(b) = n
    <2> HIDE DEF IsPrefix
    <2>1. (CHOOSE m \in 0..batches[b].count : IsPrefix(m)) = n
      BY <1>1, <1>2
    <2> QED BY <2>1 DEF Prefix, IsPrefix
  <1>4. PrefixContiguous(b)
    BY <1>3 DEF PrefixContiguous, SealedTo
  <1> QED BY <1>3, <1>4

\* How many pairs are taken, and what the batch made of them is.
LEMMA BatchOf ==
    ASSUME TypeOK, boundary = completed, NEW asked \in Nat \ {0}, asked <= BatchLimit,
           completed < HistoryPairs
    PROVE  LET n == SelectedPairs(boundary, asked)
           IN  /\ n \in 1..BatchLimit /\ completed + n <= HistoryPairs
               /\ SelectionExhausted(boundary, asked) <=> completed + n = HistoryPairs
               /\ NewBatch(n, SelectionExhausted(boundary, asked)) \in BatchSet
  <1> DEFINE n == SelectedPairs(boundary, asked)
             r == SelectionExhausted(boundary, asked)
  <1> USE HistoryAssumption
  <1>0. completed \in 0..HistoryPairs /\ revision \in Nat
    BY DEF TypeOK
  <1>1. n \in 1..BatchLimit /\ completed + n <= HistoryPairs /\ r \in BOOLEAN
    BY <1>0 DEF SelectedPairs, SelectionExhausted, Least
  <1>2. r <=> completed + n = HistoryPairs
    BY <1>0 DEF SelectedPairs, SelectionExhausted, Least
  <1> HIDE DEF n, r
  <1>3. [s \in 0..(n - 1) |-> [distance |-> completed + n - 1 - s, outcome |-> Open, by |-> 0]]
           \in [0..(n - 1) -> [distance : 0..(HistoryPairs - 1),
                               outcome : Outcomes \cup {Open}, by : Nat]]
    <2> SUFFICES ASSUME NEW s \in 0..(n - 1)
                 PROVE  completed + n - 1 - s \in 0..(HistoryPairs - 1)
      OBVIOUS
    <2> QED BY <1>0, <1>1
  <1>4. NewBatch(n, r) \in BatchRecords(n)
    BY <1>0, <1>1, <1>3 DEF NewBatch, BatchRecords
  <1>5. NewBatch(n, r) \in BatchSet
    BY <1>1, <1>4 DEF BatchSet
  <1> QED BY <1>1, <1>2, <1>5 DEF n, r

-----------------------------------------------------------------------------
(* The tables keep their invariant.                                         *)

LEMMA TablesInit == Init => TablesInv
  <1> SUFFICES ASSUME Init PROVE TablesInv
    OBVIOUS
  <1>1. batches = <<>> /\ Latest = 0
    BY DEF Init, Latest
  <1>2. batches \in Seq(BatchSet)
    BY <1>1
  <1>3. RowsTile /\ Sealing /\ Credit
    BY <1>1 DEF RowsTile, Sealing, Credit
  <1>4. Ordered
    BY <1>1 DEF Ordered, Init
  <1>5. Coverage
    BY <1>1, HistoryAssumption DEF Coverage, Init
  <1> QED BY <1>2, <1>3, <1>4, <1>5 DEF TablesInv

\* Whatever leaves the tables alone keeps it, new invocations included.
LEMMA TablesKept ==
    ASSUME TablesInv, UNCHANGED tables,
           Len(invocations) \in Nat, Len(invocations') \in Nat,
           Len(invocations) <= Len(invocations')
    PROVE  TablesInv'
  <1>1. /\ batches' = batches /\ Latest' = Latest
        /\ \A b, s : Row(b, s)' = Row(b, s)
    BY DEF tables, Latest, Row
  <1>2. batches' \in Seq(BatchSet)
    BY <1>1 DEF TablesInv
  <1>3. RowsTile'
    BY <1>1 DEF TablesInv, RowsTile
  <1>4. Ordered'
    BY <1>1 DEF TablesInv, Ordered, tables
  <1>5. Coverage'
    BY <1>1 DEF TablesInv, Coverage, tables
  <1>6. Sealing'
    BY <1>1 DEF TablesInv, Sealing, SealedTo
  <1>7. Credit'
    <2> SUFFICES ASSUME NEW b \in 1..Latest, NEW s \in 0..(batches[b].count - 1)
                 PROVE  /\ IF Row(b, s).outcome = Open THEN Row(b, s).by = 0
                           ELSE Row(b, s).by \in 1..Len(invocations')
                        /\ \A c \in b..Latest : \A t \in 0..(batches[c].count - 1) :
                              (c > b \/ t > s) /\ Row(c, t).outcome # Open =>
                                  Row(b, s).by <= Row(c, t).by
      BY <1>1 DEF Credit
    <2>1. IF Row(b, s).outcome = Open THEN Row(b, s).by = 0
          ELSE Row(b, s).by \in 1..Len(invocations)
      BY DEF TablesInv, Credit
    <2>2. \A c \in b..Latest : \A t \in 0..(batches[c].count - 1) :
              (c > b \/ t > s) /\ Row(c, t).outcome # Open => Row(b, s).by <= Row(c, t).by
      BY DEF TablesInv, Credit
    <2> QED BY <2>1, <2>2
  <1> QED BY <1>2, <1>3, <1>4, <1>5, <1>6, <1>7 DEF TablesInv

\* A fresh batch after the last one, when none is pending.
Freezes(asked) ==
    /\ batches' = Append(batches, NewBatch(SelectedPairs(boundary, asked),
                                           SelectionExhausted(boundary, asked)))
    /\ revision' = revision + 1 /\ created' = TRUE
    /\ UNCHANGED <<completed, boundary, exhausted, invocations>>

LEMMA FreezeKeeps ==
    ASSUME TypeOK, TablesInv, ~HasPending, completed < HistoryPairs,
           NEW asked \in Nat \ {0}, asked <= BatchLimit, Freezes(asked)
    PROVE  TablesInv'
  <1> DEFINE n == SelectedPairs(boundary, asked)
             r == SelectionExhausted(boundary, asked)
             new == NewBatch(n, r)
  <1> USE DEF Row
  <1>a. /\ Coverage /\ Ordered /\ RowsTile /\ Sealing /\ Credit
        /\ batches \in Seq(BatchSet)
    BY DEF TablesInv
  <1>t. /\ Latest \in Nat /\ revision \in Nat /\ completed \in Nat /\ HistoryPairs \in Nat
        /\ boundary = completed
    BY <1>a, HistoryAssumption DEF TypeOK, Latest, Coverage
  <1>l. PICK L \in Nat : L = Latest + 1 /\ Latest = L - 1
    BY <1>t
  <1>b. /\ n \in 1..BatchLimit /\ n \in Nat /\ n > 0 /\ completed + n <= HistoryPairs
        /\ r <=> completed + n = HistoryPairs
        /\ new \in BatchSet
    BY <1>t, <1>l, <1>a, BatchOf, HistoryAssumption
  <1> HIDE DEF n, r
  <1>c. /\ new.newest = completed /\ new.oldest = completed + n /\ new.count = n
        /\ new.done = FALSE /\ new.base = revision
        /\ new.reaches <=> completed + n = HistoryPairs
        /\ \A s \in 0..(n - 1) : /\ new.rows[s].distance = completed + n - 1 - s
                                 /\ new.rows[s].outcome = Open /\ new.rows[s].by = 0
    BY <1>t, <1>b DEF NewBatch, r
  <1> HIDE DEF new
  <1>u. /\ revision' = revision + 1 /\ created' = TRUE
        /\ UNCHANGED <<completed, boundary, exhausted, invocations>>
    BY DEF Freezes
  <1>d. /\ batches' \in Seq(BatchSet)
        /\ Latest' = L /\ batches'[L] = new
        /\ \A b \in 1..Latest : batches'[b] = batches[b]
        /\ \A b \in 1..L : b = L \/ b \in 1..Latest
        /\ \A b \in 1..Latest : b \in 1..L /\ b # L
    BY <1>u, <1>t, <1>l, <1>a, <1>b DEF Latest, new, n, r, Freezes
  <1>e. \A b \in 1..Latest : batches[b].done
    BY <1>u, <1>t, <1>l, <1>a, PendingLast DEF Coverage
  <1>f. \A b \in 1..Latest : batches[b].oldest <= completed
    BY <1>u, <1>t, <1>l, <1>a, <1>e DEF Coverage
  <1>g. Latest > 0 => batches[Latest].oldest = completed
    BY <1>u, <1>t, <1>l, <1>a, <1>e DEF Coverage
  <1>h. \A b \in 1..Latest : /\ batches[b].newest \in Nat /\ batches[b].oldest \in Nat
                             /\ batches[b].count \in Nat
    BY <1>u, <1>t, <1>l, <1>a, BatchColumns
  <1>1. RowsTile'
    <2>1. ASSUME NEW b \in 1..L, b # 1
          PROVE  b - 1 \in 1..Latest /\ batches'[b - 1] = batches[b - 1]
      <3>1. PICK q \in 1..Latest : q = b - 1
        BY <1>u, <1>t, <1>l, <2>1
      <3> QED BY <1>d, <3>1
    <2>2. new.newest = IF L = 1 THEN 0 ELSE batches[L - 1].oldest
      <3>1. Latest = 0 => completed = 0
        BY <1>a DEF Coverage
      <3>2. CASE Latest = 0
        BY <1>c, <1>l, <3>1, <3>2
      <3>3. CASE Latest # 0
        <4>1. Latest > 0 /\ L # 1
          BY <1>t, <1>l, <3>3
        <4> QED BY <1>c, <1>g, <1>l, <4>1
      <3> QED BY <3>2, <3>3
    <2> SUFFICES ASSUME NEW b \in 1..L
                 PROVE  /\ batches'[b].newest = (IF b = 1 THEN 0 ELSE batches'[b - 1].oldest)
                        /\ batches'[b].oldest = batches'[b].newest + batches'[b].count
                        /\ \A s \in 0..(batches'[b].count - 1) :
                              Row(b, s)'.distance = batches'[b].oldest - 1 - s
      BY <1>d, <1>u DEF RowsTile
    <2>4. CASE b = L
      <3>1. batches'[b].newest = (IF b = 1 THEN 0 ELSE batches'[b - 1].oldest)
        BY <1>d, <2>1, <2>2, <2>4
      <3>2. batches'[b].oldest = batches'[b].newest + batches'[b].count
        BY <1>c, <1>d, <2>4
      <3>3. \A s \in 0..(batches'[b].count - 1) :
               batches'[b].rows[s].distance = batches'[b].oldest - 1 - s
        <4>1. batches'[b] = new
          BY <1>d, <2>4
        <4> QED BY <1>t, <1>b, <1>c, <4>1
      <3> QED BY <3>1, <3>2, <3>3
    <2>5. CASE b \in 1..Latest
      <3>1. batches'[b].newest = (IF b = 1 THEN 0 ELSE batches'[b - 1].oldest)
        BY <1>a, <1>d, <2>1, <2>5 DEF RowsTile
      <3>2. batches'[b].oldest = batches'[b].newest + batches'[b].count
        BY <1>a, <1>d, <2>5 DEF RowsTile
      <3>3. \A s \in 0..(batches'[b].count - 1) :
               batches'[b].rows[s].distance = batches'[b].oldest - 1 - s
        BY <1>a, <1>d, <2>5 DEF RowsTile
      <3> QED BY <3>1, <3>2, <3>3
    <2> QED BY <2>4, <2>5, <1>d
  <1>2. Ordered'
    <2>1. ASSUME NEW b \in 1..L, NEW c \in 1..L, b < c
          PROVE  batches'[b].oldest <= batches'[c].newest
      <3>1. b \in 1..Latest
        BY <1>u, <1>t, <1>l, <1>a, <2>1
      <3>2. CASE c = L
        BY <1>c, <1>d, <1>f, <3>1, <3>2
      <3>3. CASE c \in 1..Latest
        BY <1>u, <1>t, <1>l, <1>a, <1>d, <2>1, <3>1, <3>3 DEF Ordered
      <3> QED BY <3>2, <3>3, <1>d
    <2>2. ASSUME NEW d \in 0..(completed - 1)
          PROVE  \E b \in 1..L : /\ batches'[b].done /\ batches'[b].newest <= d
                                 /\ d < batches'[b].oldest
      <3>1. PICK b \in 1..Latest : /\ batches[b].done /\ batches[b].newest <= d
                                   /\ d < batches[b].oldest
        BY <1>u, <1>t, <1>l, <1>a, <2>2 DEF Ordered
      <3> QED BY <1>u, <1>t, <1>l, <1>a, <1>d, <3>1
    <2> QED BY <1>d, <1>u, <2>1, <2>2 DEF Ordered
  <1>3. Coverage'
    <2>1. revision = 2 * Latest
      <3>1. CASE Latest = 0
        BY <1>a, <3>1 DEF Coverage
      <3>2. CASE Latest # 0
        <4>1. Latest \in 1..Latest /\ Latest > 0
          BY <1>t, <3>2
        <4> QED BY <1>a, <1>e, <4>1 DEF Coverage
      <3> QED BY <3>1, <3>2
    <2>2. (exhausted <=> completed = HistoryPairs) /\ (created' <=> Latest' > 0)
      BY <1>u, <1>t, <1>l, <1>a, <1>d DEF Coverage
    <2>3. \A b \in 1..L : /\ batches'[b].oldest <= HistoryPairs
                          /\ batches'[b].done <=> batches'[b].oldest <= completed
                          /\ b < L => batches'[b].done
                          /\ batches'[b].reaches <=> batches'[b].oldest = HistoryPairs
      <3> SUFFICES ASSUME NEW b \in 1..L
                   PROVE  /\ batches'[b].oldest <= HistoryPairs
                          /\ batches'[b].done <=> batches'[b].oldest <= completed
                          /\ b < L => batches'[b].done
                          /\ batches'[b].reaches <=> batches'[b].oldest = HistoryPairs
        OBVIOUS
      <3>1. CASE b = L
        <4>1. batches'[b] = new /\ ~(b < L)
          BY <1>d, <1>l, <3>1
        <4> QED BY <1>t, <1>b, <1>c, <4>1
      <3>2. CASE b \in 1..Latest
        BY <1>u, <1>t, <1>l, <1>a, <1>d, <1>e, <3>2 DEF Coverage
      <3> QED BY <3>1, <3>2, <1>d
    <2>4. /\ revision' = 2 * L - 1 /\ new.base + 1 = revision' /\ completed = new.newest
          /\ ~new.done /\ L > 0
      BY SMTT(30), <1>u, <1>t, <1>l, <1>a, <1>c, <2>1
    <2>5. completed' = completed /\ boundary' = boundary /\ exhausted' = exhausted
      BY <1>u
    <2> QED BY <1>u, <1>t, <1>l, <1>a, <1>d, <2>2, <2>3, <2>4, <2>5 DEF Coverage
  <1>4. Sealing'
    <2> SUFFICES ASSUME NEW b \in 1..L
                 PROVE  \E m \in 0..batches'[b].count :
                            SealedTo(b, m)' /\ (batches'[b].done => m = batches'[b].count)
      BY <1>d DEF Sealing
    <2>1. CASE b = L
      <3>1. SealedTo(L, 0)'
        BY <1>b, <1>c, <1>d DEF SealedTo
      <3> QED BY <2>1, <3>1, <1>b, <1>c, <1>d
    <2>2. CASE b \in 1..Latest
      <3>1. \A m : SealedTo(b, m)' <=> SealedTo(b, m)
        BY <1>d, <2>2 DEF SealedTo
      <3>2. PICK m \in 0..batches[b].count :
                    SealedTo(b, m) /\ (batches[b].done => m = batches[b].count)
        BY <1>u, <1>t, <1>l, <1>a, <2>2 DEF Sealing
      <3> QED BY <3>1, <3>2, <2>2, <1>d
    <2> QED BY <2>1, <2>2, <1>d
  <1>5. Credit'
    <2>1. \A t \in 0..(n - 1) : Row(L, t)'.outcome = Open /\ Row(L, t)'.by = 0
      BY <1>c, <1>d
    <2> SUFFICES ASSUME NEW b \in 1..L, NEW s \in 0..(batches'[b].count - 1)
                 PROVE  /\ IF Row(b, s)'.outcome = Open THEN Row(b, s)'.by = 0
                           ELSE Row(b, s)'.by \in 1..Len(invocations)
                        /\ \A c \in b..L : \A t \in 0..(batches'[c].count - 1) :
                              (c > b \/ t > s) /\ Row(c, t)'.outcome # Open =>
                                  Row(b, s)'.by <= Row(c, t)'.by
      BY <1>d, <1>u DEF Credit
    <2>2. CASE b = L
      <3>1. \A c \in b..L : c = L
        BY <1>u, <1>t, <1>l, <1>a, <2>2
      <3> QED BY <1>c, <1>d, <2>1, <2>2, <3>1
    <2>3. CASE b \in 1..Latest
      <3>1. \A c \in b..L : c = L \/ c \in b..Latest
        BY <1>u, <1>t, <1>l, <1>a, <2>3
      <3>2. \A c \in b..Latest : c \in 1..Latest
        BY <1>u, <1>t, <1>l, <1>a, <2>3
      <3>3. /\ IF Row(b, s).outcome = Open THEN Row(b, s).by = 0
               ELSE Row(b, s).by \in 1..Len(invocations)
            /\ \A c \in b..Latest : \A t \in 0..(batches[c].count - 1) :
                  (c > b \/ t > s) /\ Row(c, t).outcome # Open => Row(b, s).by <= Row(c, t).by
        BY <1>u, <1>t, <1>l, <1>a, <1>d, <2>3 DEF Credit
      <3>4. \A c \in b..L : \A t \in 0..(batches'[c].count - 1) :
               (c > b \/ t > s) /\ Row(c, t)'.outcome # Open => Row(b, s)'.by <= Row(c, t)'.by
        <4> SUFFICES ASSUME NEW c \in b..L, NEW t \in 0..(batches'[c].count - 1),
                            c > b \/ t > s, Row(c, t)'.outcome # Open
                     PROVE  Row(b, s)'.by <= Row(c, t)'.by
          OBVIOUS
        <4>1. c # L
          BY <1>c, <1>d, <2>1
        <4>2. c \in b..Latest /\ c \in 1..Latest
          BY <3>1, <3>2, <4>1
        <4> QED BY <1>d, <2>3, <3>3, <4>2
      <3> QED BY <1>d, <2>3, <3>3, <3>4
    <2> QED BY <2>2, <2>3, <1>d
  <1> QED BY <1>d, <1>1, <1>2, <1>3, <1>4, <1>5 DEF TablesInv

\* What batches have in common before and after a step that fills in a row or
\* closes the latest one.
SamePlan(b) ==
    /\ batches'[b].count = batches[b].count
    /\ batches'[b].newest = batches[b].newest /\ batches'[b].oldest = batches[b].oldest
    /\ batches'[b].base = batches[b].base /\ batches'[b].reaches = batches[b].reaches

\* An outcome and the invocation it is credited to enter row s of the latest batch.
Records(s, o, i) ==
    batches' = [batches EXCEPT ![Latest].rows[s] =
                  [distance |-> @.distance, outcome |-> o, by |-> i]]

LEMMA RecordEffect ==
    ASSUME batches \in Seq(BatchSet), Latest > 0,
           NEW s \in 0..(batches[Latest].count - 1), NEW o \in Outcomes, NEW i \in Nat,
           Records(s, o, i)
    PROVE  /\ batches' \in Seq(BatchSet) /\ Latest' = Latest
           /\ \A b \in 1..Latest : SamePlan(b) /\ batches'[b].done = batches[b].done
           /\ \A b \in 1..Latest : \A t \in 0..(batches[b].count - 1) :
                 b # Latest \/ t # s => batches'[b].rows[t] = batches[b].rows[t]
           /\ batches'[Latest].rows[s] = [distance |-> Row(Latest, s).distance,
                                          outcome |-> o, by |-> i]
  <1>0. Latest \in Nat /\ Latest \in 1..Latest
    BY DEF Latest
  <1>1. PICK L \in 1..Latest : L = Latest
    BY <1>0
  <1>3. /\ batches[L] \in BatchRecords(batches[L].count) /\ batches[L].count \in 1..BatchLimit
        /\ batches[L].rows \in [0..(batches[L].count - 1) -> RowSet]
        /\ batches[L].rows[s] \in RowSet
    BY <1>1, BatchColumns DEF Row
  <1> DEFINE old == batches[L].rows
             row == [distance |-> old[s].distance, outcome |-> o, by |-> i]
             batch == [batches[L] EXCEPT !.rows = [old EXCEPT ![s] = row]]
  <1>5. row \in RowSet
    BY <1>3 DEF RowSet
  <1>6. [old EXCEPT ![s] = row] \in [0..(batches[L].count - 1) -> RowSet]
    BY <1>3, <1>5
  <1>7. batch \in BatchRecords(batches[L].count)
    BY <1>3, <1>6 DEF BatchRecords, RowSet
  <1>8. batch \in BatchSet
    BY <1>3, <1>7 DEF BatchSet
  <1>9. batches' = [batches EXCEPT ![L] = batch]
    BY <1>1 DEF Records
  <1> HIDE DEF row
  <1>12. /\ batch.count = batches[L].count /\ batch.newest = batches[L].newest
         /\ batch.oldest = batches[L].oldest /\ batch.base = batches[L].base
         /\ batch.reaches = batches[L].reaches /\ batch.done = batches[L].done
         /\ batch.rows = [old EXCEPT ![s] = row]
    <2>1. DOMAIN batches[L] = {"base", "newest", "oldest", "count", "reaches", "done", "rows"}
      BY <1>3 DEF BatchRecords
    <2> HIDE DEF old
    <2> QED BY <2>1
  <1>16. /\ batch.rows[s] = row
         /\ \A t \in 0..(batches[L].count - 1) : t # s => batch.rows[t] = batches[L].rows[t]
    <2>1. s \in DOMAIN old /\ DOMAIN old = 0..(batches[L].count - 1)
      BY <1>1, <1>3
    <2> HIDE DEF batch
    <2> QED BY <1>12, <2>1
  <1>17. row = [distance |-> Row(L, s).distance, outcome |-> o, by |-> i]
    BY DEF row, Row
  <1> HIDE DEF batch, old
  <1>10. batches' \in Seq(BatchSet) /\ Latest' = Latest
    BY <1>1, <1>8, <1>9 DEF Latest
  <1>11. /\ batches'[L] = batch
         /\ \A b \in 1..Latest : b # L => batches'[b] = batches[b]
    BY <1>1, <1>9 DEF Latest
  <1>13. \A b \in 1..Latest : SamePlan(b) /\ batches'[b].done = batches[b].done
    BY <1>11, <1>12 DEF SamePlan
  <1>14. \A b \in 1..Latest : \A t \in 0..(batches[b].count - 1) :
             b # Latest \/ t # s => batches'[b].rows[t] = batches[b].rows[t]
    BY <1>1, <1>11, <1>16
  <1>15. batches'[Latest].rows[s] = [distance |-> Row(Latest, s).distance,
                                     outcome |-> o, by |-> i]
    BY <1>1, <1>11, <1>16, <1>17
  <1> QED BY <1>10, <1>13, <1>14, <1>15

\* The latest batch becomes committed coverage.
Completes ==
    /\ batches' = [batches EXCEPT ![Latest].done = TRUE]
    /\ revision' = revision + 1
    /\ boundary' = batches[Latest].oldest
    /\ completed' = completed + batches[Latest].count
    /\ exhausted' = batches[Latest].reaches
    /\ UNCHANGED <<created, invocations>>

LEMMA CompleteEffect ==
    ASSUME batches \in Seq(BatchSet), Latest > 0, Completes
    PROVE  /\ batches' \in Seq(BatchSet) /\ Latest' = Latest
           /\ \A b \in 1..Latest : SamePlan(b) /\ batches'[b].rows = batches[b].rows
           /\ \A b \in 1..Latest : b # Latest => batches'[b].done = batches[b].done
           /\ batches'[Latest].done = TRUE
  <1>1. PICK L \in 1..Latest : L = Latest
    BY DEF Latest
  <1> DEFINE batch == [batches[L] EXCEPT !.done = TRUE]
  <1>2. batches' = [batches EXCEPT ![L] = batch]
    BY <1>1 DEF Completes
  <1>3. batches[L] \in BatchRecords(batches[L].count) /\ batches[L].count \in 1..BatchLimit
    BY <1>1, BatchColumns
  <1>4. batch \in BatchSet
    <2>1. PICK n \in 1..BatchLimit : n = batches[L].count
      BY <1>3
    <2>2. batches[L] \in BatchRecords(n)
      BY <1>3, <2>1
    <2>3. batch \in BatchRecords(n)
      BY <2>2 DEF BatchRecords
    <2> QED BY <2>3 DEF BatchSet
  <1>5. /\ batch.count = batches[L].count /\ batch.newest = batches[L].newest
        /\ batch.oldest = batches[L].oldest /\ batch.base = batches[L].base
        /\ batch.reaches = batches[L].reaches /\ batch.rows = batches[L].rows
        /\ batch.done = TRUE
    BY <1>3 DEF BatchRecords
  <1> HIDE DEF batch
  <1>6. batches' \in Seq(BatchSet) /\ Latest' = Latest
    BY <1>1, <1>2, <1>4 DEF Latest
  <1>7. /\ batches'[L] = batch
        /\ \A b \in 1..Latest : b # L => batches'[b] = batches[b]
    BY <1>1, <1>2 DEF Latest
  <1> QED BY <1>1, <1>5, <1>6, <1>7 DEF SamePlan

\* Batches that keep their plans and the distances of their rows still tile the
\* history.
LEMMA TilesKept ==
    ASSUME batches \in Seq(BatchSet), RowsTile, Latest' = Latest,
           \A b \in 1..Latest : SamePlan(b),
           \A b \in 1..Latest : \A t \in 0..(batches[b].count - 1) :
               batches'[b].rows[t].distance = batches[b].rows[t].distance
    PROVE  RowsTile'
  <1> SUFFICES ASSUME NEW b \in 1..Latest
               PROVE  /\ batches'[b].newest = (IF b = 1 THEN 0 ELSE batches'[b - 1].oldest)
                      /\ batches'[b].oldest = batches'[b].newest + batches'[b].count
                      /\ \A s \in 0..(batches'[b].count - 1) :
                            batches'[b].rows[s].distance = batches'[b].oldest - 1 - s
    BY DEF RowsTile, Row
  <1>1. SamePlan(b) /\ Latest \in Nat
    BY DEF Latest
  <1>2. b # 1 => batches'[b - 1].oldest = batches[b - 1].oldest
    <2>1. ASSUME b # 1 PROVE b - 1 \in 1..Latest
      BY <1>1, <2>1
    <2> QED BY <2>1 DEF SamePlan
  <1>3. batches'[b].newest = (IF b = 1 THEN 0 ELSE batches'[b - 1].oldest)
    BY <1>1, <1>2 DEF RowsTile, SamePlan
  <1>4. batches'[b].oldest = batches'[b].newest + batches'[b].count
    BY <1>1 DEF RowsTile, SamePlan
  <1>5. \A s \in 0..(batches'[b].count - 1) :
            batches'[b].rows[s].distance = batches'[b].oldest - 1 - s
    BY <1>1 DEF RowsTile, SamePlan, Row
  <1> QED BY <1>3, <1>4, <1>5

\* An outcome enters the first open row of the pending batch, for the newest
\* invocation.
LEMMA RecordKeeps ==
    ASSUME TablesInv, HasPending, NEW s \in 0..(batches[Latest].count - 1), SealedTo(Latest, s),
           NEW o \in Outcomes, NEW i \in Nat, i = Len(invocations), i >= 1, Records(s, o, i),
           UNCHANGED <<created, revision, completed, boundary, exhausted, invocations>>
    PROVE  TablesInv' /\ SealedTo(Latest, s + 1)' /\ Latest' = Latest
           /\ batches'[Latest].done = batches[Latest].done
           /\ batches'[Latest].count = batches[Latest].count
  <1> USE DEF Row
  <1>a. /\ Coverage /\ Ordered /\ RowsTile /\ Sealing /\ Credit
        /\ batches \in Seq(BatchSet)
    BY DEF TablesInv
  <1>l. PICK L \in 1..Latest : L = Latest
    BY PendingLast DEF Latest
  <1>b. ~batches[L].done /\ Latest > 0 /\ Latest \in Nat
    BY <1>l, PendingLast
  <1>c. \A b \in 1..Latest : batches[b].count \in Nat
    BY <1>a, BatchColumns
  <1>s. s \in 0..(batches[L].count - 1) /\ s \in Nat /\ s < batches[L].count
    BY <1>l, <1>c
  <1>d. /\ batches' \in Seq(BatchSet) /\ Latest' = Latest
        /\ \A b \in 1..Latest : SamePlan(b) /\ batches'[b].done = batches[b].done
        /\ \A b \in 1..Latest : \A t \in 0..(batches[b].count - 1) :
              b # L \/ t # s => batches'[b].rows[t] = batches[b].rows[t]
        /\ batches'[L].rows[s] = [distance |-> Row(L, s).distance, outcome |-> o, by |-> i]
    BY <1>a, <1>b, <1>l, RecordEffect
  <1>e. /\ batches'[L].rows[s].distance = batches[L].rows[s].distance
        /\ batches'[L].rows[s].outcome = o /\ batches'[L].rows[s].by = i
        /\ o # Open
    BY <1>d, OutcomeAssumption
  <1>f. \A b \in 1..Latest : \A t \in 0..(batches[b].count - 1) :
            batches'[b].rows[t].distance = batches[b].rows[t].distance
    BY <1>d, <1>e
  <1>1. RowsTile'
    BY <1>a, <1>d, <1>f, TilesKept
  <1>2. Ordered'
    BY SMTT(30), <1>a, <1>d DEF Ordered, SamePlan
  <1>3. Coverage'
    <2>1. completed' = boundary' /\ (exhausted' <=> completed' = HistoryPairs)
      BY <1>a DEF Coverage
    <2>2. created' <=> Latest' > 0
      BY <1>a, <1>d DEF Coverage
    <2>3. /\ \A b \in 1..Latest' : batches'[b].oldest <= HistoryPairs
          /\ \A b \in 1..Latest' : b < Latest' => batches'[b].done
          /\ \A b \in 1..Latest' : batches'[b].done <=> batches'[b].oldest <= completed'
      BY <1>a, <1>d DEF Coverage, SamePlan
    <2>4. \A b \in 1..Latest' : batches'[b].reaches <=> batches'[b].oldest = HistoryPairs
      BY <1>a, <1>d DEF Coverage, SamePlan
    <2>5. /\ ~batches'[L].done /\ revision' = 2 * Latest' - 1
          /\ batches'[L].base + 1 = revision' /\ completed' = batches'[L].newest
      <3>1. /\ revision = 2 * Latest - 1 /\ batches[L].base + 1 = revision
            /\ completed = batches[L].newest
        BY <1>a, <1>b, <1>l DEF Coverage
      <3> QED BY <3>1, <1>b, <1>d DEF SamePlan
    <2> QED BY <2>1, <2>2, <2>3, <2>4, <2>5, <1>d, <1>b, <1>l DEF Coverage
  <1>g. \A t \in 0..(batches[L].count - 1) : batches[L].rows[t].outcome # Open <=> t < s
    BY <1>l DEF SealedTo
  <1>h. SealedTo(L, s + 1)'
    <2> SUFFICES ASSUME NEW t \in 0..(batches[L].count - 1)
                 PROVE  batches'[L].rows[t].outcome # Open <=> t < s + 1
      BY <1>l, <1>d DEF SealedTo, SamePlan
    <2>1. CASE t = s
      BY <2>1, <1>e, <1>s
    <2>2. CASE t # s
      <3>1. t < s + 1 <=> t < s
        BY <2>2, <1>s, <1>c
      <3>2. batches'[L].rows[t] = batches[L].rows[t]
        BY Zenon, <2>2, <1>d, <1>l
      <3> QED BY Zenon, <1>g, <3>1, <3>2
    <2> QED BY <2>1, <2>2
  <1>4. Sealing'
    <2> SUFFICES ASSUME NEW b \in 1..Latest
                 PROVE  \E n \in 0..batches'[b].count :
                           SealedTo(b, n)' /\ (batches'[b].done => n = batches'[b].count)
      BY <1>d DEF Sealing
    <2>0. batches'[b].count = batches[b].count /\ batches'[b].done = batches[b].done
      BY <1>d DEF SamePlan
    <2>1. CASE b = L
      <3>1. s + 1 \in 0..batches[L].count
        BY <1>s, <1>c
      <3> QED BY <2>0, <2>1, <3>1, <1>h, <1>b
    <2>2. CASE b # L
      <3>1. PICK n \in 0..batches[b].count :
                SealedTo(b, n) /\ (batches[b].done => n = batches[b].count)
        BY <1>a DEF Sealing
      <3>2. SealedTo(b, n)'
        BY <2>0, <2>2, <3>1, <1>d DEF SealedTo
      <3> QED BY <2>0, <3>1, <3>2
    <2> QED BY <2>1, <2>2
  <1>5. Credit'
    <2> SUFFICES ASSUME NEW b \in 1..Latest, NEW t \in 0..(batches[b].count - 1)
                 PROVE  /\ IF batches'[b].rows[t].outcome = Open THEN batches'[b].rows[t].by = 0
                           ELSE batches'[b].rows[t].by \in 1..Len(invocations)
                        /\ \A c \in b..Latest : \A u \in 0..(batches[c].count - 1) :
                              (c > b \/ u > t) /\ batches'[c].rows[u].outcome # Open =>
                                  batches'[b].rows[t].by <= batches'[c].rows[u].by
      <3>1. \A b \in 1..Latest : batches'[b].count = batches[b].count
        BY <1>d DEF SamePlan
      <3>2. \A b \in 1..Latest : \A c \in b..Latest : c \in 1..Latest
        BY <1>b
      <3>3. /\ Latest' = Latest /\ invocations' = invocations
            /\ \A b \in 1..Latest : batches'[b].count = batches[b].count
        BY <1>d, <3>1
      <3>4. Credit' <=> \A b \in 1..Latest' : \A t \in 0..(batches'[b].count - 1) :
                  /\ IF batches'[b].rows[t].outcome = Open THEN batches'[b].rows[t].by = 0
                     ELSE batches'[b].rows[t].by \in 1..Len(invocations')
                  /\ \A c \in b..Latest' : \A u \in 0..(batches'[c].count - 1) :
                        (c > b \/ u > t) /\ batches'[c].rows[u].outcome # Open =>
                            batches'[b].rows[t].by <= batches'[c].rows[u].by
        BY Zenon DEF Credit
      <3> QED BY SMTT(30), <3>2, <3>3, <3>4
    <2>0. /\ b \in Nat /\ t \in Nat
          /\ \A c \in b..Latest : c \in 1..Latest /\ c \in Nat
      BY <1>b, <1>c
    <2>1. CASE b = L /\ t = s
      <3>1. batches'[b].rows[t].by \in 1..Len(invocations) /\ batches'[b].rows[t].outcome # Open
        BY <2>1, <1>e
      <3>2. \A c \in b..Latest : c = L
        BY <2>1, <1>l, <1>b
      <3>3. \A u \in 0..(batches[L].count - 1) : u > s => batches'[L].rows[u].outcome = Open
        <4> SUFFICES ASSUME NEW u \in 0..(batches[L].count - 1), u > s
                     PROVE  batches'[L].rows[u].outcome = Open
          OBVIOUS
        <4>1. u # s /\ ~(u < s)
          BY <1>s, <1>c
        <4>2. batches'[L].rows[u] = batches[L].rows[u]
          BY Zenon, <1>d, <1>l, <4>1
        <4> QED BY Zenon, <1>g, <4>1, <4>2
      <3> QED BY <2>1, <3>1, <3>2, <3>3, <2>0
    <2>2. CASE ~(b = L /\ t = s)
      <3>1. batches'[b].rows[t] = batches[b].rows[t]
        BY <2>2, <1>d
      <3>2. /\ IF batches[b].rows[t].outcome = Open THEN batches[b].rows[t].by = 0
               ELSE batches[b].rows[t].by \in 1..Len(invocations)
            /\ \A c \in b..Latest : \A u \in 0..(batches[c].count - 1) :
                  (c > b \/ u > t) /\ batches[c].rows[u].outcome # Open =>
                      batches[b].rows[t].by <= batches[c].rows[u].by
        BY <1>a DEF Credit
      <3>3. batches[b].rows[t].by <= i
        BY <3>2
      <3> SUFFICES ASSUME NEW c \in b..Latest, NEW u \in 0..(batches[c].count - 1),
                          c > b \/ u > t, batches'[c].rows[u].outcome # Open
                   PROVE  batches[b].rows[t].by <= batches'[c].rows[u].by
        BY <3>1, <3>2
      <3>4. CASE c = L /\ u = s
        BY <3>3, <3>4, <1>e
      <3>5. CASE ~(c = L /\ u = s)
        <4>1. batches'[c].rows[u] = batches[c].rows[u]
          BY <3>5, <1>d, <2>0
        <4> QED BY <4>1, <3>2
      <3> QED BY <3>4, <3>5
    <2> QED BY <2>1, <2>2
  <1> QED BY <1>d, <1>h, <1>l, <1>1, <1>2, <1>3, <1>4, <1>5 DEF TablesInv, SamePlan

LEMMA CompleteKeeps ==
    ASSUME TypeOK, TablesInv, HasPending, SealedTo(Latest, batches[Latest].count), Completes
    PROVE  TablesInv'
  <1> USE DEF Row
  <1>a. /\ Coverage /\ Ordered /\ RowsTile /\ Sealing /\ Credit
        /\ batches \in Seq(BatchSet)
    BY DEF TablesInv
  <1>l. PICK L \in 1..Latest : L = Latest
    BY PendingLast DEF Latest
  <1>b. ~batches[L].done /\ Latest > 0 /\ Latest \in Nat
    BY <1>l, PendingLast
  <1>c. \A b \in 1..Latest : batches[b].count \in Nat /\ batches[b].count > 0
            /\ batches[b].newest \in Nat /\ batches[b].oldest \in Nat
    BY <1>a, BatchColumns, HistoryAssumption
  <1>d. /\ batches' \in Seq(BatchSet) /\ Latest' = Latest
        /\ \A b \in 1..Latest : SamePlan(b) /\ batches'[b].rows = batches[b].rows
        /\ \A b \in 1..Latest : b # L => batches'[b].done = batches[b].done
        /\ batches'[L].done = TRUE
    BY <1>a, <1>b, <1>l, CompleteEffect
  <1>e. completed = batches[L].newest /\ revision = 2 * Latest - 1 /\ completed \in Nat
    BY <1>a, <1>b, <1>l, <1>c DEF Coverage
  <1>u. /\ revision' = revision + 1 /\ exhausted' = batches[L].reaches
        /\ created' = created /\ invocations' = invocations
    BY <1>l DEF Completes
  <1>f. /\ completed' = batches[L].oldest /\ boundary' = batches[L].oldest
        /\ batches[L].newest <= batches[L].oldest
    <2>1. batches[L].oldest = batches[L].newest + batches[L].count
      BY <1>a, <1>l DEF RowsTile
    <2> QED BY <2>1, <1>e, <1>l, <1>c DEF Completes
  <1>g. \A b \in 1..Latest : b # L => batches[b].done /\ batches[b].oldest <= completed
    BY <1>a, <1>l, <1>b DEF Coverage
  <1>h. \A b \in 1..Latest : batches'[b].done
    BY <1>d, <1>g
  <1>1. RowsTile'
    BY <1>a, <1>d, TilesKept
  <1>2. Ordered'
    <2>1. \A b, c \in 1..Latest : b < c => batches[b].oldest <= batches[c].newest
      BY <1>a DEF Ordered
    <2>2. \A d \in 0..(completed' - 1) : \E b \in 1..Latest :
              batches[b].newest <= d /\ d < batches[b].oldest
      <3> SUFFICES ASSUME NEW d \in 0..(batches[L].oldest - 1)
                   PROVE  \E b \in 1..Latest : batches[b].newest <= d /\ d < batches[b].oldest
        BY <1>f
      <3>1. CASE d < completed
        <4>1. d \in 0..(completed - 1)
          BY <3>1, <1>e, <1>c
        <4> QED BY <4>1, <1>a DEF Ordered
      <3>2. CASE d >= completed
        BY <3>2, <1>e, <1>c
      <3> QED BY <3>1, <3>2, <1>e, <1>c
    <2> QED BY <2>1, <2>2, <1>d, <1>h DEF Ordered, SamePlan
  <1>3. Coverage'
    <2>1. completed' = boundary'
      BY <1>f
    <2>2. exhausted' <=> completed' = HistoryPairs
      BY <1>a, <1>f, <1>u DEF Coverage
    <2>3. created' <=> Latest' > 0
      BY <1>a, <1>d, <1>u DEF Coverage
    <2>4. \A b \in 1..Latest' : batches'[b].oldest <= HistoryPairs
      BY <1>a, <1>d DEF Coverage, SamePlan
    <2>5. \A b \in 1..Latest' : batches'[b].done <=> batches'[b].oldest <= completed'
      <3> SUFFICES ASSUME NEW b \in 1..Latest PROVE batches[b].oldest <= batches[L].oldest
        BY <1>d, <1>f, <1>h DEF SamePlan
      <3>1. CASE b = L
        BY <3>1, <1>c
      <3>2. CASE b # L
        BY <3>2, <1>g, <1>e, <1>f, <1>c
      <3> QED BY <3>1, <3>2
    <2>6. \A b \in 1..Latest' : b < Latest' => batches'[b].done
      BY <1>d, <1>h
    <2>7. \A b \in 1..Latest' : batches'[b].reaches <=> batches'[b].oldest = HistoryPairs
      BY <1>a, <1>d DEF Coverage, SamePlan
    <2>8. revision' = 2 * Latest'
      BY <1>d, <1>e, <1>u, <1>b
    <2>9. batches'[L].oldest = completed'
      BY <1>d, <1>f DEF SamePlan
    <2> QED BY <2>1, <2>2, <2>3, <2>4, <2>5, <2>6, <2>7, <2>8, <2>9,
               <1>d, <1>b, <1>l DEF Coverage
  <1>4. Sealing'
    <2> SUFFICES ASSUME NEW b \in 1..Latest
                 PROVE  \A t \in 0..(batches[b].count - 1) :
                            batches[b].rows[t].outcome # Open <=> t < batches[b].count
      <3>1. \A b \in 1..Latest : /\ batches[b].count \in 0..batches[b].count
                                 /\ batches'[b].count = batches[b].count
        BY <1>c, <1>d DEF SamePlan
      <3> QED BY SMTT(30), <1>d, <3>1 DEF Sealing, SealedTo
    <2>1. CASE b = L
      BY <2>1, <1>l DEF SealedTo
    <2>2. CASE b # L
      BY <2>2, <1>a, <1>g DEF Sealing, SealedTo
    <2> QED BY <2>1, <2>2
  <1>5. Credit'
    <2>1. \A b \in 1..Latest : batches'[b].count = batches[b].count
      BY <1>d DEF SamePlan
    <2>2. \A b \in 1..Latest : \A c \in b..Latest : c \in 1..Latest
      BY <1>b
    <2> SUFFICES ASSUME NEW b \in 1..Latest, NEW t \in 0..(batches[b].count - 1)
                 PROVE  /\ IF batches'[b].rows[t].outcome = Open THEN batches'[b].rows[t].by = 0
                           ELSE batches'[b].rows[t].by \in 1..Len(invocations)
                        /\ \A c \in b..Latest : \A u \in 0..(batches[c].count - 1) :
                              (c > b \/ u > t) /\ batches'[c].rows[u].outcome # Open =>
                                  batches'[b].rows[t].by <= batches'[c].rows[u].by
      <3>1. Latest' = Latest /\ invocations' = invocations
        BY <1>d, <1>u
      <3> QED BY <3>1, <2>1, <2>2 DEF Credit
    <2> QED BY <1>a, <1>d, <2>2 DEF Credit
  <1> QED BY <1>d, <1>1, <1>2, <1>3, <1>4, <1>5 DEF TablesInv

-----------------------------------------------------------------------------
(* Every step keeps the invariant.                                          *)

\* A listing begins: the one step of a reader that a run could notice.
Counted == /\ runs < MaxRuns /\ runs' = runs + 1
           /\ UNCHANGED <<tables, invocations, lock, pc, locals, failures, crashes>>

\* A process that executes or commits finds the latest batch pending.
LEMMA Executing ==
    ASSUME IInv, NEW p \in Runners, pc[p] \in {"execute", "commit"}
    PROVE  /\ HasPending /\ Pending = Latest /\ Latest > 0
           /\ batches[Latest].count \in Nat
  <1>1. pc[p] \in Recorded
    BY DEF Recorded
  <1>2. Latest > 0
    BY <1>1 DEF IInv, Ownership, TablesInv, Coverage
  <1>3. ~batches[Latest].done
    BY DEF IInv, Standing
  <1>4. TablesInv /\ batches \in Seq(BatchSet)
    BY DEF IInv, TablesInv
  <1>5. HasPending /\ Pending = Latest /\ Latest \in 1..Latest
    BY <1>2, <1>3, <1>4, PendingLast
  <1> QED BY <1>2, <1>4, <1>5, BatchColumns

LEMMA InvocationsGrow ==
    ASSUME IInv, NEW p \in Runners, BeginInvocation(p) \/ FinishInvocation(p)
    PROVE  /\ invocations' \in Seq(Results) /\ Len(invocations) \in Nat
           /\ Len(invocations') \in Nat /\ Len(invocations) <= Len(invocations')
           /\ BeginInvocation(p) => /\ Len(invocations') = Len(invocations) + 1
                                    /\ invocations'[Len(invocations) + 1] = "running"
           /\ FinishInvocation(p) => Len(invocations') = Len(invocations)
  <1>1. invocations \in Seq(Results) /\ Len(invocations) \in Nat
    BY DEF IInv, TypeOK
  <1>2. CASE BeginInvocation(p)
    <2> DEFINE closed == [i \in DOMAIN invocations |->
                             IF invocations[i] = "running" THEN "interrupted" ELSE invocations[i]]
    <2>1. invocations' = Append(closed, "running") /\ ~FinishInvocation(p)
      BY <1>2 DEF BeginInvocation, FinishInvocation, Go
    <2>2. closed \in Seq(Results) /\ Len(closed) = Len(invocations)
      BY <1>1 DEF Results
    <2> HIDE DEF closed
    <2>3. "running" \in Results
      BY DEF Results
    <2> QED BY <1>1, <1>2, <2>1, <2>2, <2>3
  <1>3. CASE FinishInvocation(p)
    <2>1. /\ invocations' = [invocations EXCEPT ![own[p]] = ResultOf(pc[p])]
          /\ ~BeginInvocation(p)
      BY <1>3 DEF BeginInvocation, FinishInvocation, Go
    <2>2. ResultOf(pc[p]) \in Results
      BY <1>3 DEF FinishInvocation, ResultOf, Results
    <2>3. own[p] \in 1..Len(invocations)
      BY <1>1, <1>3 DEF FinishInvocation, IInv, Ownership, Recorded
    <2>4. invocations' \in Seq(Results) /\ Len(invocations') = Len(invocations)
      BY <1>1, <2>1, <2>2, <2>3
    <2>5. Len(invocations') \in Nat /\ Len(invocations) <= Len(invocations')
      BY <1>1, <2>4
    <2>6. ~BeginInvocation(p)
      BY <2>1
    <2> QED BY <1>1, <2>4, <2>5, <2>6
  <1> QED BY <1>2, <1>3

\* The first batch is asked for by whoever finds no database, the others by
\* whoever has not met its target.
LEMMA CreateFreezes ==
    ASSUME IInv, NEW p \in Runners, CreateDatabase(p)
    PROVE  \E asked \in Nat \ {0} : asked <= BatchLimit /\ Freezes(asked)
  <1> DEFINE asked == IF target[p].kind = "all" THEN BatchLimit
                      ELSE Least(target[p].value, BatchLimit)
  <1>1. Latest = 0 /\ revision = 0 /\ completed = 0 /\ boundary = 0 /\ batches = <<>>
    <2>1. ~created /\ batches \in Seq(BatchSet) /\ Coverage
      BY DEF CreateDatabase, IInv, TablesInv
    <2> QED BY <2>1 DEF Coverage, Latest
  <1>2. asked \in Nat \ {0} /\ asked <= BatchLimit
    <2>1. target[p] \in Targets /\ (target[p].kind = "all" \/ target[p].value > 0)
      BY DEF IInv, TypeOK, CreateDatabase
    <2>2. target[p].value \in Nat
      BY <2>1, TargetAssumption, HistoryAssumption
    <2> QED BY <2>1, <2>2, HistoryAssumption DEF Least
  <1>3. batches' = Append(batches, NewBatch(SelectedPairs(boundary, asked),
                                            SelectionExhausted(boundary, asked)))
    BY <1>1 DEF CreateDatabase
  <1> HIDE DEF asked
  <1>4. Freezes(asked)
    BY <1>1, <1>3 DEF CreateDatabase, Freezes
  <1> QED BY <1>2, <1>4

LEMMA AddFreezes ==
    ASSUME IInv, NEW p \in Runners, AddBatch(p)
    PROVE  /\ ~HasPending /\ completed < HistoryPairs
           /\ Asked(p) \in Nat \ {0} /\ Asked(p) <= BatchLimit /\ Freezes(Asked(p))
  <1>1. ~HasPending /\ ~exhausted /\ ~(completed >= desired[p]) /\ pc[p] \in Recorded
    BY DEF AddBatch, TargetMet, Go, Recorded
  <1>2. completed \in 0..HistoryPairs /\ desired[p] \in Nat
    BY DEF IInv, TypeOK
  <1>3. completed < HistoryPairs /\ created
    BY <1>1, <1>2, HistoryAssumption DEF IInv, TablesInv, Coverage, Ownership
  <1>4. Asked(p) \in Nat \ {0} /\ Asked(p) <= BatchLimit
    BY <1>1, <1>2, HistoryAssumption DEF Asked, Least
  <1>5. Freezes(Asked(p))
    BY <1>3 DEF AddBatch, Freezes
  <1> QED BY <1>1, <1>3, <1>4, <1>5

\* The tables, after any step.
LEMMA TablesStep == IInv /\ [Next \/ Counted]_vars => TablesInv'
  <1> SUFFICES ASSUME IInv, [Next \/ Counted]_vars PROVE TablesInv'
    OBVIOUS
  <1>0. TypeOK /\ TablesInv /\ Len(invocations) \in Nat
    BY DEF IInv, TypeOK
  <1>k. UNCHANGED tables /\ UNCHANGED invocations => TablesInv'
    <2> SUFFICES ASSUME UNCHANGED tables, UNCHANGED invocations PROVE TablesInv'
      OBVIOUS
    <2> QED BY <1>0, TablesKept
  <1>1. CASE UNCHANGED vars \/ Counted
    BY <1>1, <1>k DEF vars, Counted
  <1>2. ASSUME NEW p \in Runners, RunStep(p) PROVE TablesInv'
    <2>1. CASE StartRun(p) \/ OpenDatabase(p) \/ RefuseRequest(p) \/ RefuseTarget(p)
               \/ ResumeBatch(p) \/ BatchExecuted(p) \/ ReachTarget(p) \/ Raise(p)
               \/ FinishFails(p) \/ Unlock(p)
      BY <2>1, <1>k DEF StartRun, OpenDatabase, RefuseRequest, RefuseTarget, ResumeBatch,
                        BatchExecuted, ReachTarget, Raise, FinishFails, Unlock
    <2>2. CASE BeginInvocation(p) \/ FinishInvocation(p)
      <3>1. UNCHANGED tables
        BY <2>2 DEF BeginInvocation, FinishInvocation
      <3>2. Len(invocations') \in Nat /\ Len(invocations) <= Len(invocations')
        BY <2>2, InvocationsGrow
      <3> QED BY <1>0, <3>1, <3>2, TablesKept
    <2>3. CASE CreateDatabase(p)
      <3>1. PICK asked \in Nat \ {0} : asked <= BatchLimit /\ Freezes(asked)
        BY <2>3, CreateFreezes
      <3>2. Latest = 0 /\ completed = 0
        BY <1>0, <2>3 DEF CreateDatabase, TablesInv, Coverage, Latest
      <3>3. ~HasPending /\ completed < HistoryPairs
        BY <1>0, <3>2, PendingLast, HistoryAssumption
      <3> QED BY <1>0, <3>1, <3>3, FreezeKeeps
    <2>4. CASE AddBatch(p)
      BY <1>0, <2>4, AddFreezes, FreezeKeeps
    <2>5. CASE Publish(p)
      <3>1. pc[p] = "execute" /\ pc[p] \in Recorded
        BY <2>5 DEF Publish, Go, Recorded
      <3>2. HasPending /\ Pending = Latest /\ batches[Latest].count \in Nat
        BY <3>1, Executing
      <3>3. position[p] \in 0..(batches[Latest].count - 1) /\ SealedTo(Latest, position[p])
        BY SMTT(30), <2>5, <3>1, <3>2 DEF Publish, IInv, TypeOK, Standing
      <3>4. own[p] \in Nat /\ own[p] = Len(invocations) /\ own[p] >= 1
        BY <3>1 DEF IInv, TypeOK, Ownership
      <3>5. \E o \in Outcomes : Records(position[p], o, own[p])
        BY <2>5, <3>2 DEF Publish, Records
      <3>6. UNCHANGED <<created, revision, completed, boundary, exhausted, invocations>>
        BY <2>5 DEF Publish
      <3> QED BY <1>0, <3>2, <3>3, <3>4, <3>5, <3>6, RecordKeeps
    <2>6. CASE CommitBatch(p)
      <3>1. pc[p] = "commit"
        BY <2>6 DEF CommitBatch, Go
      <3>2. HasPending /\ Pending = Latest
        BY <3>1, Executing
      <3>3. SealedTo(Latest, batches[Latest].count)
        BY <3>1 DEF IInv, Standing
      <3>4. Completes
        BY <2>6, <3>2 DEF CommitBatch, Completes
      <3> QED BY <1>0, <3>2, <3>3, <3>4, CompleteKeeps
    <2> QED BY <1>2, <2>1, <2>2, <2>3, <2>4, <2>5, <2>6 DEF RunStep
  <1>3. ASSUME NEW p \in Runners, Crash(p) PROVE TablesInv'
    BY <1>3, <1>k DEF Crash
  <1> QED BY <1>1, <1>2, <1>3 DEF Next

\* The columns apart from those of batches, and what the processes keep.
TableTypes ==
    /\ created \in BOOLEAN /\ revision \in Nat
    /\ completed \in 0..HistoryPairs /\ boundary \in 0..HistoryPairs
    /\ exhausted \in BOOLEAN /\ invocations \in Seq(Results)
ProcessTypes ==
    /\ lock \in Runners \cup {Nobody} /\ pc \in [Runners -> RunStates]
    /\ target \in [Runners -> Targets] /\ desired \in [Runners -> Nat]
    /\ position \in [Runners -> Nat] /\ own \in [Runners -> Nat]
    /\ startedAt \in [Runners -> Nat]
    /\ runs \in 0..MaxRuns /\ failures \in 0..MaxFailures
    /\ crashes \in 0..MaxCrashes

LEMMA TableTypesStep == IInv /\ [Next \/ Counted]_vars => TableTypes'
  <1> SUFFICES ASSUME IInv, [Next \/ Counted]_vars PROVE TableTypes'
    OBVIOUS
  <1>0. TypeOK /\ TablesInv /\ TableTypes
    BY DEF IInv, TypeOK, TableTypes
  <1>k. UNCHANGED tables /\ UNCHANGED invocations => TableTypes'
    BY <1>0 DEF tables, TableTypes
  <1>1. CASE UNCHANGED vars \/ Counted
    BY <1>1, <1>k DEF vars, Counted
  <1>2. ASSUME NEW p \in Runners, RunStep(p) PROVE TableTypes'
    <2>1. CASE StartRun(p) \/ OpenDatabase(p) \/ RefuseRequest(p) \/ RefuseTarget(p)
               \/ ResumeBatch(p) \/ BatchExecuted(p) \/ ReachTarget(p) \/ Raise(p)
               \/ FinishFails(p) \/ Unlock(p)
      BY <2>1, <1>k DEF StartRun, OpenDatabase, RefuseRequest, RefuseTarget, ResumeBatch,
                        BatchExecuted, ReachTarget, Raise, FinishFails, Unlock
    <2>2. CASE BeginInvocation(p) \/ FinishInvocation(p)
      <3>1. UNCHANGED tables
        BY <2>2 DEF BeginInvocation, FinishInvocation
      <3>2. invocations' \in Seq(Results)
        BY <2>2, InvocationsGrow
      <3> QED BY <1>0, <3>1, <3>2 DEF tables, TableTypes
    <2>3. CASE CreateDatabase(p) \/ AddBatch(p) \/ Publish(p)
      <3>1. /\ revision' \in Nat /\ created' \in BOOLEAN
            /\ UNCHANGED <<completed, boundary, exhausted, invocations>>
        <4>1. CASE CreateDatabase(p)
          BY <4>1 DEF CreateDatabase
        <4>2. CASE AddBatch(p)
          BY <1>0, <4>2 DEF AddBatch, TableTypes
        <4>3. CASE Publish(p)
          BY <1>0, <4>3 DEF Publish, TableTypes
        <4> QED BY <2>3, <4>1, <4>2, <4>3
      <3> QED BY <1>0, <3>1 DEF TableTypes
    <2>6. CASE CommitBatch(p)
      <3>1. pc[p] = "commit"
        BY <2>6 DEF CommitBatch, Go
      <3>2. HasPending /\ Pending = Latest /\ Latest > 0
        BY <3>1, Executing
      <3>3. /\ revision' = revision + 1 /\ boundary' = batches[Latest].oldest
            /\ completed' = completed + batches[Latest].count
            /\ exhausted' = batches[Latest].reaches
            /\ created' = created /\ invocations' = invocations
        BY <2>6, <3>2 DEF CommitBatch
      <3>4. Latest \in 1..Latest /\ batches \in Seq(BatchSet) /\ ~batches[Latest].done
        BY <1>0, <3>2, PendingLast DEF TablesInv
      <3>5. batches[Latest].oldest = completed + batches[Latest].count
        BY <1>0, <3>4, <3>2 DEF TablesInv, Coverage, RowsTile
      <3>6. batches[Latest].oldest \in 0..HistoryPairs /\ batches[Latest].reaches \in BOOLEAN
        BY <3>4, BatchColumns
      <3> QED BY <1>0, <3>3, <3>5, <3>6 DEF TableTypes
    <2> QED BY <1>2, <2>1, <2>2, <2>3, <2>6 DEF RunStep
  <1>3. ASSUME NEW p \in Runners, Crash(p) PROVE TableTypes'
    BY <1>3, <1>k DEF Crash
  <1> QED BY <1>1, <1>2, <1>3 DEF Next

LEMMA ProcessTypesStep == IInv /\ [Next \/ Counted]_vars => ProcessTypes'
  <1> SUFFICES ASSUME IInv, [Next \/ Counted]_vars PROVE ProcessTypes'
    OBVIOUS
  <1>0. ProcessTypes /\ TypeOK /\ TablesInv
    BY DEF IInv, TypeOK, ProcessTypes
  <1> USE BoundAssumption
  <1>1. CASE UNCHANGED vars \/ Counted
    BY <1>0, <1>1 DEF vars, locals, counters, Counted, ProcessTypes
  <1>2. ASSUME NEW p \in Runners, RunStep(p) PROVE ProcessTypes'
    <2>1. CASE StartRun(p)
      BY <1>0, <2>1 DEF StartRun, Go, RunStates, ProcessTypes
    <2>2. CASE OpenDatabase(p) \/ CreateDatabase(p)
      BY <1>0, <2>2 DEF OpenDatabase, CreateDatabase, Go, RunStates, locals, counters, ProcessTypes
    <2>3. CASE RefuseRequest(p)
      BY <1>0, <2>3 DEF RefuseRequest, Go, RunStates, locals, ProcessTypes
    <2>4. CASE BeginInvocation(p)
      <3>1. DesiredFor(target[p]) \in Nat /\ completed \in Nat /\ Len(invocations) + 1 \in Nat
        <4>1. target[p] \in Targets /\ completed \in Nat /\ invocations \in Seq(Results)
          BY <1>0, HistoryAssumption DEF TypeOK
        <4>2. target[p].value \in Nat /\ NoLimit \in Nat
          BY <4>1, TargetAssumption, HistoryAssumption DEF NoLimit
        <4> QED BY <4>1, <4>2 DEF DesiredFor
      <3> QED BY <1>0, <2>4, <3>1 DEF BeginInvocation, Go, RunStates, counters, ProcessTypes
    <2>5. CASE RefuseTarget(p) \/ ReachTarget(p) \/ AddBatch(p) \/ CommitBatch(p) \/ BatchExecuted(p)
      BY <1>0, <2>5 DEF RefuseTarget, ReachTarget, AddBatch, CommitBatch, BatchExecuted, Go,
                        RunStates, locals, counters, ProcessTypes
    <2>6. CASE ResumeBatch(p)
      <3>1. Prefix(Pending) \in Nat
        <4>1. HasPending /\ Latest \in 1..Latest /\ Pending = Latest
          BY <1>0, <2>6, PendingLast DEF ResumeBatch
        <4>2. batches[Latest].count \in Nat
          BY <1>0, <4>1, BatchColumns DEF TablesInv
        <4>3. PICK n \in 0..batches[Latest].count : SealedTo(Latest, n)
          BY <1>0, <4>1 DEF TablesInv, Sealing
        <4>4. Prefix(Latest) = n
          BY <4>2, <4>3, PrefixIs
        <4> QED BY <4>1, <4>2, <4>4
      <3> QED BY <1>0, <2>6, <3>1 DEF ResumeBatch, Go, RunStates, counters, ProcessTypes
    <2>7. CASE Publish(p)
      BY <1>0, <2>7 DEF Publish, Go, RunStates, counters, ProcessTypes
    <2>8. CASE Raise(p) \/ FinishInvocation(p) \/ FinishFails(p)
      BY <1>0, <2>8 DEF Raise, FinishInvocation, FinishFails, Go, RunStates, locals, counters,
                        ProcessTypes
    <2>9. CASE Unlock(p)
      BY <1>0, <2>9, TargetAssumption DEF Unlock, Go, Forget, AnyTarget, RunStates, counters, ProcessTypes
    <2> QED BY <1>2, <2>1, <2>2, <2>3, <2>4, <2>5, <2>6, <2>7, <2>8, <2>9 DEF RunStep
  <1>3. ASSUME NEW p \in Runners, Crash(p) PROVE ProcessTypes'
    BY <1>0, <1>3, TargetAssumption DEF Crash, Forget, AnyTarget, RunStates, ProcessTypes
  <1> QED BY <1>1, <1>2, <1>3 DEF Next

LEMMA TypesStep == IInv /\ [Next \/ Counted]_vars => TypeOK'
  <1> SUFFICES ASSUME IInv, [Next \/ Counted]_vars PROVE TypeOK'
    OBVIOUS
  <1>1. /\ DOMAIN batches' = 1..Latest'
        /\ \A b \in 1..Latest' : \E n \in 1..BatchLimit : batches'[b] \in BatchRecords(n)
    BY TablesStep DEF TablesInv, BatchSet, Latest
  <1> QED BY <1>1, TableTypesStep, ProcessTypesStep DEF TypeOK, TableTypes, ProcessTypes

\* Only the owner of the lock is not idle, and nobody is while it is free.
LEMMA OnlyOwner ==
    ASSUME IInv
    PROVE  /\ \A p, q \in Runners : pc[p] # "idle" /\ q # p => pc[q] = "idle"
           /\ lock = Nobody => \A q \in Runners : pc[q] = "idle"
           /\ pc \in [Runners -> RunStates]
           /\ \A p \in Runners : pc[p] # "idle" => lock = p
  BY LockAssumption DEF IInv, Ownership, TypeOK

\* A step of a process leaves the others where they are, idle.
LEMMA OthersIdle ==
    ASSUME IInv, NEW p \in Runners, RunStep(p) \/ Crash(p)
    PROVE  \A q \in Runners : q # p => pc'[q] = "idle" /\ lock' # q
  <1>1. pc \in [Runners -> RunStates]
    BY OnlyOwner
  <1>2. \A q \in Runners : q # p => pc'[q] = pc[q]
    BY <1>1 DEF RunStep, Crash, StartRun, OpenDatabase, CreateDatabase, RefuseRequest,
                BeginInvocation, RefuseTarget, ResumeBatch, Publish, BatchExecuted, CommitBatch,
                AddBatch, ReachTarget, Raise, FinishInvocation, FinishFails, Unlock, Go
  <1>3. lock' \in {lock, p, Nobody}
    BY DEF RunStep, Crash, StartRun, OpenDatabase, CreateDatabase, RefuseRequest,
           BeginInvocation, RefuseTarget, ResumeBatch, Publish, BatchExecuted, CommitBatch,
           AddBatch, ReachTarget, Raise, FinishInvocation, FinishFails, Unlock
  <1>4. CASE pc[p] # "idle"
    BY <1>2, <1>3, <1>4, OnlyOwner, LockAssumption
  <1>5. CASE pc[p] = "idle"
    <2>1. lock = Nobody
      BY <1>5 DEF RunStep, Crash, StartRun, OpenDatabase, CreateDatabase, RefuseRequest,
                BeginInvocation, RefuseTarget, ResumeBatch, Publish, BatchExecuted, CommitBatch,
                AddBatch, ReachTarget, Raise, FinishInvocation, FinishFails, Unlock, Go
    <2> QED BY <1>2, <1>3, <2>1, OnlyOwner, LockAssumption
  <1> QED BY <1>4, <1>5

LEMMA OwnershipStep == IInv /\ [Next \/ Counted]_vars => Ownership'
  <1> SUFFICES ASSUME IInv, [Next \/ Counted]_vars PROVE Ownership'
    OBVIOUS
  <1> DEFINE Owns(q) ==
         /\ pc[q] # "idle" <=> lock = q
         /\ pc[q] = "begin" => created
         /\ pc[q] \in Recorded => /\ created
                                  /\ own[q] = Len(invocations) /\ own[q] >= 1
                                  /\ invocations[own[q]] = "running"
  <1>0. \A q \in Runners : Owns(q)
    BY DEF IInv, Ownership
  <1>t. TypeOK /\ pc \in [Runners -> RunStates]
    BY DEF IInv, TypeOK
  <1>1. CASE UNCHANGED vars \/ Counted
    <2>1. UNCHANGED <<tables, invocations, lock, pc, locals>>
      BY <1>1 DEF vars, Counted
    <2> QED BY <1>0, <2>1 DEF tables, locals, Ownership
  <1>2. ASSUME NEW p \in Runners, RunStep(p) \/ Crash(p), Owns(p)' PROVE Ownership'
    <2>1. \A q \in Runners : q # p => Owns(q)'
      BY <1>2, OthersIdle DEF Recorded
    <2>2. \A q \in Runners : Owns(q)'
      BY <1>2, <2>1
    <2> QED BY <2>2 DEF Ownership
  <1>3. ASSUME NEW p \in Runners, RunStep(p) PROVE Owns(p)'
    <2>0. Owns(p)
      BY <1>0
    <2>1. CASE StartRun(p)
      BY <1>t, <2>1 DEF StartRun, Go, Recorded
    <2>2. CASE OpenDatabase(p) \/ CreateDatabase(p)
      <3>1. pc[p] = "open" /\ pc'[p] = "begin" /\ lock' = lock /\ created' = TRUE
        BY <1>t, <2>2 DEF OpenDatabase, CreateDatabase, Go, tables, TypeOK
      <3> QED BY <2>0, <3>1 DEF Recorded
    <2>3. CASE RefuseRequest(p) \/ FinishFails(p) \/ FinishInvocation(p)
      <3>1. pc[p] # "idle" /\ pc'[p] = "unlock" /\ lock' = lock
        BY <1>t, <2>3 DEF RefuseRequest, FinishFails, FinishInvocation, Go
      <3> QED BY <2>0, <3>1 DEF Recorded
    <2>4. CASE BeginInvocation(p)
      <3>1. /\ pc[p] = "begin" /\ pc'[p] = "advance" /\ lock' = lock /\ created' = created
            /\ own'[p] = Len(invocations) + 1 /\ Len(invocations) \in Nat
        BY <1>t, <2>4 DEF BeginInvocation, Go, tables, TypeOK
      <3>2. /\ Len(invocations') = Len(invocations) + 1
            /\ invocations'[Len(invocations) + 1] = "running"
        BY <2>4, InvocationsGrow
      <3> QED BY <2>0, <3>1, <3>2
    <2>5. CASE RefuseTarget(p) \/ ResumeBatch(p) \/ Publish(p) \/ BatchExecuted(p)
               \/ CommitBatch(p) \/ AddBatch(p) \/ ReachTarget(p) \/ Raise(p)
      <3>1. /\ pc[p] \in Recorded /\ pc'[p] # "idle" /\ pc'[p] # "begin" /\ pc[p] # "idle"
            /\ UNCHANGED <<created, invocations, lock, own>>
        BY <1>t, <2>5 DEF RefuseTarget, ResumeBatch, Publish, BatchExecuted, CommitBatch,
                          AddBatch, ReachTarget, Raise, Go, tables, locals, Recorded
      <3> QED BY <2>0, <3>1
    <2>6. CASE Unlock(p)
      BY <1>t, <2>6, LockAssumption DEF Unlock, Go, Recorded
    <2> QED BY <1>3, <2>1, <2>2, <2>3, <2>4, <2>5, <2>6 DEF RunStep
  <1>4. ASSUME NEW p \in Runners, Crash(p) PROVE Owns(p)'
    BY <1>t, <1>4, LockAssumption DEF Crash, Recorded
  <1> QED BY <1>1, <1>2, <1>3, <1>4 DEF Next

LEMMA StandingStep == IInv /\ [Next \/ Counted]_vars => Standing'
  <1> SUFFICES ASSUME IInv, [Next \/ Counted]_vars PROVE Standing'
    OBVIOUS
  <1>0. Standing /\ TypeOK /\ TablesInv /\ pc \in [Runners -> RunStates]
        /\ position \in [Runners -> Nat]
    BY DEF IInv, TypeOK
  <1>1. CASE UNCHANGED vars \/ Counted
    <2>1. UNCHANGED <<tables, pc, position>>
      BY <1>1 DEF vars, Counted, locals
    <2> QED BY <1>0, <2>1 DEF tables, Standing, SealedTo, Latest, Row
  <1> DEFINE Stands(q) ==
         /\ pc[q] = "execute" => /\ ~batches[Latest].done
                                 /\ position[q] <= batches[Latest].count
                                 /\ SealedTo(Latest, position[q])
         /\ pc[q] = "commit" => /\ ~batches[Latest].done
                                /\ SealedTo(Latest, batches[Latest].count)
  <1>2. ASSUME NEW p \in Runners, RunStep(p) \/ Crash(p), Stands(p)' PROVE Standing'
    <2>1. \A q \in Runners : q # p => pc'[q] = "idle"
      BY <1>2, OthersIdle
    <2>2. \A q \in Runners : Stands(q)'
      BY <1>2, <2>1
    <2> QED BY <2>2 DEF Standing
  <1>3. ASSUME NEW p \in Runners, RunStep(p) PROVE Stands(p)'
    <2>1. CASE StartRun(p) \/ OpenDatabase(p) \/ CreateDatabase(p) \/ RefuseRequest(p)
               \/ BeginInvocation(p) \/ RefuseTarget(p) \/ CommitBatch(p) \/ AddBatch(p)
               \/ ReachTarget(p) \/ Raise(p) \/ FinishInvocation(p) \/ FinishFails(p) \/ Unlock(p)
      <3>1. pc'[p] # "execute" /\ pc'[p] # "commit"
        BY <1>0, <2>1 DEF StartRun, OpenDatabase, CreateDatabase, RefuseRequest, BeginInvocation,
                          RefuseTarget, CommitBatch, AddBatch, ReachTarget, Raise,
                          FinishInvocation, FinishFails, Unlock, Go
      <3> QED BY <3>1
    <2>2. CASE ResumeBatch(p)
      <3>1. HasPending /\ Latest \in 1..Latest /\ Pending = Latest /\ ~batches[Latest].done
        BY <1>0, <2>2, PendingLast DEF ResumeBatch
      <3>2. batches[Latest].count \in Nat
        BY <1>0, <3>1, BatchColumns DEF TablesInv
      <3>3. PICK n \in 0..batches[Latest].count : SealedTo(Latest, n)
        BY <1>0, <3>1 DEF TablesInv, Sealing
      <3>4. Prefix(Latest) = n
        BY <3>2, <3>3, PrefixIs
      <3>5. pc'[p] = "execute" /\ position'[p] = n /\ UNCHANGED batches
        BY <1>0, <2>2, <3>1, <3>4 DEF ResumeBatch, Go, tables
      <3> QED BY <3>1, <3>2, <3>3, <3>5 DEF SealedTo, Latest, Row
    <2>3. CASE Publish(p)
      <3>1. pc[p] = "execute" /\ pc[p] \in Recorded
        BY <2>3 DEF Publish, Go, Recorded
      <3>2. HasPending /\ Pending = Latest /\ batches[Latest].count \in Nat
        BY <3>1, Executing
      <3>3. PICK s \in 0..(batches[Latest].count - 1) : s = position[p] /\ SealedTo(Latest, s)
        BY <2>3, <3>1, <3>2, <1>0 DEF Publish, Standing
      <3>4. own[p] \in Nat /\ own[p] = Len(invocations) /\ own[p] >= 1
        BY <3>1 DEF IInv, TypeOK, Ownership
      <3>5. \E o \in Outcomes : Records(s, o, own[p])
        BY <2>3, <3>2, <3>3 DEF Publish, Records
      <3>6. UNCHANGED <<created, revision, completed, boundary, exhausted, invocations>>
        BY <2>3 DEF Publish
      <3>7. /\ SealedTo(Latest, s + 1)' /\ Latest' = Latest
            /\ batches'[Latest].done = batches[Latest].done
            /\ batches'[Latest].count = batches[Latest].count
        BY <1>0, <3>2, <3>3, <3>4, <3>5, <3>6, RecordKeeps
      <3>8. pc'[p] = "execute" /\ position'[p] = s + 1 /\ s + 1 <= batches[Latest].count
        BY <2>3, <1>0, <3>2, <3>3 DEF Publish, Go
      <3>9. ~batches[Latest].done
        BY <1>0, <3>1 DEF Standing
      <3>10. SealedTo(Latest, position[p])'
        BY <3>7, <3>8
      <3> QED BY <3>7, <3>8, <3>9, <3>10
    <2>4. CASE BatchExecuted(p)
      <3>1. pc[p] = "execute" /\ pc'[p] = "commit" /\ UNCHANGED batches
        BY <2>4, <1>0 DEF BatchExecuted, Go, tables
      <3>2. Pending = Latest
        BY <3>1, Executing
      <3>3. position[p] = batches[Latest].count
        BY <2>4, <3>2 DEF BatchExecuted
      <3> QED BY <1>0, <3>1, <3>3 DEF Standing, SealedTo, Latest, Row
    <2> QED BY <1>3, <2>1, <2>2, <2>3, <2>4 DEF RunStep
  <1>4. ASSUME NEW p \in Runners, Crash(p) PROVE Stands(p)'
    BY <1>0, <1>4 DEF Crash
  <1> QED BY <1>1, <1>2, <1>3, <1>4 DEF Next

LEMMA TargetStep == IInv /\ [Next \/ Counted]_vars => TargetKept'
  <1> SUFFICES ASSUME IInv, [Next \/ Counted]_vars PROVE TargetKept'
    OBVIOUS
  <1> DEFINE Keeps(q) ==
         /\ pc[q] \in Recorded => /\ startedAt[q] <= completed /\ desired[q] = Wanted(q)
                                  /\ completed <= Most(startedAt[q], desired[q])
         /\ pc[q] \in {"execute", "commit"} => completed + batches[Latest].count <= desired[q]
         /\ pc[q] = "success" => exhausted \/ completed >= desired[q]
  <1>0. TypeOK /\ TablesInv /\ pc \in [Runners -> RunStates]
        /\ completed \in Nat /\ desired \in [Runners -> Nat] /\ startedAt \in [Runners -> Nat]
        /\ \A q \in Runners : Keeps(q)
    BY HistoryAssumption DEF IInv, TypeOK, TargetKept
  <1>k. ASSUME NEW q \in Runners, UNCHANGED <<completed, exhausted, target, desired, startedAt>>,
               pc'[q] \in Recorded => pc[q] \in Recorded,
               pc'[q] \in {"execute", "commit"} =>
                   completed + batches'[Latest'].count <= desired[q],
               pc'[q] = "success" => exhausted \/ completed >= desired[q]
        PROVE  Keeps(q)'
    BY <1>0, <1>k DEF Wanted
  <1>1. CASE UNCHANGED vars \/ Counted
    <2>1. UNCHANGED <<tables, pc, locals>>
      BY <1>1 DEF vars, Counted
    <2> QED BY <1>0, <2>1 DEF tables, locals, TargetKept, Wanted, Latest
  <1>2. ASSUME NEW p \in Runners, RunStep(p) \/ Crash(p), Keeps(p)' PROVE TargetKept'
    <2>1. \A q \in Runners : q # p => pc'[q] = "idle"
      BY <1>2, OthersIdle
    <2>2. \A q \in Runners : Keeps(q)'
      BY <1>2, <2>1 DEF Recorded
    <2> QED BY <2>2 DEF TargetKept
  <1>3. ASSUME NEW p \in Runners, RunStep(p) PROVE Keeps(p)'
    <2>1. CASE StartRun(p) \/ OpenDatabase(p) \/ CreateDatabase(p) \/ RefuseRequest(p)
               \/ FinishInvocation(p) \/ FinishFails(p) \/ Unlock(p)
      <3>1. pc'[p] \notin Recorded
        BY <1>0, <2>1 DEF StartRun, OpenDatabase, CreateDatabase, RefuseRequest,
                          FinishInvocation, FinishFails, Unlock, Go, Recorded
      <3> QED BY <3>1 DEF Recorded
    <2>2. CASE BeginInvocation(p)
      <3>1. /\ pc'[p] = "advance" /\ startedAt'[p] = completed /\ completed' = completed
            /\ desired'[p] = DesiredFor(target[p]) /\ target' = target
        BY <1>0, <2>2 DEF BeginInvocation, Go, tables
      <3>2. DesiredFor(target[p]) = Wanted(p)'
        BY <3>1 DEF DesiredFor, Wanted
      <3>3. desired'[p] \in Nat
        BY ProcessTypesStep DEF ProcessTypes
      <3> QED BY <1>0, <3>1, <3>2, <3>3 DEF Most, Recorded
    <2>3. CASE RefuseTarget(p) \/ Raise(p) \/ AddBatch(p)
      <3>1. /\ UNCHANGED <<completed, exhausted, target, desired, startedAt>>
            /\ pc[p] \in Recorded /\ pc'[p] \notin {"execute", "commit", "success"}
        BY <1>0, <2>3 DEF RefuseTarget, Raise, AddBatch, Go, Recorded, tables, locals
      <3> QED BY <1>k, <3>1
    <2>4. CASE ReachTarget(p)
      <3>1. /\ UNCHANGED <<completed, exhausted, target, desired, startedAt>>
            /\ pc[p] \in Recorded /\ pc'[p] = "success" /\ TargetMet(p)
        BY <1>0, <2>4 DEF ReachTarget, Go, Recorded, tables, locals
      <3> QED BY <1>k, <3>1 DEF TargetMet
    <2>5. CASE ResumeBatch(p)
      <3>1. HasPending /\ Latest \in 1..Latest /\ Pending = Latest
        BY <1>0, <2>5, PendingLast DEF ResumeBatch
      <3>2. batches[Latest].count \in Nat
        BY <1>0, <3>1, BatchColumns DEF TablesInv
      <3>3. completed + batches[Latest].count <= desired[p]
        BY <1>0, <2>5, <3>1, <3>2 DEF ResumeBatch, PendingTotal
      <3>4. /\ UNCHANGED <<completed, exhausted, target, desired, startedAt>>
            /\ batches' = batches /\ Latest' = Latest
            /\ pc[p] \in Recorded /\ pc'[p] = "execute"
        BY <1>0, <2>5 DEF ResumeBatch, Go, Recorded, tables, Latest
      <3> QED BY <1>k, <3>3, <3>4
    <2>6. CASE Publish(p)
      <3>1. pc[p] = "execute" /\ pc[p] \in Recorded
        BY <2>6 DEF Publish, Go, Recorded
      <3>2. HasPending /\ Pending = Latest /\ batches[Latest].count \in Nat
        BY <3>1, Executing
      <3>3. PICK s \in 0..(batches[Latest].count - 1) : s = position[p] /\ SealedTo(Latest, s)
        BY SMTT(30), <2>6, <3>1, <3>2 DEF Publish, IInv, TypeOK, Standing
      <3>4. own[p] \in Nat /\ own[p] = Len(invocations) /\ own[p] >= 1
        BY <3>1 DEF IInv, TypeOK, Ownership
      <3>5. \E o \in Outcomes : Records(s, o, own[p])
        BY <2>6, <3>2, <3>3 DEF Publish, Records
      <3>6. UNCHANGED <<created, revision, completed, boundary, exhausted, invocations>>
        BY <2>6 DEF Publish
      <3>7. Latest' = Latest /\ batches'[Latest].count = batches[Latest].count
        BY <1>0, <3>2, <3>3, <3>4, <3>5, <3>6, RecordKeeps
      <3>8. /\ UNCHANGED <<completed, exhausted, target, desired, startedAt>>
            /\ pc'[p] = "execute"
        BY <1>0, <2>6 DEF Publish, Go
      <3> QED BY <1>0, <1>k, <3>1, <3>7, <3>8
    <2>7. CASE BatchExecuted(p)
      <3>1. /\ UNCHANGED <<completed, exhausted, target, desired, startedAt>>
            /\ batches' = batches /\ Latest' = Latest
            /\ pc[p] = "execute" /\ pc[p] \in Recorded /\ pc'[p] = "commit"
        BY <1>0, <2>7 DEF BatchExecuted, Go, Recorded, tables, locals, Latest
      <3> QED BY <1>0, <1>k, <3>1
    <2>8. CASE CommitBatch(p)
      <3>1. pc[p] = "commit" /\ pc[p] \in Recorded
        BY <2>8 DEF CommitBatch, Go, Recorded
      <3>2. Pending = Latest /\ batches[Latest].count \in Nat
        BY <3>1, Executing
      <3>3. /\ UNCHANGED <<target, desired, startedAt>> /\ pc'[p] = "advance"
            /\ completed' = completed + batches[Latest].count
        BY <1>0, <2>8, <3>2 DEF CommitBatch, Go, locals
      <3>4. completed + batches[Latest].count <= desired[p] /\ startedAt[p] <= completed
            /\ desired[p] = Wanted(p)
        BY <1>0, <3>1
      <3>5. desired'[p] = Wanted(p)'
        BY <3>3, <3>4 DEF Wanted
      <3>6. startedAt[p] \in Nat /\ desired[p] \in Nat
        BY <1>0
      <3> QED BY <1>0, <3>2, <3>3, <3>4, <3>5, <3>6 DEF Most
    <2> QED BY <1>3, <2>1, <2>2, <2>3, <2>4, <2>5, <2>6, <2>7, <2>8 DEF RunStep
  <1>4. ASSUME NEW p \in Runners, Crash(p) PROVE Keeps(p)'
    BY <1>0, <1>4 DEF Crash, Recorded
  <1> QED BY <1>1, <1>2, <1>3, <1>4 DEF Next

LEMMA InitIInv == Init => IInv
  <1> SUFFICES ASSUME Init PROVE IInv
    OBVIOUS
  <1>1. TypeOK
    <2>1. AnyTarget \in Targets
      BY TargetAssumption DEF AnyTarget
    <2>2. Latest = 0 /\ batches = <<>>
      BY DEF Init, Latest
    <2>3. /\ DOMAIN batches = 1..Latest
          /\ \A b \in 1..Latest : \E n \in 1..BatchLimit : batches[b] \in BatchRecords(n)
      BY <2>2
    <2>4. invocations \in Seq(Results)
      BY DEF Init
    <2>5. TableTypes
      <3>1. created \in BOOLEAN /\ exhausted \in BOOLEAN
        BY DEF Init
      <3>2. revision \in Nat /\ completed \in 0..HistoryPairs /\ boundary \in 0..HistoryPairs
        BY HistoryAssumption DEF Init
      <3> QED BY <2>4, <3>1, <3>2 DEF TableTypes
    <2>6. ProcessTypes
      BY <2>1, BoundAssumption DEF Init, ProcessTypes, RunStates
    <2> QED BY <2>3, <2>5, <2>6 DEF TypeOK, TableTypes, ProcessTypes
  <1>2. Ownership /\ Standing /\ TargetKept
    BY LockAssumption DEF Init, Ownership, Standing, TargetKept, Recorded
  <1> QED BY <1>1, <1>2, TablesInit DEF IInv

LEMMA StepIInv == IInv /\ [Next \/ Counted]_vars => IInv'
  BY TablesStep, TypesStep, OwnershipStep, StandingStep, TargetStep DEF IInv

-----------------------------------------------------------------------------
(* What the invariant implies.                                              *)

LEMMA AccountsFollow == IInv => AccountsAgree
  <1> SUFFICES ASSUME IInv PROVE AccountsAgree
    OBVIOUS
  <1>0. TypeOK /\ TablesInv /\ Coverage /\ Credit /\ Latest \in Nat
    BY PendingLast DEF IInv, TablesInv
  <1>1. completed = boundary
    BY <1>0 DEF Coverage
  <1>2. created <=> Latest > 0
    BY <1>0 DEF Coverage
  <1>3. /\ \A b \in 1..Latest : batches[b].done <=> batches[b].oldest <= completed
        /\ \A b \in 1..(Latest - 1) : batches[b].done
    BY <1>0 DEF Coverage
  <1>4. /\ revision = IF HasPending THEN 2 * Latest - 1 ELSE 2 * Latest
        /\ HasPending => batches[Latest].base + 1 = revision
    <2>1. CASE Latest = 0
      BY <1>0, <2>1, PendingLast DEF Coverage
    <2>2. CASE Latest > 0
      <3>1. HasPending <=> ~batches[Latest].done
        BY <1>0, <2>2, PendingLast
      <3> QED BY <1>0, <2>2, <3>1 DEF Coverage
    <2> QED BY <1>0, <2>1, <2>2
  <1>5. \A b \in 1..Latest : \A s \in 0..(batches[b].count - 1) :
            /\ Row(b, s).outcome # Open <=> Row(b, s).by \in 1..Len(invocations)
            /\ \A c \in b..Latest : \A t \in 0..(batches[c].count - 1) :
                  (c > b \/ t > s) /\ Row(c, t).outcome # Open => Row(b, s).by <= Row(c, t).by
    BY <1>0 DEF Credit
  <1>6. exhausted <=> completed = HistoryPairs
    BY <1>0 DEF Coverage
  <1> QED BY <1>1, <1>2, <1>3, <1>4, <1>5, <1>6 DEF AccountsAgree

LEMMA ChecksFollow == IInv => ChecksPass
  <1> SUFFICES ASSUME IInv PROVE ChecksPass
    OBVIOUS
  <1>0. TypeOK /\ TablesInv /\ Coverage /\ Sealing /\ batches \in Seq(BatchSet)
        /\ Latest \in Nat
    BY PendingLast DEF IInv, TablesInv
  <1>1. Cardinality(PendingBatches) <= 1
    <2>1. PendingBatches = {} \/ PendingBatches = {Latest}
      BY <1>0, PendingLast DEF HasPending
    <2>2. Cardinality({}) = 0 /\ Cardinality({Latest}) = 1
      BY FS_EmptySet, FS_Singleton
    <2>3. Cardinality(PendingBatches) = 0 \/ Cardinality(PendingBatches) = 1
      BY <2>1, <2>2
    <2> QED BY <2>3
  <1>2. HasPending => PrefixContiguous(Pending)
    <2> SUFFICES ASSUME HasPending PROVE PrefixContiguous(Pending)
      OBVIOUS
    <2>1. Pending = Latest /\ Latest \in 1..Latest
      BY <1>0, PendingLast
    <2>2. PICK n \in 0..batches[Latest].count : SealedTo(Latest, n)
      BY <1>0, <2>1 DEF Sealing
    <2>3. batches[Latest].count \in Nat
      BY <1>0, <2>1, BatchColumns
    <2> QED BY <2>1, <2>2, <2>3, PrefixIs
  <1>3. ASSUME NEW p \in Runners, pc[p] = "advance", ~HasPending, ~TargetMet(p)
        PROVE  SelectedPairs(boundary, Asked(p)) > 0
    <2>1. completed \in 0..HistoryPairs /\ desired[p] \in Nat /\ boundary = completed
          /\ (exhausted <=> completed = HistoryPairs)
      BY <1>0 DEF TypeOK, Coverage
    <2>2. ~exhausted /\ ~(completed >= desired[p])
      BY <1>3 DEF TargetMet
    <2>3. completed < HistoryPairs /\ completed < desired[p]
      BY <2>1, <2>2, HistoryAssumption
    <2> QED BY <2>1, <2>3, HistoryAssumption DEF SelectedPairs, Asked, Least
  <1>4. ASSUME NEW p \in Runners, pc[p] = "execute"
        PROVE  /\ HasPending /\ position[p] <= batches[Pending].count
               /\ position[p] < batches[Pending].count =>
                     /\ Row(Pending, position[p]).outcome = Open
                     /\ invocations[own[p]] = "running"
    <2>1. HasPending /\ Pending = Latest /\ batches[Latest].count \in Nat
      BY <1>4, Executing
    <2>2. position[p] <= batches[Latest].count /\ SealedTo(Latest, position[p])
          /\ position[p] \in Nat
      BY <1>4 DEF IInv, Standing, TypeOK
    <2>3. invocations[own[p]] = "running"
      BY <1>4 DEF IInv, Ownership, Recorded
    <2>4. position[p] < batches[Latest].count => Row(Latest, position[p]).outcome = Open
      BY <2>1, <2>2 DEF SealedTo
    <2> QED BY <2>1, <2>2, <2>3, <2>4
  <1>5. ASSUME NEW p \in Runners, pc[p] = "commit"
        PROVE  /\ HasPending /\ revision = batches[Pending].base + 1
               /\ Prefix(Pending) = batches[Pending].count
    <2>1. HasPending /\ Pending = Latest /\ batches[Latest].count \in Nat /\ Latest > 0
      BY <1>5, Executing
    <2>2. ~batches[Latest].done /\ SealedTo(Latest, batches[Latest].count)
      BY <1>5 DEF IInv, Standing
    <2>3. revision = batches[Latest].base + 1
      BY <1>0, <2>1, <2>2 DEF Coverage
    <2>4. Prefix(Latest) = batches[Latest].count
      BY <2>1, <2>2, PrefixIs
    <2> QED BY <2>1, <2>3, <2>4
  <1>6. ASSUME NEW p \in Runners, pc[p] \in {"success", "failed", "interrupted"}
        PROVE  invocations[own[p]] = "running"
    BY <1>6 DEF IInv, Ownership, Recorded
  <1> QED BY <1>1, <1>2, <1>3, <1>4, <1>5, <1>6 DEF ChecksPass

LEMMA TargetFollows == IInv => TargetExact
  <1> SUFFICES ASSUME IInv, NEW p \in Runners, pc[p] = "success"
               PROVE  completed = Most(startedAt[p], Least(Goal(p), HistoryPairs))
    BY DEF TargetExact
  <1>1. /\ startedAt[p] <= completed /\ desired[p] = Wanted(p)
        /\ completed <= Most(startedAt[p], desired[p])
        /\ exhausted \/ completed >= desired[p]
        /\ exhausted <=> completed = HistoryPairs
    BY DEF IInv, TargetKept, Recorded, TablesInv, Coverage
  <1>2. /\ completed \in 0..HistoryPairs /\ startedAt[p] \in Nat /\ desired[p] \in Nat
        /\ target[p] \in Targets
    BY DEF IInv, TypeOK
  <1>3. target[p].value \in Nat
    BY <1>2, TargetAssumption, HistoryAssumption
  <1>4. CASE target[p].kind = "all"
    <2>1. Goal(p) = HistoryPairs /\ desired[p] = HistoryPairs + BatchLimit
      BY <1>1, <1>4 DEF Goal, Wanted, NoLimit
    <2> QED BY <1>1, <1>2, <2>1, HistoryAssumption DEF Most, Least
  <1>5. CASE target[p].kind # "all"
    <2>1. Goal(p) = desired[p]
      BY <1>1, <1>5 DEF Goal, Wanted
    <2> QED BY <1>1, <1>2, <2>1, HistoryAssumption DEF Most, Least
  <1> QED BY <1>4, <1>5

LEMMA ReadSteps == ReadInit /\ [][ReadNext]_ReadVars => Init /\ [][Next \/ Counted]_vars
  <1>1. ReadInit => Init
    BY DEF ReadInit
  <1>2. [ReadNext]_ReadVars => [Next \/ Counted]_vars
    BY DEF ReadNext, ReadVars, Next, Counted, ShownStep, ShowPublished, ShownCrash,
           BeginListing, ListPairs, EndListing
  <1> QED BY <1>1, <1>2, PTL

LEMMA Invariant == Spec => []IInv
  <1>1. IInv /\ [Next]_vars => IInv'
    BY StepIInv
  <1> QED BY <1>1, InitIInv, PTL DEF Spec

LEMMA ReadInvariant == ReadSpec => []IInv
  <1>1. ReadInit /\ [][ReadNext]_ReadVars => []IInv
    BY ReadSteps, StepIInv, InitIInv, PTL
  <1> QED BY <1>1, PTL DEF ReadSpec

-----------------------------------------------------------------------------
(* The theorems.                                                            *)

\* Whatever runs, fails, is interrupted or crashes, the tables tell one
\* history, well typed, and no check of a later run or command ever refuses
\* what the runs before it have written.
THEOREM TablesAlwaysAgree == Spec => []TablesAgree
  <1>1. IInv => TablesAgree
    BY AccountsFollow, ChecksFollow DEF TablesAgree, IInv, TablesInv
  <1> QED BY <1>1, Invariant, PTL

\* A run that succeeds has covered exactly what it was asked for.
THEOREM TargetAlwaysExact == Spec => []TargetExact
  BY TargetFollows, Invariant, PTL

\* Both hold with readers beside the runs, as the run checks them.
THEOREM AgreeWithReaders == ReadSpec => []TablesAgree /\ []TargetExact
  <1>1. IInv => TablesAgree
    BY AccountsFollow, ChecksFollow DEF TablesAgree, IInv, TablesInv
  <1> QED BY <1>1, TargetFollows, ReadInvariant, PTL

-----------------------------------------------------------------------------
(* The tables implement the coverage ledger.                                *)

Window == IF HasPending THEN PendingTotal ELSE completed
OutcomeAt(d) == IF \E r \in SealedRows : r.distance = d
                  THEN (CHOOSE r \in SealedRows : r.distance = d).outcome ELSE Open
SealedMap == [d \in 0..(HistoryPairs - 1) |-> OutcomeAt(d)]

\* A row is sealed when it belongs to a batch and has an outcome.
LEMMA SealedIs ==
    batches \in Seq(BatchSet) =>
        \A r : r \in SealedRows <=>
            \E b \in 1..Latest : \E s \in 0..(batches[b].count - 1) :
                r = batches[b].rows[s] /\ r.outcome # Open
  <1> SUFFICES ASSUME batches \in Seq(BatchSet), NEW r
               PROVE  r \in SealedRows <=>
                          \E b \in 1..Latest : \E s \in 0..(batches[b].count - 1) :
                              r = batches[b].rows[s] /\ r.outcome # Open
    OBVIOUS
  <1>1. \A b \in 1..Latest : DOMAIN batches[b].rows = 0..(batches[b].count - 1)
    BY BatchColumns
  <1> DEFINE Sealed(b) == {Row(b, s) : s \in {t \in DOMAIN batches[b].rows :
                                                  batches[b].rows[t].outcome # Open}}
  <1>2. r \in SealedRows <=> \E b \in 1..Latest : r \in Sealed(b)
    BY Zenon DEF SealedRows
  <1>3. ASSUME NEW b \in 1..Latest
        PROVE  r \in Sealed(b) <=> \E s \in 0..(batches[b].count - 1) :
                                       r = batches[b].rows[s] /\ r.outcome # Open
    BY <1>1 DEF Row
  <1> HIDE DEF Sealed
  <1> QED BY <1>2, <1>3

\* No two rows have one distance.
LEMMA RowsApart ==
    ASSUME TablesInv, NEW b \in 1..Latest, NEW s \in 0..(batches[b].count - 1),
           NEW c \in 1..Latest, NEW t \in 0..(batches[c].count - 1),
           Row(c, t).distance = Row(b, s).distance
    PROVE  c = b /\ t = s
  <1>0. batches \in Seq(BatchSet) /\ RowsTile /\ Ordered /\ Latest \in Nat
    BY PendingLast DEF TablesInv
  <1>1. \A a \in 1..Latest : /\ batches[a].newest \in Nat /\ batches[a].oldest \in Nat
                             /\ batches[a].count \in Nat
                             /\ batches[a].oldest = batches[a].newest + batches[a].count
    BY <1>0, BatchColumns DEF RowsTile
  <1>2. \A a \in 1..Latest : \A u \in 0..(batches[a].count - 1) :
            Row(a, u).distance = batches[a].oldest - 1 - u
    BY <1>0 DEF RowsTile
  <1>3. batches[c].oldest - 1 - t = batches[b].oldest - 1 - s
    BY <1>2
  <1>4. CASE c = b
    BY <1>1, <1>3, <1>4
  <1>5. CASE c < b
    <2>1. batches[c].oldest <= batches[b].newest
      BY <1>0, <1>5 DEF Ordered
    <2> QED BY <1>1, <1>3, <2>1
  <1>6. CASE c > b
    <2>1. batches[b].oldest <= batches[c].newest
      BY <1>0, <1>6 DEF Ordered
    <2> QED BY <1>1, <1>3, <2>1
  <1> QED BY <1>0, <1>4, <1>5, <1>6

\* So the ledger has the outcome of each.
LEMMA RowOutcome ==
    TablesInv => \A b \in 1..Latest : \A s \in 0..(batches[b].count - 1) :
        OutcomeAt(Row(b, s).distance) = Row(b, s).outcome
  <1> SUFFICES ASSUME TablesInv, NEW b \in 1..Latest, NEW s \in 0..(batches[b].count - 1)
               PROVE  OutcomeAt(Row(b, s).distance) = Row(b, s).outcome
    OBVIOUS
  <1>0. batches \in Seq(BatchSet)
    BY DEF TablesInv
  <1>3. ASSUME NEW c \in 1..Latest, NEW t \in 0..(batches[c].count - 1),
               Row(c, t).distance = Row(b, s).distance
        PROVE  Row(c, t) = Row(b, s)
    BY <1>3, RowsApart
  <1>4. \A r \in SealedRows : r.distance = Row(b, s).distance => r = Row(b, s)
    BY <1>0, <1>3, SealedIs DEF Row
  <1>5. CASE Row(b, s).outcome # Open
    <2>1. Row(b, s) \in SealedRows
      BY <1>0, <1>5, SealedIs DEF Row
    <2>2. (CHOOSE r \in SealedRows : r.distance = Row(b, s).distance) = Row(b, s)
      BY <1>4, <2>1
    <2> QED BY <2>1, <2>2 DEF OutcomeAt
  <1>6. CASE Row(b, s).outcome = Open
    <2>1. \A r \in SealedRows : r.outcome # Open
      BY <1>0, SealedIs
    <2>2. ~ \E r \in SealedRows : r.distance = Row(b, s).distance
      BY <1>4, <1>6, <2>1
    <2> QED BY <1>6, <2>2 DEF OutcomeAt
  <1> QED BY <1>5, <1>6

LEMMA DistanceOutcome ==
    TablesInv => \A d :
        /\ \A b \in 1..Latest : \A s \in 0..(batches[b].count - 1) :
              batches[b].rows[s].distance = d => OutcomeAt(d) = batches[b].rows[s].outcome
        /\ (\A b \in 1..Latest : \A s \in 0..(batches[b].count - 1) :
               batches[b].rows[s].distance # d) => OutcomeAt(d) = Open
  <1> SUFFICES ASSUME TablesInv, NEW d
               PROVE  /\ \A b \in 1..Latest : \A s \in 0..(batches[b].count - 1) :
                            batches[b].rows[s].distance = d =>
                                OutcomeAt(d) = batches[b].rows[s].outcome
                      /\ (\A b \in 1..Latest : \A s \in 0..(batches[b].count - 1) :
                             batches[b].rows[s].distance # d) => OutcomeAt(d) = Open
    OBVIOUS
  <1>1. \A b \in 1..Latest : \A s \in 0..(batches[b].count - 1) :
            batches[b].rows[s].distance = d => OutcomeAt(d) = batches[b].rows[s].outcome
    BY RowOutcome DEF Row
  <1>2. ASSUME \A b \in 1..Latest : \A s \in 0..(batches[b].count - 1) :
                   batches[b].rows[s].distance # d
        PROVE  OutcomeAt(d) = Open
    <2>1. ~ \E r \in SealedRows : r.distance = d
      BY <1>2, SealedIs DEF TablesInv
    <2> QED BY <2>1 DEF OutcomeAt
  <1> QED BY <1>1, <1>2

LEMMA DistanceOutcomeNext ==
    TablesInv' => \A d :
        /\ \A b \in 1..Latest' : \A s \in 0..(batches'[b].count - 1) :
              batches'[b].rows[s].distance = d => OutcomeAt(d)' = batches'[b].rows[s].outcome
        /\ (\A b \in 1..Latest' : \A s \in 0..(batches'[b].count - 1) :
               batches'[b].rows[s].distance # d) => OutcomeAt(d)' = Open
  <1>1. (TablesInv => \A d :
        /\ \A b \in 1..Latest : \A s \in 0..(batches[b].count - 1) :
              batches[b].rows[s].distance = d => OutcomeAt(d) = batches[b].rows[s].outcome
        /\ (\A b \in 1..Latest : \A s \in 0..(batches[b].count - 1) :
               batches[b].rows[s].distance # d) => OutcomeAt(d) = Open)'
    BY DistanceOutcome, PTL
  <1> QED BY <1>1

\* A batch that is frozen adds nothing sealed.
LEMMA FreezeSealed ==
    ASSUME batches \in Seq(BatchSet), batches' \in Seq(BatchSet), NEW asked, Freezes(asked),
           SelectedPairs(boundary, asked) \in Nat
    PROVE  SealedRows' = SealedRows
  <1>1. PICK new : /\ batches' = Append(batches, new)
                   /\ new.count = SelectedPairs(boundary, asked)
                   /\ \A s \in 0..(new.count - 1) : new.rows[s].outcome = Open
    BY DEF Freezes, NewBatch
  <1>2. PICK L \in Nat : L = Latest + 1
    BY DEF Latest
  <1>3. /\ Latest' = L /\ batches'[L] = new
        /\ \A b \in 1..Latest : batches'[b] = batches[b]
        /\ \A b \in 1..L : b = L \/ b \in 1..Latest
        /\ \A b \in 1..Latest : b \in 1..L
    BY <1>1, <1>2 DEF Latest
  <1>4. (batches \in Seq(BatchSet) =>
            \A r : r \in SealedRows <=>
                \E b \in 1..Latest : \E s \in 0..(batches[b].count - 1) :
                    r = batches[b].rows[s] /\ r.outcome # Open)'
    BY SealedIs, PTL
  <1>5. \A r : r \in SealedRows' <=>
            \E b \in 1..L : \E s \in 0..(batches'[b].count - 1) :
                r = batches'[b].rows[s] /\ r.outcome # Open
    <2>1. \A r : r \in SealedRows' <=>
              \E b \in 1..Latest' : \E s \in 0..(batches'[b].count - 1) :
                  r = batches'[b].rows[s] /\ r.outcome # Open
      BY Zenon, <1>4
    <2>2. Latest' = L
      BY <1>3
    <2> QED BY Zenon, <2>1, <2>2
  <1>6. \A r : r \in SealedRows <=>
            \E b \in 1..Latest : \E s \in 0..(batches[b].count - 1) :
                r = batches[b].rows[s] /\ r.outcome # Open
    BY SealedIs
  <1>7. ASSUME NEW r \in SealedRows PROVE r \in SealedRows'
    <2>1. PICK b \in 1..Latest : \E s \in 0..(batches[b].count - 1) :
              r = batches[b].rows[s] /\ r.outcome # Open
      BY <1>6
    <2>2. b \in 1..L /\ batches'[b] = batches[b]
      BY <1>3
    <2>3. \E s \in 0..(batches'[b].count - 1) : r = batches'[b].rows[s] /\ r.outcome # Open
      BY Zenon, <2>1, <2>2
    <2> QED BY Zenon, <1>5, <2>2, <2>3
  <1>8. ASSUME NEW r \in SealedRows' PROVE r \in SealedRows
    <2>1. PICK b \in 1..L : \E s \in 0..(batches'[b].count - 1) :
              r = batches'[b].rows[s] /\ r.outcome # Open
      BY <1>5
    <2>2. b # L
      BY <1>1, <1>3, <2>1
    <2> QED BY <1>3, <1>6, <2>1, <2>2
  <1> QED BY <1>7, <1>8

LEMMA PendingIs ==
    TablesInv => /\ Latest \in Nat
                 /\ HasPending <=> Latest > 0 /\ ~batches[Latest].done
                 /\ HasPending => Pending = Latest
  BY PendingLast

\* The ledger in terms of the tables.
LEMMA LedgerTerms ==
    /\ Ledger!Init <=> /\ created = FALSE /\ completed = 0 /\ Window = 0
                       /\ SealedMap = [d \in 0..(HistoryPairs - 1) |-> Open]
    /\ Ledger!Freeze <=>
         /\ Window = completed
         /\ \E n \in 1..BatchLimit : /\ completed + n <= HistoryPairs
                                     /\ Window' = completed + n
         /\ created' = TRUE /\ completed' = completed /\ SealedMap' = SealedMap
    /\ Ledger!Seal <=>
         /\ created
         /\ \E d \in completed..(Window - 1) :
               /\ SealedMap[d] = Open
               /\ \A e \in (d + 1)..(Window - 1) : SealedMap[e] # Open
               /\ \E o \in Outcomes : SealedMap' = [SealedMap EXCEPT ![d] = o]
         /\ created' = created /\ completed' = completed /\ Window' = Window
    /\ Ledger!Advance <=>
         /\ Window > completed
         /\ \A d \in completed..(Window - 1) : SealedMap[d] # Open
         /\ completed' = Window
         /\ created' = created /\ Window' = Window /\ SealedMap' = SealedMap
    /\ UNCHANGED Ledger!ledgerVars <=>
         /\ created' = created /\ completed' = completed
         /\ Window' = Window /\ SealedMap' = SealedMap
  <1>1. Ledger!Init <=> /\ created = FALSE /\ completed = 0 /\ Window = 0
                        /\ SealedMap = [d \in 0..(HistoryPairs - 1) |-> Open]
    BY Zenon DEF Ledger!Init, Ledger!Distances, Window, SealedMap, OutcomeAt
  <1>2. Ledger!Freeze <=>
          /\ Window = completed
          /\ \E n \in 1..BatchLimit : /\ completed + n <= HistoryPairs
                                      /\ Window' = completed + n
          /\ created' = TRUE /\ completed' = completed /\ SealedMap' = SealedMap
    BY Zenon DEF Ledger!Freeze, Window, SealedMap, OutcomeAt
  <1>3. Ledger!Seal <=>
          /\ created
          /\ \E d \in completed..(Window - 1) :
                /\ SealedMap[d] = Open
                /\ \A e \in (d + 1)..(Window - 1) : SealedMap[e] # Open
                /\ \E o \in Outcomes : SealedMap' = [SealedMap EXCEPT ![d] = o]
          /\ created' = created /\ completed' = completed /\ Window' = Window
    BY Zenon DEF Ledger!Seal, Window, SealedMap, OutcomeAt
  <1>4. Ledger!Advance <=>
          /\ Window > completed
          /\ \A d \in completed..(Window - 1) : SealedMap[d] # Open
          /\ completed' = Window
          /\ created' = created /\ Window' = Window /\ SealedMap' = SealedMap
    BY Zenon DEF Ledger!Advance, Window, SealedMap, OutcomeAt
  <1>5. UNCHANGED Ledger!ledgerVars <=>
          /\ created' = created /\ completed' = completed
          /\ Window' = Window /\ SealedMap' = SealedMap
    BY Zenon DEF Ledger!ledgerVars, Window, SealedMap, OutcomeAt
  <1> QED BY <1>1, <1>2, <1>3, <1>4, <1>5

LEMMA LedgerInit == Init => Ledger!Init
  <1> SUFFICES ASSUME Init PROVE Ledger!Init
    OBVIOUS
  <1>1. TablesInv /\ Latest = 0
    BY TablesInit DEF Init, Latest
  <1>2. Window = 0
    BY <1>1, PendingIs DEF Window, Init
  <1>3. SealedRows = {}
    <2>1. \A r : r \notin SealedRows
      BY <1>1, SealedIs DEF TablesInv
    <2> QED BY <2>1
  <1>4. SealedMap = [d \in 0..(HistoryPairs - 1) |-> Open]
    BY <1>3 DEF SealedMap, OutcomeAt
  <1>5. created = FALSE /\ completed = 0
    BY DEF Init
  <1> QED BY <1>2, <1>4, <1>5, LedgerTerms

LEMMA LedgerKept == UNCHANGED tables => UNCHANGED Ledger!ledgerVars
  <1> SUFFICES ASSUME UNCHANGED tables PROVE UNCHANGED Ledger!ledgerVars
    OBVIOUS
  <1>1. created' = created /\ completed' = completed /\ batches' = batches
    BY DEF tables
  <1>2. Window' = Window
    BY <1>1 DEF Window, HasPending, PendingTotal, Pending, PendingBatches, Latest
  <1>3. SealedMap' = SealedMap
    BY <1>1 DEF SealedMap, OutcomeAt, SealedRows, Row, Latest
  <1> QED BY <1>1, <1>2, <1>3, LedgerTerms

\* A frozen batch is a window at the frontier.
LEMMA LedgerFreeze ==
    ASSUME TypeOK, TablesInv, TablesInv', ~HasPending, completed < HistoryPairs,
           NEW asked \in Nat \ {0}, asked <= BatchLimit, Freezes(asked)
    PROVE  Ledger!Freeze
  <1>0. /\ batches \in Seq(BatchSet) /\ batches' \in Seq(BatchSet)
        /\ boundary = completed /\ completed \in Nat
    BY HistoryAssumption DEF TablesInv, Coverage, TypeOK
  <1>1. PICK n \in 1..BatchLimit : n = SelectedPairs(boundary, asked) /\ completed + n <= HistoryPairs
    BY <1>0, BatchOf, HistoryAssumption
  <1>2. SealedMap' = SealedMap
    <2>1. SealedRows' = SealedRows
      BY <1>0, <1>1, FreezeSealed, HistoryAssumption
    <2> QED BY <2>1 DEF SealedMap, OutcomeAt
  <1>3. PICK new : /\ batches' = Append(batches, new)
                   /\ new.count = n /\ new.done = FALSE
    BY <1>1 DEF Freezes, NewBatch
  <1>4. Latest' > 0 /\ batches'[Latest'] = new
    BY <1>0, <1>3 DEF Latest
  <1>5. (TablesInv => /\ Latest \in Nat
                      /\ HasPending <=> Latest > 0 /\ ~batches[Latest].done
                      /\ HasPending => Pending = Latest)'
    BY PendingIs, PTL
  <1>6. HasPending' /\ Pending' = Latest'
    BY <1>3, <1>4, <1>5
  <1>7. created' = TRUE /\ completed' = completed
    BY DEF Freezes
  <1>8. Window = completed /\ Window' = completed + n
    BY <1>3, <1>4, <1>6, <1>7 DEF Window, PendingTotal
  <1> QED BY <1>1, <1>2, <1>7, <1>8, LedgerTerms

\* What the ledger has of the pending batch, whose first open row is s.
LEMMA PendingOutcomes ==
    ASSUME TypeOK, TablesInv, HasPending
    PROVE  /\ completed \in Nat /\ batches[Latest].count \in Nat
           /\ Window = completed + batches[Latest].count
           /\ Window <= HistoryPairs /\ batches[Latest].count > 0
           /\ \A s \in 0..(batches[Latest].count - 1) :
                 /\ Row(Latest, s).distance = Window - 1 - s
                 /\ OutcomeAt(Window - 1 - s) = Row(Latest, s).outcome
  <1>0. Latest \in 1..Latest /\ Pending = Latest /\ ~batches[Latest].done
    BY PendingLast
  <1>1. batches[Latest].count \in 1..BatchLimit /\ batches[Latest].count \in Nat
    BY <1>0, BatchColumns DEF TablesInv
  <1>2. Window = completed + batches[Latest].count
    BY <1>0 DEF Window, PendingTotal
  <1>3. Window = batches[Latest].oldest /\ Window <= HistoryPairs
    BY <1>0, <1>2 DEF TablesInv, Coverage, RowsTile
  <1>4. \A s \in 0..(batches[Latest].count - 1) : Row(Latest, s).distance = Window - 1 - s
    BY <1>0, <1>3 DEF TablesInv, RowsTile
  <1>5. \A s \in 0..(batches[Latest].count - 1) :
            OutcomeAt(Row(Latest, s).distance) = Row(Latest, s).outcome
    BY <1>0, RowOutcome
  <1>6. \A s \in 0..(batches[Latest].count - 1) :
            OutcomeAt(Window - 1 - s) = Row(Latest, s).outcome
    BY Zenon, <1>4, <1>5
  <1>7. completed \in Nat
    BY DEF TypeOK
  <1> QED BY <1>1, <1>2, <1>3, <1>4, <1>6, <1>7, HistoryAssumption

\* A completed batch is committed over a window that is sealed.
LEMMA LedgerAdvance ==
    ASSUME TypeOK, TablesInv, TablesInv', HasPending,
           SealedTo(Latest, batches[Latest].count), Completes
    PROVE  Ledger!Advance
  <1>0. Latest \in Nat /\ Latest > 0 /\ batches \in Seq(BatchSet) /\ batches' \in Seq(BatchSet)
    BY PendingLast DEF TablesInv
  <1>1. /\ completed \in Nat /\ batches[Latest].count \in Nat /\ batches[Latest].count > 0
        /\ Window = completed + batches[Latest].count /\ Window <= HistoryPairs
        /\ \A s \in 0..(batches[Latest].count - 1) :
              OutcomeAt(Window - 1 - s) = Row(Latest, s).outcome
    BY PendingOutcomes
  <1>2. /\ Latest' = Latest
        /\ \A b \in 1..Latest : SamePlan(b) /\ batches'[b].rows = batches[b].rows
        /\ batches'[Latest].done = TRUE
    BY <1>0, CompleteEffect
  <1>3. \A d \in completed..(Window - 1) : SealedMap[d] # Open
    <2> SUFFICES ASSUME NEW d \in completed..(Window - 1) PROVE SealedMap[d] # Open
      OBVIOUS
    <2>1. PICK s \in 0..(batches[Latest].count - 1) : d = Window - 1 - s
      <3>1. Window - 1 - d \in 0..(batches[Latest].count - 1) /\ d = Window - 1 - (Window - 1 - d)
        BY <1>1
      <3> QED BY <3>1
    <2>2. d \in 0..(HistoryPairs - 1)
      BY <1>1, HistoryAssumption
    <2>3. Row(Latest, s).outcome # Open
      BY <1>1 DEF SealedTo
    <2> QED BY <1>1, <2>1, <2>2, <2>3 DEF SealedMap
  <1>4. SealedMap' = SealedMap
    <2> SUFFICES ASSUME NEW d PROVE OutcomeAt(d)' = OutcomeAt(d)
      BY DEF SealedMap
    <2>1. /\ batches'[Latest'].count = batches[Latest].count
          /\ \A b \in 1..Latest : batches'[b].count = batches[b].count
      BY <1>0, <1>2 DEF SamePlan
    <2>2. CASE \E b \in 1..Latest : \E t \in 0..(batches[b].count - 1) :
                   batches[b].rows[t].distance = d
      <3>0. PICK b \in 1..Latest : \E t \in 0..(batches[b].count - 1) :
                batches[b].rows[t].distance = d
        BY <2>2
      <3>1. PICK t \in 0..(batches[b].count - 1) : batches[b].rows[t].distance = d
        BY <3>0
      <3>2. batches'[b].rows[t] = batches[b].rows[t]
        BY <1>2
      <3> QED BY <1>2, <2>1, <3>1, <3>2, DistanceOutcome, DistanceOutcomeNext
    <2>3. CASE \A b \in 1..Latest : \A t \in 0..(batches[b].count - 1) :
                   batches[b].rows[t].distance # d
      <3>1. \A b \in 1..Latest : \A t \in 0..(batches'[b].count - 1) :
                batches'[b].rows[t].distance # d
        BY <1>2, <2>1, <2>3
      <3> QED BY <1>2, <2>3, <3>1, DistanceOutcome, DistanceOutcomeNext
    <2> QED BY <2>2, <2>3
  <1>5. completed' = Window /\ created' = created
    BY <1>1 DEF Completes
  <1>6. (TablesInv => /\ Latest \in Nat
                      /\ HasPending <=> Latest > 0 /\ ~batches[Latest].done
                      /\ HasPending => Pending = Latest)'
    BY PendingIs, PTL
  <1>7. Window' = Window
    <2>1. ~HasPending'
      BY <1>2, <1>6
    <2> QED BY <1>5, <2>1 DEF Window
  <1>8. Window > completed
    BY <1>1
  <1> QED BY <1>3, <1>4, <1>5, <1>7, <1>8, LedgerTerms

\* An outcome that is recorded seals the oldest open pair of the window.
LEMMA LedgerSeal ==
    ASSUME TypeOK, TablesInv, TablesInv', created, HasPending,
           NEW s \in 0..(batches[Latest].count - 1), SealedTo(Latest, s),
           NEW o \in Outcomes, NEW i \in Nat, Records(s, o, i),
           UNCHANGED <<created, revision, completed, boundary, exhausted, invocations>>
    PROVE  Ledger!Seal
  <1>0. Latest \in Nat /\ Latest > 0 /\ batches \in Seq(BatchSet) /\ Pending = Latest
        /\ ~batches[Latest].done
    BY PendingLast DEF TablesInv
  <1>1. PICK L \in 1..Latest : L = Latest
    BY <1>0
  <1>2. /\ completed \in Nat /\ batches[L].count \in Nat /\ batches[L].count > 0
        /\ Window = completed + batches[L].count /\ Window <= HistoryPairs
        /\ \A t \in 0..(batches[L].count - 1) :
              /\ batches[L].rows[t].distance = Window - 1 - t
              /\ OutcomeAt(Window - 1 - t) = batches[L].rows[t].outcome
    BY <1>1, PendingOutcomes DEF Row
  <1>3. PICK W \in Nat : W = Window
    BY <1>2
  <1> DEFINE d == W - 1 - s
  <1>4. /\ s \in 0..(batches[L].count - 1) /\ d \in completed..(W - 1)
        /\ d \in 0..(HistoryPairs - 1)
    BY <1>1, <1>2, <1>3, HistoryAssumption
  <1>5. \A t \in 0..(batches[L].count - 1) : batches[L].rows[t].outcome # Open <=> t < s
    BY <1>1 DEF SealedTo, Row
  <1>6. SealedMap[d] = Open
    <2>1. batches[L].rows[s].outcome = Open
      BY <1>2, <1>4, <1>5
    <2>2. OutcomeAt(d) = batches[L].rows[s].outcome
      BY <1>2, <1>3, <1>4
    <2> QED BY <1>4, <2>1, <2>2 DEF SealedMap
  <1>7. \A e \in (d + 1)..(W - 1) : SealedMap[e] # Open
    <2> SUFFICES ASSUME NEW e \in (d + 1)..(W - 1) PROVE SealedMap[e] # Open
      OBVIOUS
    <2>1. PICK t \in 0..(batches[L].count - 1) : e = W - 1 - t /\ t < s
      <3>1. W - 1 - e \in 0..(batches[L].count - 1) /\ e = W - 1 - (W - 1 - e) /\ W - 1 - e < s
        BY <1>2, <1>3, <1>4
      <3> QED BY <3>1
    <2>2. e \in 0..(HistoryPairs - 1)
      BY <1>2, <1>3, <1>4, HistoryAssumption
    <2> QED BY <1>2, <1>3, <1>5, <2>1, <2>2 DEF SealedMap
  <1>8. /\ Latest' = Latest
        /\ \A b \in 1..Latest : SamePlan(b) /\ batches'[b].done = batches[b].done
        /\ \A b \in 1..Latest : \A t \in 0..(batches[b].count - 1) :
              b # L \/ t # s => batches'[b].rows[t] = batches[b].rows[t]
        /\ batches'[L].rows[s] = [distance |-> Row(L, s).distance, outcome |-> o, by |-> i]
    BY <1>0, <1>1, RecordEffect
  <1>9. /\ batches'[L].rows[s].distance = d /\ batches'[L].rows[s].outcome = o
        /\ batches[L].rows[s].distance = d
    BY <1>2, <1>3, <1>4, <1>8 DEF Row
  <1>10. \A b \in 1..Latest : batches'[b].count = batches[b].count
    BY <1>8 DEF SamePlan
  <1> HIDE DEF d
  <1>11. OutcomeAt(d)' = o
    BY <1>4, <1>8, <1>9, <1>10, DistanceOutcomeNext
  <1>12. \A e : e # d => OutcomeAt(e)' = OutcomeAt(e)
    <2> SUFFICES ASSUME NEW e, e # d PROVE OutcomeAt(e)' = OutcomeAt(e)
      OBVIOUS
    <2>1. CASE \E b \in 1..Latest : \E t \in 0..(batches[b].count - 1) :
                   batches[b].rows[t].distance = e
      <3>0. PICK b \in 1..Latest : \E t \in 0..(batches[b].count - 1) :
                batches[b].rows[t].distance = e
        BY <2>1
      <3>1. PICK t \in 0..(batches[b].count - 1) : batches[b].rows[t].distance = e
        BY <3>0
      <3>2. batches'[b].rows[t] = batches[b].rows[t]
        BY <1>8, <1>9, <3>1
      <3> QED BY <1>8, <1>10, <3>1, <3>2, DistanceOutcome, DistanceOutcomeNext
    <2>2. CASE \A b \in 1..Latest : \A t \in 0..(batches[b].count - 1) :
                   batches[b].rows[t].distance # e
      <3>1. \A b \in 1..Latest : \A t \in 0..(batches'[b].count - 1) :
                batches'[b].rows[t].distance # e
        BY <1>8, <1>9, <1>10, <2>2
      <3> QED BY <1>8, <2>2, <3>1, DistanceOutcome, DistanceOutcomeNext
    <2> QED BY <2>1, <2>2
  <1>13. SealedMap' = [SealedMap EXCEPT ![d] = o]
    BY <1>4, <1>11, <1>12 DEF SealedMap
  <1>14. Window' = Window
    <2>1. (TablesInv => /\ Latest \in Nat
                        /\ HasPending <=> Latest > 0 /\ ~batches[Latest].done
                        /\ HasPending => Pending = Latest)'
      BY PendingIs, PTL
    <2>2. batches'[L].count = batches[L].count /\ batches'[L].done = batches[L].done
      BY <1>8, <1>10
    <2>3. HasPending' /\ Pending' = L /\ Pending = L
      BY <1>0, <1>1, <1>8, <2>1, <2>2
    <2> QED BY <2>2, <2>3 DEF Window, PendingTotal
  <1>15. created' = created /\ completed' = completed
    OBVIOUS
  <1>16. \E e \in completed..(Window - 1) :
             /\ SealedMap[e] = Open
             /\ \A f \in (e + 1)..(Window - 1) : SealedMap[f] # Open
             /\ \E v \in Outcomes : SealedMap' = [SealedMap EXCEPT ![e] = v]
    BY <1>3, <1>4, <1>6, <1>7, <1>13
  <1> QED BY <1>14, <1>15, <1>16, LedgerTerms

\* Every step of a run is a step of the ledger or leaves it alone.
LEMMA LedgerStep == IInv /\ [Next \/ Counted]_vars => [Ledger!Next]_(Ledger!ledgerVars)
  <1> SUFFICES ASSUME IInv, [Next \/ Counted]_vars
               PROVE  Ledger!Freeze \/ Ledger!Seal \/ Ledger!Advance \/ UNCHANGED Ledger!ledgerVars
    BY DEF Ledger!Next
  <1>0. TypeOK /\ TablesInv /\ TablesInv'
    BY TablesStep DEF IInv
  <1>k. UNCHANGED tables => UNCHANGED Ledger!ledgerVars
    BY LedgerKept
  <1>1. CASE UNCHANGED vars \/ Counted
    BY <1>1, <1>k DEF vars, Counted
  <1>2. ASSUME NEW p \in Runners, RunStep(p)
        PROVE  Ledger!Freeze \/ Ledger!Seal \/ Ledger!Advance \/ UNCHANGED Ledger!ledgerVars
    <2>1. CASE StartRun(p) \/ OpenDatabase(p) \/ RefuseRequest(p) \/ RefuseTarget(p)
               \/ ResumeBatch(p) \/ BatchExecuted(p) \/ ReachTarget(p) \/ Raise(p)
               \/ FinishFails(p) \/ Unlock(p) \/ BeginInvocation(p) \/ FinishInvocation(p)
      BY <2>1, <1>k DEF StartRun, OpenDatabase, RefuseRequest, RefuseTarget, ResumeBatch,
                        BatchExecuted, ReachTarget, Raise, FinishFails, Unlock, BeginInvocation,
                        FinishInvocation
    <2>3. CASE CreateDatabase(p)
      <3>1. PICK asked \in Nat \ {0} : asked <= BatchLimit /\ Freezes(asked)
        BY <2>3, CreateFreezes
      <3>2. Latest = 0 /\ completed = 0
        BY <1>0, <2>3 DEF CreateDatabase, TablesInv, Coverage, Latest
      <3>3. ~HasPending /\ completed < HistoryPairs
        BY <1>0, <3>2, PendingLast, HistoryAssumption
      <3> QED BY <1>0, <3>1, <3>3, LedgerFreeze
    <2>4. CASE AddBatch(p)
      BY <1>0, <2>4, AddFreezes, LedgerFreeze
    <2>5. CASE Publish(p)
      <3>1. pc[p] = "execute" /\ pc[p] \in Recorded
        BY <2>5 DEF Publish, Go, Recorded
      <3>2. HasPending /\ Pending = Latest /\ batches[Latest].count \in Nat
        BY <3>1, Executing
      <3>3. PICK s \in 0..(batches[Latest].count - 1) : s = position[p] /\ SealedTo(Latest, s)
        BY SMTT(30), <2>5, <3>1, <3>2 DEF Publish, IInv, TypeOK, Standing
      <3>4. own[p] \in Nat /\ created
        BY <3>1 DEF IInv, TypeOK, Ownership
      <3>5. \E o \in Outcomes : Records(s, o, own[p])
        BY <2>5, <3>2, <3>3 DEF Publish, Records
      <3>6. UNCHANGED <<created, revision, completed, boundary, exhausted, invocations>>
        BY <2>5 DEF Publish
      <3> QED BY <1>0, <3>2, <3>3, <3>4, <3>5, <3>6, LedgerSeal
    <2>6. CASE CommitBatch(p)
      <3>1. pc[p] = "commit"
        BY <2>6 DEF CommitBatch, Go
      <3>2. HasPending /\ Pending = Latest
        BY <3>1, Executing
      <3>3. SealedTo(Latest, batches[Latest].count)
        BY <3>1 DEF IInv, Standing
      <3>4. Completes
        BY <2>6, <3>2 DEF CommitBatch, Completes
      <3> QED BY <1>0, <3>2, <3>3, <3>4, LedgerAdvance
    <2> QED BY <1>2, <2>1, <2>3, <2>4, <2>5, <2>6 DEF RunStep
  <1>3. ASSUME NEW p \in Runners, Crash(p) PROVE UNCHANGED Ledger!ledgerVars
    BY <1>3, <1>k DEF Crash
  <1> QED BY <1>1, <1>2, <1>3 DEF Next

\* Coverage grows as the ledger says: frozen windows of at most BatchLimit pairs
\* at the frontier, each pair sealed once and never changed, the oldest first,
\* and committed when the whole window is sealed.
THEOREM LedgerImplemented == Spec => ImplementsLedger
  <1>1. IInv /\ [Next]_vars => [Ledger!Next]_(Ledger!ledgerVars)
    BY LedgerStep
  <1> QED BY <1>1, LedgerInit, Invariant, PTL DEF Spec, ImplementsLedger, Ledger!Spec

\* The same with readers beside the runs.
THEOREM LedgerWithReaders == ReadSpec => ImplementsLedger
  <1>1. ReadInit /\ [][ReadNext]_ReadVars => Init /\ [][Next \/ Counted]_vars
    BY ReadSteps
  <1> QED BY <1>1, LedgerStep, LedgerInit, ReadInvariant, PTL
          DEF ReadSpec, ImplementsLedger, Ledger!Spec

-----------------------------------------------------------------------------
(* What readers find in the tables.                                         *)

\* A row with an outcome is known by its distance.
LEMMA SealedColumns ==
    ASSUME TablesInv
    PROVE  /\ \A r \in SealedRows : r.distance \in 0..(HistoryPairs - 1) /\ r.outcome \in Outcomes
           /\ \A r, q \in SealedRows : r.distance = q.distance => r = q
  <1>1. batches \in Seq(BatchSet)
    BY DEF TablesInv
  <1>2. \A r \in SealedRows : \E b \in 1..Latest : \E s \in 0..(batches[b].count - 1) :
            r = batches[b].rows[s] /\ r.outcome # Open
    BY <1>1, SealedIs
  <1>3. ASSUME NEW r \in SealedRows
        PROVE  r.distance \in 0..(HistoryPairs - 1) /\ r.outcome \in Outcomes
    <2>1. PICK b \in 1..Latest, s \in Int :
              s \in 0..(batches[b].count - 1) /\ r = Row(b, s) /\ r.outcome # Open
      BY <1>2 DEF Row
    <2>2. r \in RowSet
      BY <1>1, <2>1, BatchColumns
    <2> QED BY <2>1, <2>2 DEF RowSet
  <1>4. ASSUME NEW r \in SealedRows, NEW q \in SealedRows, r.distance = q.distance
        PROVE  r = q
    <2>1. PICK b \in 1..Latest, s \in Int :
              s \in 0..(batches[b].count - 1) /\ r = Row(b, s)
      BY <1>2 DEF Row
    <2>2. PICK c \in 1..Latest, t \in Int :
              t \in 0..(batches[c].count - 1) /\ q = Row(c, t)
      BY <1>2 DEF Row
    <2>3. c = b /\ t = s
      BY <1>4, <2>1, <2>2, RowsApart
    <2> QED BY <2>1, <2>2, <2>3
  <1> QED BY <1>3, <1>4

\* So rows with an outcome are counted by their distances.
LEMMA RowsCounted ==
    ASSUME TablesInv, NEW S \in SUBSET SealedRows
    PROVE  LET D == {r.distance : r \in S}
           IN  /\ IsFiniteSet(S) /\ Cardinality(S) \in Nat
               /\ IsFiniteSet(D) /\ Cardinality(S) = Cardinality(D)
  <1> DEFINE D == {r.distance : r \in S}
  <1>1. IsFiniteSet(D)
    <2>1. D \in SUBSET (0..(HistoryPairs - 1))
      BY SealedColumns
    <2>2. IsFiniteSet(0..(HistoryPairs - 1))
      <3>1. PICK m \in Int : m = HistoryPairs - 1
        BY HistoryAssumption
      <3> QED BY <3>1, FS_Interval
    <2> QED BY <2>1, <2>2, FS_Subset
  <1> DEFINE f == [d \in D |-> CHOOSE r \in S : r.distance = d]
  <1>2. \A r \in S : f[r.distance] = r
    <2> SUFFICES ASSUME NEW r \in S PROVE f[r.distance] = r
      OBVIOUS
    <2>1. \A q \in S : q.distance = r.distance => q = r
      BY SealedColumns
    <2> QED BY <2>1
  <1>3. f \in [D -> S]
    <2> SUFFICES ASSUME NEW d \in D PROVE f[d] \in S
      BY DEF f
    <2>1. PICK r \in S : d = r.distance
      OBVIOUS
    <2> QED BY <1>2, <2>1
  <1>4. \A d, e \in D : f[d] = f[e] => d = e
    <2> SUFFICES ASSUME NEW r \in S, NEW q \in S, f[r.distance] = f[q.distance]
                 PROVE  r.distance = q.distance
      BY DEF D
    <2> QED BY <1>2
  <1>5. \A r \in S : \E d \in D : f[d] = r
    BY <1>2
  <1>6. ExistsBijection(D, S)
    <2> HIDE DEF f, D
    <2> QED BY <1>3, <1>4, <1>5 DEF ExistsBijection, Bijection, Injection, Surjection, IsInjective
  <1>7. IsFiniteSet(S) /\ Cardinality(S) = Cardinality(D)
    <2> HIDE DEF D
    <2> QED BY <1>1, <1>6, FS_Bijection
  <1> QED BY <1>1, <1>7, FS_CardinalityType

\* The committed rows are those of the batches that are done: the newest pairs,
\* all with an outcome.
LEMMA CommittedIs ==
    ASSUME TypeOK, TablesInv
    PROVE  /\ \A r : r \in CommittedRows <=>
                  \E b \in 1..Latest : /\ batches[b].done
                                       /\ \E s \in 0..(batches[b].count - 1) : r = Row(b, s)
           /\ CommittedRows \subseteq SealedRows
           /\ {r.distance : r \in CommittedRows} = 0..(completed - 1)
           /\ Cardinality(CommittedRows) = completed
  <1>0. /\ batches \in Seq(BatchSet) /\ Latest \in Nat /\ completed \in 0..HistoryPairs
        /\ \A b \in 1..Latest : DOMAIN batches[b].rows = 0..(batches[b].count - 1)
    BY PendingLast, BatchColumns DEF TablesInv, TypeOK
  <1>1. \A r : r \in CommittedRows <=>
                  \E b \in 1..Latest : /\ batches[b].done
                                       /\ \E s \in 0..(batches[b].count - 1) : r = Row(b, s)
    <2> SUFFICES ASSUME NEW r
                 PROVE  r \in CommittedRows <=>
                          \E b \in 1..Latest : /\ batches[b].done
                                               /\ \E s \in 0..(batches[b].count - 1) : r = Row(b, s)
      OBVIOUS
    <2> DEFINE Rows(b) == {Row(b, s) : s \in DOMAIN batches[b].rows}
    <2>1. r \in CommittedRows <=> \E b \in (1..Latest) \ PendingBatches : r \in Rows(b)
      BY Zenon DEF CommittedRows
    <2>2. \A b \in 1..Latest :
             r \in Rows(b) <=> \E s \in 0..(batches[b].count - 1) : r = Row(b, s)
      BY <1>0
    <2>3. \A b \in 1..Latest : b \notin PendingBatches <=> batches[b].done
      BY DEF PendingBatches
    <2> HIDE DEF Rows
    <2> QED BY <2>1, <2>2, <2>3
  <1>2. CommittedRows \subseteq SealedRows
    <2> SUFFICES ASSUME NEW r \in CommittedRows PROVE r \in SealedRows
      OBVIOUS
    <2>1. PICK b \in 1..Latest, s \in Int :
              s \in 0..(batches[b].count - 1) /\ batches[b].done /\ r = Row(b, s)
      BY <1>1
    <2>2. SealedTo(b, batches[b].count)
      BY <2>1 DEF TablesInv, Sealing
    <2>3. batches[b].count \in Nat
      BY <1>0, BatchColumns
    <2>4. Row(b, s).outcome # Open
      BY <2>1, <2>2, <2>3 DEF SealedTo
    <2> QED BY <1>0, <2>1, <2>4, SealedIs DEF Row
  <1>3. /\ \A b \in 1..Latest : /\ batches[b].newest \in Nat /\ batches[b].oldest \in Nat
                                /\ batches[b].count \in Nat
                                /\ batches[b].oldest = batches[b].newest + batches[b].count
        /\ \A b \in 1..Latest : \A s \in 0..(batches[b].count - 1) :
              Row(b, s).distance = batches[b].oldest - 1 - s
    BY <1>0, BatchColumns DEF TablesInv, RowsTile
  <1>4. \A r \in CommittedRows : r.distance \in 0..(completed - 1)
    <2> SUFFICES ASSUME NEW r \in CommittedRows PROVE r.distance \in 0..(completed - 1)
      OBVIOUS
    <2>1. PICK b \in 1..Latest, s \in Int :
              s \in 0..(batches[b].count - 1) /\ batches[b].done /\ r = Row(b, s)
      BY <1>1
    <2>2. batches[b].oldest <= completed
      BY <2>1 DEF TablesInv, Coverage
    <2>3. r.distance = batches[b].oldest - 1 - s
      BY <1>3, <2>1
    <2>4. /\ completed \in Nat /\ batches[b].newest \in Nat /\ batches[b].count \in Nat
          /\ batches[b].oldest = batches[b].newest + batches[b].count
      BY <1>0, <1>3
    <2> QED BY <2>1, <2>2, <2>3, <2>4
  <1>5. \A d \in 0..(completed - 1) : \E r \in CommittedRows : r.distance = d
    <2> SUFFICES ASSUME NEW d \in 0..(completed - 1)
                 PROVE  \E r \in CommittedRows : r.distance = d
      OBVIOUS
    <2>1. PICK b \in 1..Latest : batches[b].done /\ batches[b].newest <= d /\ d < batches[b].oldest
      BY DEF TablesInv, Ordered
    <2> DEFINE s == batches[b].oldest - 1 - d
    <2>2. s \in 0..(batches[b].count - 1) /\ batches[b].oldest - 1 - s = d
      BY <1>3, <2>1
    <2> HIDE DEF s
    <2>3. Row(b, s).distance = d /\ Row(b, s) \in CommittedRows
      BY <1>1, <1>3, <2>1, <2>2
    <2> QED BY <2>3
  <1>6. {r.distance : r \in CommittedRows} = 0..(completed - 1)
    BY <1>4, <1>5
  <1>7. Cardinality(CommittedRows) = completed
    <2>1. Cardinality(CommittedRows) = Cardinality({r.distance : r \in CommittedRows})
      BY <1>2, RowsCounted
    <2>2. PICK m \in Int : m = completed - 1
      BY <1>0
    <2>3. Cardinality(0..m) = IF 0 > m THEN 0 ELSE m - 0 + 1
      BY FS_Interval
    <2>4. completed \in Nat
      BY <1>0, HistoryAssumption
    <2>5. Cardinality(0..m) = completed
      BY <2>2, <2>3, <2>4
    <2>6. {r.distance : r \in CommittedRows} = 0..m
      BY <1>6, <2>2
    <2> QED BY <2>1, <2>5, <2>6
  <1> QED BY <1>1, <1>2, <1>6, <1>7

\* The others are the first rows of the pending batch.
LEMMA SealedCount ==
    ASSUME TypeOK, TablesInv
    PROVE  /\ Cardinality(SealedRows) = completed + Checkpointed
           /\ Checkpointed \in Nat /\ completed \in Nat /\ IsFiniteSet(SealedRows)
           /\ HasPending => \A n \in 0..batches[Latest].count :
                               SealedTo(Latest, n) => Checkpointed = n
  <1>0. /\ batches \in Seq(BatchSet) /\ Latest \in Nat /\ completed \in 0..HistoryPairs
        /\ completed \in Nat
    BY PendingLast, HistoryAssumption DEF TablesInv, TypeOK
  <1>1. CASE ~HasPending
    <2>1. SealedRows \subseteq CommittedRows
      <3> SUFFICES ASSUME NEW r \in SealedRows PROVE r \in CommittedRows
        OBVIOUS
      <3>1. PICK b \in 1..Latest, s \in Int :
              s \in 0..(batches[b].count - 1) /\ r = Row(b, s)
        BY <1>0, SealedIs DEF Row
      <3>2. batches[b].done
        BY <1>1 DEF HasPending, PendingBatches
      <3> QED BY <3>1, <3>2, CommittedIs
    <2>2. SealedRows = CommittedRows
      BY <2>1, CommittedIs
    <2>3. Checkpointed = 0
      BY <1>1 DEF Checkpointed
    <2>4. Cardinality(SealedRows) = completed
      BY <2>2, CommittedIs
    <2>5. IsFiniteSet(SealedRows)
      BY RowsCounted
    <2>6. completed + 0 = completed
      BY <1>0
    <2> QED BY <1>0, <1>1, <2>3, <2>4, <2>5, <2>6
  <1>2. CASE HasPending
    <2>1. PICK L \in 1..Latest : L = Latest /\ Pending = L /\ ~batches[L].done
      BY <1>0, <1>2, PendingLast
    <2>2. PICK n \in 0..batches[L].count : SealedTo(L, n)
      BY DEF TablesInv, Sealing
    <2>3. /\ batches[L].count \in Nat /\ batches[L].oldest \in Nat
          /\ DOMAIN batches[L].rows = 0..(batches[L].count - 1)
          /\ completed = batches[L].newest /\ batches[L].oldest = completed + batches[L].count
          /\ \A s \in 0..(batches[L].count - 1) : Row(L, s).distance = batches[L].oldest - 1 - s
      <3>1. /\ batches[L].count \in Nat /\ batches[L].rows \in [0..(batches[L].count - 1) -> RowSet]
            /\ batches[L].newest \in 0..HistoryPairs /\ batches[L].oldest \in 0..HistoryPairs
        BY <1>0, BatchColumns
      <3>2. /\ batches[L].oldest = batches[L].newest + batches[L].count
            /\ \A s \in 0..(batches[L].count - 1) : Row(L, s).distance = batches[L].oldest - 1 - s
        BY DEF TablesInv, RowsTile
      <3>3. completed = batches[L].newest
        BY <2>1 DEF TablesInv, Coverage
      <3>4. batches[L].oldest \in Nat
        BY <3>1, HistoryAssumption
      <3> QED BY <3>1, <3>2, <3>3, <3>4
    <2>4. ASSUME NEW m \in 0..batches[L].count, SealedTo(L, m)
          PROVE  Checkpointed = m
      <3>1. {s \in DOMAIN batches[L].rows : Row(L, s).outcome # Open} = 0..(m - 1)
        BY <2>3, <2>4 DEF SealedTo
      <3>2. PICK k \in Int : k = m - 1
        BY <2>3
      <3>3. Cardinality(0..k) = IF 0 > k THEN 0 ELSE k - 0 + 1
        BY FS_Interval
      <3>4. Checkpointed = Cardinality(0..k)
        BY <1>2, <2>1, <3>1, <3>2 DEF Checkpointed
      <3> QED BY <2>3, <3>2, <3>3, <3>4
    <2> DEFINE D == {r.distance : r \in SealedRows}
               low == batches[L].oldest - n
               high == batches[L].oldest - 1
    <2>5. low \in Int /\ high \in Int /\ low >= completed /\ high - low + 1 = n /\ n \in Nat
      <3>1. /\ batches[L].count \in Nat /\ batches[L].oldest \in Nat /\ completed \in Nat
            /\ batches[L].oldest = completed + batches[L].count
        BY <1>0, <2>3
      <3>2. n \in Nat /\ n <= batches[L].count
        BY <3>1
      <3> QED BY <3>1, <3>2
    <2>6. D = 0..(completed - 1) \cup low..high
      <3>1. ASSUME NEW r \in SealedRows
            PROVE  r.distance \in 0..(completed - 1) \cup low..high
        <4>1. PICK b \in 1..Latest, s \in Int :
              s \in 0..(batches[b].count - 1) /\ r = Row(b, s) /\ r.outcome # Open
          BY <1>0, SealedIs DEF Row
        <4>2. CASE batches[b].done
          <5>1. r \in CommittedRows
            BY <4>1, <4>2, CommittedIs
          <5> QED BY <5>1, CommittedIs
        <4>3. CASE ~batches[b].done
          <5>1. b = L
            BY <2>1, <4>3, <1>0 DEF TablesInv, Coverage
          <5>2. s < n
            BY <2>2, <4>1, <5>1 DEF SealedTo
          <5> QED BY <2>3, <4>1, <5>1, <5>2
        <4> QED BY <4>2, <4>3
      <3>2. ASSUME NEW d \in 0..(completed - 1) PROVE d \in D
        <4>1. PICK r \in CommittedRows : r.distance = d
          <5>1. d \in {r.distance : r \in CommittedRows}
            BY CommittedIs
          <5> QED BY <5>1
        <4> QED BY <4>1, CommittedIs
      <3>3. ASSUME NEW d \in low..high PROVE d \in D
        <4>1. PICK s \in 0..(batches[L].count - 1) : s = batches[L].oldest - 1 - d /\ s < n
          <5> DEFINE t == batches[L].oldest - 1 - d
          <5>1. t \in 0..(batches[L].count - 1) /\ t < n
            BY <2>2, <2>3
          <5> QED BY <5>1
        <4>2. Row(L, s).distance = d
          <5>1. Row(L, s).distance = batches[L].oldest - 1 - s
            BY <2>3
          <5> QED BY <2>3, <4>1, <5>1
        <4>4. Row(L, s).outcome # Open
          BY <2>2, <4>1 DEF SealedTo
        <4>3. Row(L, s) \in SealedRows
          BY <1>0, <4>4, SealedIs DEF Row
        <4> QED BY <4>2, <4>3
      <3>4. D = {r.distance : r \in SealedRows}
        OBVIOUS
      <3> HIDE DEF low, high, D
      <3> QED BY <3>1, <3>2, <3>3, <3>4
    <2>7. Cardinality(SealedRows) = Cardinality(D) /\ IsFiniteSet(SealedRows)
      BY RowsCounted
    <2> HIDE DEF D, low, high
    <2>8. Cardinality(D) = completed + n
      <3>1. PICK m \in Int : m = completed - 1
        BY <1>0
      <3>2. /\ IsFiniteSet(0..m) /\ Cardinality(0..m) = completed
        <4>1. IsFiniteSet(0..m) /\ Cardinality(0..m) = IF 0 > m THEN 0 ELSE m - 0 + 1
          BY FS_Interval
        <4> QED BY <1>0, <3>1, <4>1
      <3>3. /\ IsFiniteSet(low..high) /\ Cardinality(low..high) = n
        <4>1. IsFiniteSet(low..high)
              /\ Cardinality(low..high) = IF low > high THEN 0 ELSE high - low + 1
          BY <2>5, FS_Interval
        <4> QED BY <2>5, <4>1
      <3>4. (0..m) \cap (low..high) = {}
        BY <1>0, <2>5, <3>1
      <3>5. Cardinality((0..m) \cup (low..high))
              = Cardinality(0..m) + Cardinality(low..high) - Cardinality((0..m) \cap (low..high))
        BY <3>2, <3>3, FS_Union
      <3>6. Cardinality((0..m) \cap (low..high)) = 0
        BY <3>4, FS_EmptySet
      <3>7. D = (0..m) \cup (low..high)
        BY <2>6, <3>1
      <3> QED BY <1>0, <2>5, <3>2, <3>3, <3>5, <3>6, <3>7
    <2>9. Checkpointed = n
      BY <2>2, <2>4
    <2> QED BY <1>0, <1>2, <2>1, <2>4, <2>5, <2>7, <2>8, <2>9
  <1> QED BY <1>1, <1>2

\* Nobody who looks at the tables is refused, and a report is whole.
LEMMA ReportsFollow ==
    ASSUME IInv
    PROVE  /\ ~StatusRefuses /\ ~ReportRefuses
           /\ ReportsAreWhole
  <1>0. TypeOK /\ TablesInv /\ ChecksPass
    BY ChecksFollow DEF IInv
  <1>1. ~StatusRefuses
    BY <1>0, SealedCount DEF StatusRefuses, ChecksPass
  <1>2. ~ReportRefuses
    BY <1>0, CommittedIs DEF ReportRefuses
  <1>3. /\ completed \in Nat
        /\ \A r \in CommittedRows : r.distance \in 0..(completed - 1)
        /\ \A d \in 0..(completed - 1) : \E r \in CommittedRows : r.distance = d
    <2>1. completed \in Nat /\ {r.distance : r \in CommittedRows} = 0..(completed - 1)
      BY <1>0, CommittedIs, SealedCount
    <2> QED BY <2>1
  <1>4. Report.numbers = 1..completed
    <2>1. Report.numbers = {r.distance + 1 : r \in CommittedRows}
      BY DEF Report
    <2>2. \A n \in 1..completed : \E r \in CommittedRows : n = r.distance + 1
      <3> SUFFICES ASSUME NEW n \in 1..completed PROVE \E r \in CommittedRows : n = r.distance + 1
        OBVIOUS
      <3>1. n - 1 \in 0..(completed - 1) /\ n = (n - 1) + 1
        BY <1>3
      <3> QED BY <1>3, <3>1
    <2> QED BY <1>3, <2>1, <2>2
  <1>5. Report.compared + Report.failed = completed
    <2> DEFINE A == {r \in CommittedRows : r.outcome \notin FailedOutcomes}
               B == {r \in CommittedRows : r.outcome \in FailedOutcomes}
    <2>1. A \in SUBSET SealedRows /\ B \in SUBSET SealedRows
      BY <1>0, CommittedIs
    <2>2. IsFiniteSet(A) /\ IsFiniteSet(B) /\ Cardinality(A) \in Nat /\ Cardinality(B) \in Nat
      BY <1>0, <2>1, RowsCounted
    <2>3. A \cup B = CommittedRows /\ A \cap B = {}
      OBVIOUS
    <2>4. Report.compared = Cardinality(A) /\ Report.failed = Cardinality(B)
      BY DEF Report, Failed
    <2> HIDE DEF A, B
    <2>5. Cardinality(A \cup B) = Cardinality(A) + Cardinality(B) - Cardinality(A \cap B)
      BY <2>2, FS_Union
    <2>6. Cardinality(A \cap B) = 0 /\ Cardinality(A \cup B) = completed
      BY <1>0, <2>3, FS_EmptySet, CommittedIs
    <2> QED BY <2>2, <2>4, <2>5, <2>6
  <1>6. /\ Report.covered = completed /\ Report.total = HistoryPairs
        /\ Report.exhausted = exhausted
    BY DEF Report
  <1>7. exhausted <=> completed = HistoryPairs
    BY <1>0 DEF TablesInv, Coverage
  <1> QED BY <1>1, <1>2, <1>4, <1>5, <1>6, <1>7 DEF ReportsAreWhole

-----------------------------------------------------------------------------
(* What the steps of a run do to the rows with an outcome.                  *)

LEMMA SealedIsNext ==
    batches' \in Seq(BatchSet) =>
        \A r : r \in SealedRows' <=>
            \E b \in 1..Latest' : \E s \in 0..(batches'[b].count - 1) :
                r = batches'[b].rows[s] /\ r.outcome # Open
  <1>1. (batches \in Seq(BatchSet) =>
            \A r : r \in SealedRows <=>
                \E b \in 1..Latest : \E s \in 0..(batches[b].count - 1) :
                    r = batches[b].rows[s] /\ r.outcome # Open)'
    BY SealedIs, PTL
  <1> QED BY Zenon, <1>1

\* A commit changes no row.
LEMMA CompleteSealed ==
    ASSUME batches \in Seq(BatchSet), batches' \in Seq(BatchSet), Latest > 0, Completes
    PROVE  SealedRows' = SealedRows
  <1>1. /\ Latest' = Latest
        /\ \A b \in 1..Latest : /\ batches'[b].count = batches[b].count
                                /\ batches'[b].rows = batches[b].rows
    BY CompleteEffect DEF SamePlan
  <1>2. ASSUME NEW r PROVE r \in SealedRows' <=> r \in SealedRows
    <2>1. r \in SealedRows' <=> \E b \in 1..Latest : \E s \in 0..(batches'[b].count - 1) :
                                    r = batches'[b].rows[s] /\ r.outcome # Open
      BY <1>1, SealedIsNext
    <2>2. r \in SealedRows <=> \E b \in 1..Latest : \E s \in 0..(batches[b].count - 1) :
                                    r = batches[b].rows[s] /\ r.outcome # Open
      BY SealedIs
    <2> QED BY <1>1, <2>1, <2>2
  <1> QED BY <1>2

\* A recorded outcome adds its row.
LEMMA RecordSealed ==
    ASSUME TablesInv, TablesInv', HasPending,
           NEW s \in 0..(batches[Latest].count - 1), SealedTo(Latest, s),
           NEW o \in Outcomes, NEW i \in Nat, Records(s, o, i)
    PROVE  \E r : /\ r \notin SealedRows /\ SealedRows' = SealedRows \cup {r}
                  /\ r.outcome = o /\ r = batches'[Latest].rows[s]
  <1>0. /\ batches \in Seq(BatchSet) /\ batches' \in Seq(BatchSet) /\ Latest > 0
        /\ Latest \in 1..Latest
    BY PendingLast DEF TablesInv
  <1>1. PICK L \in 1..Latest : L = Latest
    BY <1>0
  <1>2. /\ Latest' = Latest
        /\ \A b \in 1..Latest : batches'[b].count = batches[b].count
        /\ \A b \in 1..Latest : \A t \in 0..(batches[b].count - 1) :
              b # L \/ t # s => batches'[b].rows[t] = batches[b].rows[t]
        /\ batches'[L].rows[s] = [distance |-> Row(L, s).distance, outcome |-> o, by |-> i]
    <2>1. /\ Latest' = Latest
          /\ \A b \in 1..Latest : SamePlan(b)
          /\ \A b \in 1..Latest : \A t \in 0..(batches[b].count - 1) :
                b # Latest \/ t # s => batches'[b].rows[t] = batches[b].rows[t]
          /\ batches'[Latest].rows[s] =
                [distance |-> Row(Latest, s).distance, outcome |-> o, by |-> i]
      BY <1>0, RecordEffect
    <2> QED BY <1>1, <2>1 DEF SamePlan
  <1>3. PICK r : r = batches'[L].rows[s]
    OBVIOUS
  <1>4. r.outcome = o /\ r.distance = Row(L, s).distance /\ r.outcome # Open
    BY <1>2, <1>3, OutcomeAssumption
  <1>5. Row(L, s).outcome = Open /\ s \in 0..(batches[L].count - 1)
    <2>1. batches[L].count \in Nat
      BY <1>0, BatchColumns
    <2> QED BY <1>1, <2>1 DEF SealedTo
  <1>6. \A q : q \in SealedRows' <=> \E b \in 1..Latest : \E t \in 0..(batches[b].count - 1) :
                                    q = batches'[b].rows[t] /\ q.outcome # Open
    <2>1. \A q : q \in SealedRows' <=> \E b \in 1..Latest' : \E t \in 0..(batches'[b].count - 1) :
                                     q = batches'[b].rows[t] /\ q.outcome # Open
      BY <1>0, SealedIsNext
    <2>2. Latest' = Latest /\ \A b \in 1..Latest : batches'[b].count = batches[b].count
      BY <1>2
    <2> QED BY <2>1, <2>2
  <1>7. \A q : q \in SealedRows <=> \E b \in 1..Latest : \E t \in 0..(batches[b].count - 1) :
                                    q = batches[b].rows[t] /\ q.outcome # Open
    BY <1>0, SealedIs
  <1>8. r \notin SealedRows
    <2> SUFFICES ASSUME r \in SealedRows PROVE FALSE
      OBVIOUS
    <2>1. PICK b \in 1..Latest, t \in Int :
              t \in 0..(batches[b].count - 1) /\ r = Row(b, t) /\ r.outcome # Open
      BY <1>7 DEF Row
    <2>2. b = L /\ t = s
      BY <1>4, <1>5, <2>1, RowsApart
    <2> QED BY <1>5, <2>1, <2>2
  <1>9. r \in SealedRows'
    BY <1>3, <1>4, <1>5, <1>6
  <1>10. ASSUME NEW q \in SealedRows PROVE q \in SealedRows'
    <2>1. PICK b \in 1..Latest, t \in Int :
              t \in 0..(batches[b].count - 1) /\ q = batches[b].rows[t] /\ q.outcome # Open
      BY <1>7
    <2>2. b # L \/ t # s
      BY <1>5, <2>1 DEF Row
    <2>3. q = batches'[b].rows[t]
      BY <1>2, <2>1, <2>2
    <2> QED BY <1>6, <2>1, <2>3
  <1>11. ASSUME NEW q \in SealedRows', q # r PROVE q \in SealedRows
    <2>1. PICK b \in 1..Latest, t \in Int :
              t \in 0..(batches[b].count - 1) /\ q = batches'[b].rows[t] /\ q.outcome # Open
      BY <1>6
    <2>2. b # L \/ t # s
      BY <1>3, <1>11, <2>1
    <2>3. q = batches[b].rows[t]
      BY <1>2, <2>1, <2>2
    <2> QED BY <1>7, <2>1, <2>3
  <1>12. SealedRows' = SealedRows \cup {r}
    BY <1>9, <1>10, <1>11
  <1> QED BY <1>1, <1>3, <1>4, <1>8, <1>12

LEMMA SealedStep ==
    ASSUME IInv, IInv', NEW p \in Runners, RunStep(p) \/ Crash(p)
    PROVE  /\ ~Publish(p) => SealedRows' = SealedRows
           /\ Publish(p) => \E r : /\ r \notin SealedRows /\ SealedRows' = SealedRows \cup {r}
                                   /\ r.outcome \in Outcomes
                                   /\ r = batches'[Pending].rows[position[p]]
  <1>0. /\ TypeOK /\ TablesInv /\ TablesInv' /\ batches \in Seq(BatchSet)
        /\ batches' \in Seq(BatchSet)
    BY DEF IInv, TablesInv
  <1>k. UNCHANGED tables => SealedRows' = SealedRows
    BY DEF tables, SealedRows, Row, Latest
  <1>1. CASE StartRun(p) \/ OpenDatabase(p) \/ RefuseRequest(p) \/ RefuseTarget(p)
             \/ ResumeBatch(p) \/ BatchExecuted(p) \/ ReachTarget(p) \/ Raise(p)
             \/ FinishFails(p) \/ Unlock(p) \/ BeginInvocation(p) \/ FinishInvocation(p)
             \/ Crash(p)
    <2>1. UNCHANGED tables
      BY <1>1 DEF StartRun, OpenDatabase, RefuseRequest, RefuseTarget, ResumeBatch,
                  BatchExecuted, ReachTarget, Raise, FinishFails, Unlock, BeginInvocation,
                  FinishInvocation, Crash
    <2>2. ~Publish(p)
      <3> SUFFICES ASSUME Publish(p) PROVE FALSE
        OBVIOUS
      <3>1. HasPending /\ Pending = Latest /\ batches[Latest].count \in Nat
        BY Executing DEF Publish, Go
      <3>2. /\ position[p] \in 0..(batches[Latest].count - 1) /\ own[p] \in Nat
            /\ SealedTo(Latest, position[p])
        <4>1. position[p] \in Nat /\ own[p] \in Nat
          BY DEF IInv, TypeOK
        <4>2. pc[p] = "execute" /\ position[p] < batches[Latest].count
          BY <3>1 DEF Publish, Go
        <4>3. SealedTo(Latest, position[p])
          BY <4>2 DEF IInv, Standing
        <4> QED BY <3>1, <4>1, <4>2, <4>3
      <3>3. PICK o \in Outcomes : Records(position[p], o, own[p])
        BY <3>1 DEF Publish, Records
      <3>4. \E r : r \notin SealedRows /\ SealedRows' = SealedRows \cup {r}
        BY <1>0, <3>1, <3>2, <3>3, RecordSealed
      <3> QED BY <1>k, <2>1, <3>4
    <2> QED BY <1>k, <2>1, <2>2
  <1>2. CASE CreateDatabase(p)
    <2>1. ~Publish(p)
      BY <1>2 DEF CreateDatabase, Publish, Go
    <2>2. PICK asked \in Nat \ {0} : asked <= BatchLimit /\ Freezes(asked)
      BY <1>2, CreateFreezes
    <2>3. completed = 0 /\ boundary = completed
      <3>1. ~created
        BY <1>2 DEF CreateDatabase
      <3>2. Latest \in Nat /\ (created <=> Latest > 0)
        BY <1>0, PendingLast DEF TablesInv, Coverage
      <3> QED BY <1>0, <3>1, <3>2 DEF TablesInv, Coverage
    <2>4. SelectedPairs(boundary, asked) \in Nat
      BY <1>0, <2>2, <2>3, HistoryAssumption, BatchOf
    <2> QED BY <1>0, <2>1, <2>2, <2>4, FreezeSealed
  <1>3. CASE AddBatch(p)
    <2>1. ~Publish(p)
      BY <1>3 DEF AddBatch, Publish, Go
    <2>2. /\ completed < HistoryPairs /\ Asked(p) \in Nat \ {0} /\ Asked(p) <= BatchLimit
          /\ Freezes(Asked(p))
      BY <1>3, AddFreezes
    <2>3. boundary = completed
      BY <1>0 DEF TablesInv, Coverage
    <2>4. SelectedPairs(boundary, Asked(p)) \in Nat
      BY <1>0, <2>2, <2>3, HistoryAssumption, BatchOf
    <2> QED BY <1>0, <2>1, <2>2, <2>4, FreezeSealed
  <1>4. CASE CommitBatch(p)
    <2>1. ~Publish(p) /\ pc[p] = "commit"
      BY <1>4 DEF CommitBatch, Publish, Go
    <2>2. Pending = Latest /\ Latest > 0
      BY <2>1, Executing
    <2>3. Completes
      BY <1>4, <2>2 DEF CommitBatch, Completes
    <2> QED BY <1>0, <2>1, <2>2, <2>3, CompleteSealed
  <1>5. CASE Publish(p)
    <2>1. HasPending /\ Pending = Latest /\ batches[Latest].count \in Nat
      BY <1>5, Executing DEF Publish, Go
    <2>2. PICK s \in 0..(batches[Latest].count - 1) : s = position[p] /\ SealedTo(Latest, s)
      <3>1. position[p] \in Nat
        BY DEF IInv, TypeOK
      <3>2. pc[p] = "execute" /\ position[p] < batches[Latest].count
        BY <1>5, <2>1 DEF Publish, Go
      <3>3. SealedTo(Latest, position[p])
        BY <3>2 DEF IInv, Standing
      <3> QED BY <2>1, <3>1, <3>2, <3>3
    <2>3. PICK o \in Outcomes : Records(s, o, own[p])
      BY <1>5, <2>1, <2>2 DEF Publish, Records
    <2>4. own[p] \in Nat
      BY DEF IInv, TypeOK
    <2>5. \E r : /\ r \notin SealedRows /\ SealedRows' = SealedRows \cup {r}
                 /\ r.outcome = o /\ r = batches'[Latest].rows[s]
      BY <1>0, <2>1, <2>2, <2>3, <2>4, RecordSealed
    <2> QED BY <1>5, <2>1, <2>2, <2>5
  <1> QED BY <1>1, <1>2, <1>3, <1>4, <1>5 DEF RunStep

-----------------------------------------------------------------------------
(* Pages.                                                                   *)

\* A finite set of pairs has a first one in either order, and a last one.
LEMMA FirstOf ==
    ASSUME NEW o \in BOOLEAN, NEW S \in SUBSET Nat, IsFiniteSet(S), S # {}
    PROVE  \E m \in S : \A e \in S : ~Before(o, e, m)
  <1> DEFINE B(d) == {e \in S : Before(o, e, d)}
             T == {B(d) : d \in S}
  <1>1. T \subseteq FiniteSubsetsOf(S) /\ T # {}
    <2>1. \A d \in S : B(d) \in SUBSET S /\ IsFiniteSet(B(d))
      BY FS_Subset
    <2> HIDE DEF B
    <2> QED BY <2>1 DEF FiniteSubsetsOf
  <1>2. PICK x \in T : \A y \in T : ~ (<<y, x>> \in StrictSubsetOrdering(S))
    <2> HIDE DEF T
    <2> QED BY <1>1, FS_StrictSubsetOrderingWellFounded, WFMin
  <1>3. PICK m \in S : x = B(m)
    OBVIOUS
  <1>4. ASSUME NEW e \in S, Before(o, e, m) PROVE FALSE
    <2>0. e \in Nat /\ m \in Nat
      OBVIOUS
    <2>1. e \in B(m) /\ e \notin B(e)
      BY <1>4, <2>0 DEF Before
    <2>2. B(e) \subseteq B(m)
      <3> SUFFICES ASSUME NEW d \in S, Before(o, d, e) PROVE Before(o, d, m)
        OBVIOUS
      <3>1. d \in Nat
        OBVIOUS
      <3> QED BY <1>4, <2>0, <3>1 DEF Before
    <2>3. B(e) \in T /\ B(e) \in SUBSET S /\ B(m) \in SUBSET S
      OBVIOUS
    <2> HIDE DEF B, T
    <2>4. <<B(e), B(m)>> \in StrictSubsetOrdering(S)
      BY <2>1, <2>2, <2>3 DEF StrictSubsetOrdering
    <2> QED BY <1>2, <1>3, <2>3, <2>4
  <1> QED BY <1>4

LEMMA LastOf ==
    ASSUME NEW o \in BOOLEAN, NEW S \in SUBSET Nat, IsFiniteSet(S), S # {}
    PROVE  \E m \in S : \A e \in S \ {m} : Before(o, e, m)
  <1>1. PICK m \in S : \A e \in S : ~Before(~o, e, m)
    <2>1. PICK u \in BOOLEAN : u = ~o
      OBVIOUS
    <2>2. \E m \in S : \A e \in S : ~Before(u, e, m)
      BY FirstOf
    <2> QED BY <2>1, <2>2
  <1>2. \A e \in S \ {m} : Before(o, e, m)
    <2> SUFFICES ASSUME NEW e \in S, e # m PROVE Before(o, e, m)
      OBVIOUS
    <2>1. e \in Nat /\ m \in Nat
      OBVIOUS
    <2> QED BY <1>1, <2>1 DEF Before
  <1> QED BY <1>2

\* A page holds the first rows, all of them when there is no number to go on
\* after, and otherwise those up to that number.
PageEnds(o, rows, page, next) ==
    /\ page \subseteq rows /\ next \in Nat
    /\ next = 0 => page = rows
    /\ next > 0 => /\ \A d \in page : ~Before(o, next - 1, d)
                   /\ \A d \in rows \ page : Before(o, next - 1, d)
                   /\ next - 1 \in page

LEMMA PageIs ==
    ASSUME NEW f, NEW o \in BOOLEAN, NEW rows \in SUBSET Nat, IsFiniteSet(rows)
    PROVE  PageEnds(o, rows, Page(f, o, rows), NextAfter(o, rows, Page(f, o, rows)))
  <1> DEFINE B(d) == {e \in rows : Before(o, e, d)}
             page == Page(f, o, rows)
             next == NextAfter(o, rows, page)
             Claim == PageEnds(o, rows, page, next)
  <1> SUFFICES Claim
    OBVIOUS
  <1>1. page = {d \in rows : Cardinality(B(d)) < Limit} /\ page \in SUBSET rows
    BY DEF Page
  <1>2. \A d \in rows : B(d) \in SUBSET rows /\ IsFiniteSet(B(d)) /\ Cardinality(B(d)) \in Nat
    BY FS_Subset, FS_CardinalityType
  <1>3. Cardinality(rows) \in Nat /\ Limit \in Nat /\ Limit > 0
    BY FS_CardinalityType, LimitAssumption
  <1>4. CASE Cardinality(rows) <= Limit
    <2>1. next = 0
      BY <1>4 DEF NextAfter
    <2>2. ASSUME NEW d \in rows PROVE Cardinality(B(d)) < Limit
      <3>1. B(d) \in SUBSET (rows \ {d})
        BY DEF Before
      <3>2. IsFiniteSet(rows \ {d}) /\ Cardinality(rows \ {d}) = Cardinality(rows) - 1
        BY FS_RemoveElement
      <3> HIDE DEF B
      <3>3. Cardinality(B(d)) <= Cardinality(rows \ {d})
        BY <3>1, <3>2, FS_Subset
      <3> QED BY <1>2, <1>3, <1>4, <3>2, <3>3
    <2>3. page = rows
      BY <1>1, <2>2
    <2> HIDE DEF page, next
    <2> QED BY <1>1, <2>1, <2>3 DEF PageEnds
  <1>5. CASE ~(Cardinality(rows) <= Limit)
    <2>1. rows # {}
      BY <1>3, <1>5, FS_EmptySet
    <2>2. page # {}
      <3>1. PICK m \in rows : \A e \in rows : ~Before(o, e, m)
        BY <2>1, FirstOf
      <3>2. B(m) = {}
        BY <3>1
      <3> HIDE DEF B
      <3>3. Cardinality(B(m)) = 0
        BY <3>2, FS_EmptySet
      <3> QED BY <1>1, <1>3, <3>3
    <2> HIDE DEF page
    <2>3. IsFiniteSet(page) /\ page \in SUBSET Nat
      BY <1>1, FS_Subset
    <2>4. \E m \in page : \A e \in page \ {m} : Before(o, e, m)
      BY <2>2, <2>3, LastOf
    <2> DEFINE last == CHOOSE d \in page : \A e \in page \ {d} : Before(o, e, d)
    <2>5. last \in page /\ \A e \in page \ {last} : Before(o, e, last)
      BY <2>4
    <2>6. next = 1 + last
      BY <1>5 DEF NextAfter
    <2> HIDE DEF last, next
    <2>7. last \in rows /\ last \in Nat /\ next \in Nat /\ next > 0 /\ next - 1 = last
      BY <1>1, <2>5, <2>6
    <2>8. ASSUME NEW d \in page PROVE ~Before(o, last, d)
      <3>1. d \in Nat /\ (d = last \/ Before(o, d, last))
        BY <2>3, <2>5
      <3> QED BY <2>7, <3>1 DEF Before
    <2>9. ASSUME NEW d \in rows \ page PROVE Before(o, last, d)
      <3> SUFFICES ASSUME ~Before(o, last, d) PROVE FALSE
        OBVIOUS
      <3>1. d \in Nat /\ d # last
        BY <2>5
      <3>2. Before(o, d, last)
        BY <2>7, <3>1 DEF Before
      <3>3. B(d) \in SUBSET B(last)
        <4> SUFFICES ASSUME NEW e \in rows, Before(o, e, d) PROVE Before(o, e, last)
          OBVIOUS
        <4>1. e \in Nat
          OBVIOUS
        <4> QED BY <2>7, <3>1, <3>2, <4>1 DEF Before
      <3> HIDE DEF B
      <3>4. Cardinality(B(d)) <= Cardinality(B(last))
        BY <1>2, <2>7, <3>3, FS_Subset
      <3>5. Cardinality(B(last)) < Limit /\ ~(Cardinality(B(d)) < Limit)
        BY <1>1, <2>5
      <3> QED BY <1>2, <1>3, <2>7, <3>4, <3>5
    <2> QED BY <1>1, <2>5, <2>7, <2>8, <2>9 DEF PageEnds
  <1> QED BY <1>4, <1>5

-----------------------------------------------------------------------------
(* Listings and displays.                                                   *)

\* What a listing has shown, and what it owes.
Shown == UNION {listing.pages[i] : i \in DOMAIN listing.pages}
InOrder == \A i, j \in DOMAIN listing.pages : i < j =>
              \A d \in listing.pages[i], e \in listing.pages[j] :
                  Before(listing.oldestFirst, d, e)

\* Everything shown has an outcome.  As long as there is more, what is shown
\* lies up to the last number and what is owed and not shown beyond it.
ListingInv ==
    listing # NoListing =>
        /\ listing \in [filter : {"any", "failed"}, oldestFirst : BOOLEAN, after : Nat,
                        pages : Seq(SUBSET Nat), more : BOOLEAN, owed : SUBSET Nat]
        /\ listing.owed \subseteq Selected(listing.filter)
        /\ Shown \subseteq Selected(listing.filter)
        /\ InOrder
        /\ listing.more =>
             /\ \A d \in Shown : /\ listing.after > 0
                                 /\ ~Before(listing.oldestFirst, listing.after - 1, d)
             /\ \A d \in listing.owed \ Shown :
                   listing.after > 0 => Before(listing.oldestFirst, listing.after - 1, d)
        /\ ~listing.more => listing.owed \subseteq Shown

\* A run shows its counts from the moment its invocation is recorded to its end.
\* The pair on its way to the display is the last one that got an outcome.
Failures(pair) == IF pair.outcome \in FailedOutcomes THEN 1 ELSE 0
RightCounts ==
    /\ display.published = Blank => /\ display.covered = Cardinality(SealedRows)
                                   /\ display.failed = Failed(SealedRows)
    /\ display.published # Blank =>
         /\ display.covered + 1 = Cardinality(SealedRows)
         /\ display.published.covered = Cardinality(SealedRows)
         /\ display.failed + Failures(display.published) = Failed(SealedRows)
DisplayInv ==
    /\ \A p \in Runners : pc[p] \in Recorded => display # Blank
    /\ display # Blank => /\ \E p \in Runners : pc[p] \in Recorded \cup {"unlock"}
                          /\ display \in Displays
                          /\ RightCounts

\* A listing that rests stays right while pairs get their outcomes.
LEMMA ListingKept ==
    ASSUME ListingInv, listing' = listing, SealedRows \subseteq SealedRows'
    PROVE  ListingInv'
  <1> SUFFICES ASSUME listing # NoListing
               PROVE  (/\ listing \in [filter : {"any", "failed"}, oldestFirst : BOOLEAN,
                                       after : Nat, pages : Seq(SUBSET Nat), more : BOOLEAN,
                                       owed : SUBSET Nat]
                       /\ listing.owed \subseteq Selected(listing.filter)
                       /\ Shown \subseteq Selected(listing.filter)
                       /\ InOrder
                       /\ listing.more =>
                            /\ \A d \in Shown :
                                  /\ listing.after > 0
                                  /\ ~Before(listing.oldestFirst, listing.after - 1, d)
                            /\ \A d \in listing.owed \ Shown :
                                  listing.after > 0 =>
                                      Before(listing.oldestFirst, listing.after - 1, d)
                       /\ ~listing.more => listing.owed \subseteq Shown)'
    BY DEF ListingInv
  <1>1. Shown' = Shown
    BY DEF Shown
  <1>2. Selected(listing.filter) \subseteq Selected(listing.filter)'
    BY DEF Selected
  <1>3. InOrder'
    BY DEF ListingInv, InOrder, Before
  <1> QED BY <1>1, <1>2, <1>3 DEF ListingInv, Before

\* So does one that shows its next page.
LEMMA ListingGoesOn ==
    ASSUME IInv, ListingInv, ListPairs
    PROVE  ListingInv'
  <1> DEFINE filter == listing.filter
             order == listing.oldestFirst
             all == Selected(filter)
             rows == Beyond(filter, order, listing.after, listing.pages)
             page == Page(filter, order, rows)
             next == NextAfter(order, rows, page)
             pages == listing.pages
  <1>0. listing # NoListing /\ listing.more
    BY DEF ListPairs
  <1>1. /\ listing \in [filter : {"any", "failed"}, oldestFirst : BOOLEAN, after : Nat,
                        pages : Seq(SUBSET Nat), more : BOOLEAN, owed : SUBSET Nat]
        /\ listing.owed \subseteq all /\ Shown \subseteq all /\ InOrder
    BY <1>0 DEF ListingInv
  <1>2. /\ \A d \in Shown : listing.after > 0 /\ ~Before(order, listing.after - 1, d)
        /\ \A d \in listing.owed \ Shown :
              listing.after > 0 => Before(order, listing.after - 1, d)
    BY <1>0 DEF ListingInv
  <1>3. order \in BOOLEAN /\ listing.after \in Nat /\ pages \in Seq(SUBSET Nat)
        /\ listing.owed \in SUBSET Nat
    BY <1>1
  <1>4. all \in SUBSET Nat /\ IsFiniteSet(all)
    <2>1. TablesInv
      BY DEF IInv
    <2> DEFINE S == {q \in SealedRows : filter = "failed" => q.outcome \in FailedOutcomes}
    <2>2. S \in SUBSET SealedRows
      OBVIOUS
    <2>3. \A r \in S : r.distance \in Nat
      BY <2>1, SealedColumns, HistoryAssumption
    <2>4. all = {r.distance : r \in S}
      BY DEF Selected
    <2> HIDE DEF S
    <2>5. IsFiniteSet({r.distance : r \in S})
      BY <2>1, <2>2, RowsCounted
    <2> QED BY <2>3, <2>4, <2>5
  <1>5. rows = {d \in all : listing.after > 0 => Before(order, listing.after - 1, d)}
    BY DEF Beyond
  <1>6. rows \in SUBSET Nat /\ IsFiniteSet(rows)
    BY <1>4, <1>5, FS_Subset
  <1>7. /\ page \subseteq rows /\ next \in Nat
        /\ next = 0 => page = rows
        /\ next > 0 => /\ \A d \in page : ~Before(order, next - 1, d)
                       /\ \A d \in rows \ page : Before(order, next - 1, d)
                       /\ next - 1 \in page
    <2> HIDE DEF filter, order, rows
    <2>1. PageEnds(order, rows, page, next)
      BY <1>3, <1>6, PageIs
    <2> HIDE DEF page, next
    <2> QED BY <2>1 DEF PageEnds
  <1>8. /\ listing' = [listing EXCEPT !.pages = Append(pages, page), !.after = next,
                                      !.more = next > 0]
        /\ SealedRows' = SealedRows
    BY DEF ListPairs, vars, tables, SealedRows, Row, Latest
  <1> HIDE DEF page, next, rows
  <1>9. /\ listing'.filter = filter /\ listing'.oldestFirst = order
        /\ listing'.after = next /\ listing'.more = (next > 0)
        /\ listing'.pages = Append(pages, page) /\ listing'.owed = listing.owed
        /\ listing' \in [filter : {"any", "failed"}, oldestFirst : BOOLEAN, after : Nat,
                        pages : Seq(SUBSET Nat), more : BOOLEAN, owed : SUBSET Nat]
    <2>1. page \in SUBSET Nat /\ next \in Nat /\ (next > 0) \in BOOLEAN
      BY <1>6, <1>7
    <2>2. Append(pages, page) \in Seq(SUBSET Nat)
      BY <1>3, <2>1
    <2> QED BY <1>1, <1>7, <1>8, <2>1, <2>2
  <1>10. Selected(listing.filter)' = all
    BY <1>8, <1>9 DEF Selected
  <1> HIDE DEF all
  <1>11. PICK n \in Nat : /\ n = Len(pages) /\ DOMAIN pages = 1..n
                          /\ DOMAIN listing'.pages = 1..(n + 1)
                          /\ listing'.pages[n + 1] = page
                          /\ \A i \in 1..n : listing'.pages[i] = pages[i]
    BY <1>3, <1>9
  <1>12. Shown' = Shown \cup page
    <2>1. /\ Shown = UNION {pages[i] : i \in 1..n}
          /\ Shown' = UNION {listing'.pages[i] : i \in 1..(n + 1)}
      BY <1>11 DEF Shown
    <2>2. \A i \in 1..(n + 1) : i = n + 1 \/ i \in 1..n
      OBVIOUS
    <2>3. \A i \in 1..n : i \in 1..(n + 1)
      OBVIOUS
    <2>4. n + 1 \in 1..(n + 1)
      OBVIOUS
    <2> QED BY <1>11, <2>1, <2>2, <2>3, <2>4
  <1>13. \A i \in 1..n : pages[i] \subseteq Shown
    BY <1>11 DEF Shown
  <1>14. ASSUME NEW d \in Shown, NEW e \in rows PROVE Before(order, d, e)
    <2>1. d \in Nat /\ e \in Nat
      BY <1>1, <1>4, <1>6
    <2>2. listing.after > 0 /\ ~Before(order, listing.after - 1, d)
      BY <1>2
    <2>3. Before(order, listing.after - 1, e)
      BY <1>5, <2>2
    <2> QED BY <1>3, <2>1, <2>2, <2>3 DEF Before
  <1>15. InOrder'
    <2> SUFFICES ASSUME NEW i \in 1..(n + 1), NEW j \in 1..(n + 1), i < j,
                        NEW d \in listing'.pages[i], NEW e \in listing'.pages[j]
                 PROVE  Before(order, d, e)
      BY <1>9, <1>11 DEF InOrder
    <2>1. i \in 1..n
      OBVIOUS
    <2>2. d \in pages[i] /\ d \in Shown
      BY <1>11, <1>13, <2>1
    <2>3. CASE j = n + 1
      BY <1>7, <1>11, <1>14, <2>2, <2>3
    <2>4. CASE j # n + 1
      <3>1. j \in 1..n
        BY <2>4
      <3>2. e \in pages[j]
        BY <1>11, <3>1
      <3> QED BY <1>1, <1>11, <2>1, <2>2, <3>1, <3>2 DEF InOrder
    <2> QED BY <2>3, <2>4
  <1>16. Shown' \subseteq all
    BY <1>1, <1>5, <1>7, <1>12
  <1>17. ASSUME NEW d \in listing.owed \ Shown' PROVE d \in rows \ page
    BY <1>1, <1>2, <1>5, <1>12
  <1>18. ASSUME next > 0, NEW d \in Shown' PROVE ~Before(order, next - 1, d)
    <2>1. CASE d \in page
      BY <1>7, <1>18, <2>1
    <2>2. CASE d \in Shown
      <3>1. next - 1 \in rows /\ next - 1 \in Nat /\ d \in Nat
        BY <1>1, <1>4, <1>6, <1>7, <1>18, <2>2
      <3>2. Before(order, d, next - 1)
        BY <1>14, <2>2, <3>1
      <3> QED BY <1>3, <3>1, <3>2 DEF Before
    <2> QED BY <1>12, <2>1, <2>2
  <1>19. listing'.more =>
            /\ \A d \in Shown' : listing'.after > 0 /\ ~Before(order, listing'.after - 1, d)
            /\ \A d \in listing'.owed \ Shown' :
                  listing'.after > 0 => Before(order, listing'.after - 1, d)
    BY <1>7, <1>9, <1>17, <1>18
  <1>20. ~listing'.more => listing'.owed \subseteq Shown'
    BY <1>7, <1>9, <1>17
  <1>21. listing'.owed \subseteq Selected(listing.filter)'
         /\ Shown' \subseteq Selected(listing.filter)'
    BY <1>1, <1>9, <1>10, <1>16
  <1> HIDE DEF order
  <1> QED BY <1>9, <1>15, <1>19, <1>20, <1>21 DEF ListingInv, Before

LEMMA ListingStep == IInv /\ IInv' /\ ListingInv /\ [ReadNext]_ReadVars => ListingInv'
  <1> SUFFICES ASSUME IInv, IInv', ListingInv, [ReadNext]_ReadVars PROVE ListingInv'
    OBVIOUS
  <1>1. CASE UNCHANGED ReadVars \/ EndListing
    <2>1. CASE listing' = listing
      <3>1. SealedRows' = SealedRows
        BY <1>1 DEF ReadVars, EndListing, vars, tables, SealedRows, Row, Latest
      <3> QED BY <2>1, <3>1, ListingKept
    <2>2. CASE listing' = NoListing
      BY <2>2 DEF ListingInv
    <2> QED BY <1>1, <2>1, <2>2 DEF ReadVars, EndListing
  <1>2. ASSUME NEW p \in Runners, ShownStep(p) \/ ShowPublished(p) \/ ShownCrash(p)
        PROVE  ListingInv'
    <2>1. listing' = listing
      BY <1>2 DEF ShownStep, ShowPublished, ShownCrash
    <2>2. SealedRows \subseteq SealedRows'
      <3>1. CASE ShowPublished(p)
        BY <3>1 DEF ShowPublished, vars, tables, SealedRows, Row, Latest
      <3>2. CASE ShownStep(p) \/ ShownCrash(p)
        BY <3>2, SealedStep DEF ShownStep, ShownCrash
      <3> QED BY <1>2, <3>1, <3>2
    <2> QED BY <2>1, <2>2, ListingKept
  <1>3. CASE BeginListing
    <2>1. SealedRows' = SealedRows
      BY <1>3 DEF BeginListing, tables, SealedRows, Row, Latest
    <2>2. PICK q \in Queries :
              listing' = [filter |-> q.filter, oldestFirst |-> q.oldestFirst, after |-> 0,
                          pages |-> <<>>, more |-> TRUE, owed |-> Selected(q.filter)]
      BY <1>3 DEF BeginListing
    <2>3. q.filter \in {"any", "failed"} /\ q.oldestFirst \in BOOLEAN
      BY QueryAssumption
    <2>4. Selected(q.filter) \in SUBSET Nat
      BY SealedColumns, HistoryAssumption DEF Selected, IInv
    <2>5. PICK owed : owed = Selected(q.filter)
      OBVIOUS
    <2>6. /\ listing'.filter = q.filter /\ listing'.after = 0 /\ listing'.pages = <<>>
          /\ listing'.more = TRUE /\ listing'.owed = owed
      BY <2>2, <2>5
    <2>7. Shown' = {} /\ InOrder'
      BY <2>6 DEF Shown, InOrder
    <2>8. Selected(listing.filter)' = owed
      BY <2>1, <2>5, <2>6 DEF Selected
    <2>9. listing' \in [filter : {"any", "failed"}, oldestFirst : BOOLEAN, after : Nat,
                        pages : Seq(SUBSET Nat), more : BOOLEAN, owed : SUBSET Nat]
      <3>1. <<>> \in Seq(SUBSET Nat)
        OBVIOUS
      <3> QED BY <2>2, <2>3, <2>4, <3>1
    <2> QED BY <2>6, <2>7, <2>8, <2>9 DEF ListingInv
  <1>4. CASE ListPairs
    BY <1>4, ListingGoesOn
  <1> QED BY <1>1, <1>2, <1>3, <1>4 DEF ReadNext

LEMMA ListingsFollow ==
    ASSUME IInv, ListingInv
    PROVE  ListingsAreWhole
  <1> SUFFICES ASSUME listing # NoListing
               PROVE  /\ InOrder
                      /\ \A d \in Shown : Cardinality(ShownFor(d + 1)) = 1
                      /\ ~listing.more => listing.owed \subseteq Shown
    BY DEF ListingsAreWhole, InOrder, Shown
  <1>1. ASSUME NEW d \in Shown PROVE Cardinality(ShownFor(d + 1)) = 1
    <2>1. TablesInv /\ d \in Selected(listing.filter)
      BY DEF ListingInv, IInv
    <2>2. PICK r \in SealedRows : r.distance = d
      BY <2>1 DEF Selected
    <2>3. \A q \in SealedRows : q.distance \in Nat /\ (q.distance = d => q = r)
      BY <2>1, <2>2, SealedColumns, HistoryAssumption
    <2>4. (d + 1) - 1 = d
      BY <2>2, <2>3
    <2>5. ShownFor(d + 1) = {r}
      BY <2>2, <2>3, <2>4 DEF ShownFor
    <2> QED BY <2>5, FS_Singleton
  <1> QED BY <1>1 DEF ListingInv

\* The counts of a status are right when a run begins to show them.
LEMMA StartShown ==
    ASSUME IInv
    PROVE  /\ ProgressStart \in Displays /\ ProgressStart # Blank
           /\ ProgressStart.covered = Cardinality(SealedRows)
           /\ ProgressStart.failed = Failed(SealedRows)
           /\ ProgressStart.published = Blank
           /\ Cardinality(SealedRows) \in Nat /\ Failed(SealedRows) \in Nat
  <1>1. /\ Cardinality(SealedRows) = completed + Checkpointed
        /\ completed + Checkpointed \in Nat
    BY SealedCount DEF IInv
  <1>2. Failed(SealedRows) \in Nat
    <2>1. {r \in SealedRows : r.outcome \in FailedOutcomes} \in SUBSET SealedRows
      OBVIOUS
    <2> QED BY <2>1, RowsCounted DEF Failed, IInv
  <1>3. ProgressStart \in Displays
    BY <1>1, <1>2 DEF ProgressStart, Displays
  <1>4. ProgressStart # Blank
    BY <1>3, BlankAssumption DEF Displays
  <1> QED BY <1>1, <1>2, <1>3, <1>4 DEF ProgressStart

\* A pair that is handed on is the one that has just got its outcome.
LEMMA PairShown ==
    ASSUME IInv, IInv', NEW p \in Runners, Publish(p)
    PROVE  /\ PairPublished(p) \in PublishedPairs
           /\ PairPublished(p).covered = Cardinality(SealedRows')
           /\ Cardinality(SealedRows') = Cardinality(SealedRows) + 1
           /\ Failed(SealedRows') = Failed(SealedRows) + Failures(PairPublished(p))
  <1>0. TypeOK /\ TablesInv /\ IsFiniteSet(SealedRows) /\ completed \in Nat
    BY SealedCount DEF IInv
  <1>1. PICK r : /\ r \notin SealedRows /\ SealedRows' = SealedRows \cup {r}
                 /\ r.outcome \in Outcomes /\ r = batches'[Pending].rows[position[p]]
    BY SealedStep DEF RunStep
  <1>2. HasPending /\ Pending = Latest /\ batches[Latest].count \in Nat
    BY Executing DEF Publish, Go
  <1>3. PICK s \in 0..batches[Latest].count : s = position[p] /\ SealedTo(Latest, s) /\ s \in Nat
    BY SMTT(30), <1>2 DEF Publish, Go, IInv, TypeOK, Standing
  <1>4. /\ Cardinality(SealedRows) = completed + Checkpointed
        /\ Checkpointed = s
    BY <1>0, <1>2, <1>3, SealedCount
  <1>5. Cardinality(SealedRows') = Cardinality(SealedRows) + 1
    BY <1>0, <1>1, FS_AddElement
  <1>6. /\ PairPublished(p).covered = completed + s + 1
        /\ PairPublished(p).outcome = r.outcome
        /\ PairPublished(p) \in PublishedPairs
    BY <1>0, <1>1, <1>3 DEF PairPublished, PublishedPairs
  <1>7. PairPublished(p).covered = Cardinality(SealedRows')
    BY <1>0, <1>3, <1>4, <1>5, <1>6
  <1> DEFINE F == {q \in SealedRows : q.outcome \in FailedOutcomes}
  <1>8. /\ IsFiniteSet(F) /\ Cardinality(F) \in Nat /\ r \notin F
        /\ Failed(SealedRows) = Cardinality(F)
    BY <1>0, <1>1, FS_Subset, FS_CardinalityType DEF Failed
  <1>9. Failed(SealedRows') = Failed(SealedRows) + Failures(PairPublished(p))
    <2>1. CASE r.outcome \in FailedOutcomes
      <3>1. {q \in SealedRows' : q.outcome \in FailedOutcomes} = F \cup {r}
        BY <1>1, <2>1
      <3> HIDE DEF F
      <3>2. Failed(SealedRows') = Cardinality(F) + 1
        BY <1>8, <3>1, FS_AddElement DEF Failed
      <3> QED BY <1>6, <1>8, <2>1, <3>2 DEF Failures
    <2>2. CASE r.outcome \notin FailedOutcomes
      <3>1. {q \in SealedRows' : q.outcome \in FailedOutcomes} = F
        BY <1>1, <2>2
      <3> HIDE DEF F
      <3>2. Failed(SealedRows') = Cardinality(F)
        BY <3>1 DEF Failed
      <3> QED BY <1>6, <1>8, <2>2, <3>2 DEF Failures
    <2> QED BY <2>1, <2>2
  <1> QED BY <1>5, <1>6, <1>7, <1>9

\* A step that shows nothing new, of a run that goes on or has nothing to show.
LEMMA DisplayKept ==
    ASSUME IInv, DisplayInv, NEW p \in Runners, RunStep(p),
           display' = display, SealedRows' = SealedRows,
           pc'[p] \in Recorded => pc[p] \in Recorded,
           pc[p] \in Recorded \cup {"unlock"} => pc'[p] \in Recorded \cup {"unlock"}
    PROVE  DisplayInv'
  <1>1. \A q \in Runners : q # p => pc'[q] = "idle"
    BY OthersIdle
  <1>2. \A q \in Runners : pc'[q] \in Recorded => display' # Blank
    BY <1>1 DEF DisplayInv, Recorded
  <1>3. ASSUME display' # Blank
        PROVE  \E q \in Runners : pc'[q] \in Recorded \cup {"unlock"}
    <2>1. PICK q \in Runners : pc[q] \in Recorded \cup {"unlock"}
      BY <1>3 DEF DisplayInv
    <2>2. q = p
      <3>1. pc[p] # "idle" \/ lock = Nobody
        BY DEF RunStep, StartRun, OpenDatabase, CreateDatabase, RefuseRequest,
                BeginInvocation, RefuseTarget, ResumeBatch, Publish, BatchExecuted, CommitBatch,
                AddBatch, ReachTarget, Raise, FinishInvocation, FinishFails, Unlock, Go
      <3> QED BY <2>1, <3>1, OnlyOwner DEF Recorded
    <2> QED BY <2>1, <2>2
  <1>4. display # Blank => display \in Displays /\ RightCounts'
    BY DEF DisplayInv, RightCounts, Failed
  <1> QED BY <1>2, <1>3, <1>4 DEF DisplayInv

\* What a step of a run does to its display.
LEMMA DisplayOfRun ==
    ASSUME IInv, IInv', DisplayInv, NEW p \in Runners, ShownStep(p)
    PROVE  DisplayInv'
  <1>0. /\ RunStep(p) /\ Displayed(p) /\ (pc'[p] \notin {"interrupted", "idle"} => Returned(p))
        /\ pc \in [Runners -> RunStates] /\ position \in [Runners -> Nat]
    BY DEF ShownStep, IInv, TypeOK
  <1>1. \A q \in Runners : q # p => pc'[q] = "idle"
    BY <1>0, OthersIdle
  <1>2. CASE BeginInvocation(p)
    <2>1. SealedRows' = SealedRows
      BY <1>2 DEF BeginInvocation, tables, SealedRows, Row, Latest
    <2>2. pc'[p] = "advance" /\ display' = ProgressStart
      BY <1>0, <1>2 DEF BeginInvocation, Go, Displayed
    <2>3. PICK d : d = ProgressStart
      OBVIOUS
    <2>4. /\ d \in Displays /\ d # Blank /\ d.published = Blank
          /\ d.covered = Cardinality(SealedRows) /\ d.failed = Failed(SealedRows)
      BY <2>3, StartShown
    <2>5. RightCounts'
      BY <2>1, <2>2, <2>3, <2>4 DEF RightCounts, Failed
    <2> QED BY <2>2, <2>3, <2>4, <2>5 DEF DisplayInv, Recorded
  <1>3. CASE Publish(p)
    <2>1. pc[p] = "execute" /\ pc'[p] = "execute" /\ position'[p] = position[p] + 1
      BY <1>0, <1>3 DEF Publish, Go
    <2>2. display # Blank /\ display.published = Blank /\ display \in Displays
      BY <1>0, <2>1 DEF DisplayInv, Recorded, Returned
    <2>3. PICK pair : pair = PairPublished(p)
      OBVIOUS
    <2>4. /\ pair \in PublishedPairs /\ pair.covered = Cardinality(SealedRows')
          /\ Cardinality(SealedRows') = Cardinality(SealedRows) + 1
          /\ Failed(SealedRows') = Failed(SealedRows) + Failures(pair)
      BY <1>3, <2>3, PairShown
    <2>5. display' = [display EXCEPT !.published = pair]
      BY <1>0, <2>1, <2>3 DEF Displayed
    <2>6. /\ display'.published = pair /\ display'.covered = display.covered
          /\ display'.failed = display.failed /\ display' \in Displays
      BY <2>2, <2>4, <2>5 DEF Displays
    <2>7. pair # Blank /\ display' # Blank
      BY <2>4, <2>6, BlankAssumption DEF Displays
    <2>8. display.covered = Cardinality(SealedRows) /\ display.failed = Failed(SealedRows)
      BY <2>2 DEF DisplayInv, RightCounts
    <2>9. /\ display'.covered + 1 = Cardinality(SealedRows')
          /\ display'.published.covered = Cardinality(SealedRows')
          /\ display'.failed + Failures(display'.published) = Failed(SealedRows')
      BY <2>4, <2>6, <2>8
    <2>10. RightCounts'
      BY <2>6, <2>7, <2>9 DEF RightCounts, Failed, Failures
    <2> QED BY <2>1, <2>6, <2>7, <2>10 DEF DisplayInv, Recorded
  <1>4. CASE Unlock(p)
    <2>1. pc[p] = "unlock" /\ pc'[p] = "idle"
      BY <1>0, <1>4 DEF Unlock, Go
    <2>2. display' = Blank
      BY <1>0, <2>1 DEF Displayed
    <2> QED BY <1>1, <2>1, <2>2 DEF DisplayInv, Recorded
  <1>5. CASE \/ StartRun(p) \/ OpenDatabase(p) \/ CreateDatabase(p) \/ RefuseRequest(p)
             \/ RefuseTarget(p) \/ ResumeBatch(p) \/ BatchExecuted(p) \/ CommitBatch(p)
             \/ AddBatch(p) \/ ReachTarget(p) \/ Raise(p) \/ FinishInvocation(p)
             \/ FinishFails(p)
    <2>1. /\ ~(pc[p] = "begin" /\ pc'[p] = "advance")
          /\ pc'[p] # "idle"
          /\ pc'[p] \in Recorded => pc[p] \in Recorded
          /\ pc[p] \in Recorded \cup {"unlock"} => pc'[p] \in Recorded \cup {"unlock"}
      BY SMTT(30), <1>0, <1>5
         DEF StartRun, OpenDatabase, CreateDatabase, RefuseRequest, RefuseTarget, ResumeBatch,
             BatchExecuted, CommitBatch, AddBatch, ReachTarget, Raise, FinishInvocation,
             FinishFails, Go, Recorded
    <2>2. pc[p] = "execute" => position'[p] = position[p]
      BY SMTT(30), <1>0, <1>5
         DEF StartRun, OpenDatabase, CreateDatabase, RefuseRequest, RefuseTarget, ResumeBatch,
             BatchExecuted, CommitBatch, AddBatch, ReachTarget, Raise, FinishInvocation,
             FinishFails, Go, locals
    <2>3. position[p] # position[p] + 1
      BY <1>0
    <2>4. display' = display
      BY <1>0, <2>1, <2>2, <2>3 DEF Displayed
    <2>5. ~Publish(p)
      BY <1>0, <2>2, <2>3 DEF Publish, Go
    <2>6. SealedRows' = SealedRows
      BY <1>0, <2>5, SealedStep
    <2> QED BY <1>0, <2>1, <2>4, <2>6, DisplayKept
  <1> QED BY <1>0, <1>2, <1>3, <1>4, <1>5 DEF RunStep

LEMMA DisplayStep == IInv /\ IInv' /\ DisplayInv /\ [ReadNext]_ReadVars => DisplayInv'
  <1> SUFFICES ASSUME IInv, IInv', DisplayInv, [ReadNext]_ReadVars PROVE DisplayInv'
    OBVIOUS
  <1>1. CASE UNCHANGED ReadVars \/ BeginListing \/ ListPairs \/ EndListing
    <2>1. display' = display /\ pc' = pc /\ SealedRows' = SealedRows
      BY <1>1 DEF ReadVars, BeginListing, ListPairs, EndListing, vars, tables, SealedRows, Row,
                  Latest
    <2> QED BY <2>1 DEF DisplayInv, RightCounts, Failed
  <1>2. ASSUME NEW p \in Runners, ShownStep(p) PROVE DisplayInv'
    BY <1>2, DisplayOfRun
  <1>3. ASSUME NEW p \in Runners, ShownCrash(p) PROVE DisplayInv'
    <2>1. Crash(p) /\ display' = Blank
      BY <1>3 DEF ShownCrash
    <2>2. \A q \in Runners : pc'[q] = "idle"
      BY <2>1, OthersIdle, OnlyOwner DEF Crash
    <2> QED BY <2>1, <2>2 DEF DisplayInv, Recorded
  <1>4. ASSUME NEW p \in Runners, ShowPublished(p) PROVE DisplayInv'
    <2>1. display # Blank /\ display.published # Blank /\ pc' = pc /\ SealedRows' = SealedRows
      BY <1>4 DEF ShowPublished, vars, tables, SealedRows, Row, Latest
    <2>2. PICK n \in Nat, k \in Nat, pair \in PublishedPairs :
              display.covered = n /\ display.failed = k /\ display.published = pair
      BY <2>1 DEF DisplayInv, Displays
    <2>3. /\ n + 1 = Cardinality(SealedRows) /\ pair.covered = Cardinality(SealedRows)
          /\ k + Failures(pair) = Failed(SealedRows)
      BY <2>1, <2>2 DEF DisplayInv, RightCounts
    <2>4. display' = [covered |-> Most(n, pair.covered), failed |-> k + Failures(pair),
                      published |-> Blank]
      BY <1>4, <2>2 DEF ShowPublished, Failures
    <2>5. Most(n, pair.covered) = n + 1 /\ n + 1 \in Nat
      BY <2>2, <2>3 DEF Most
    <2>6. k + Failures(pair) \in Nat
      BY <2>2 DEF Failures
    <2>7. /\ display' \in Displays /\ display'.published = Blank
          /\ display'.covered = Cardinality(SealedRows)
          /\ display'.failed = Failed(SealedRows)
      BY <2>3, <2>4, <2>5, <2>6 DEF Displays
    <2>8. display' # Blank
      BY <2>7, BlankAssumption DEF Displays
    <2>9. RightCounts'
      BY <2>1, <2>7 DEF RightCounts, Failed
    <2> QED BY <2>1, <2>7, <2>8, <2>9 DEF DisplayInv
  <1> QED BY <1>1, <1>2, <1>3, <1>4 DEF ReadNext

LEMMA DisplaysFollow == IInv /\ DisplayInv => ProgressIsDurable
  <1> SUFFICES ASSUME IInv, DisplayInv, display # Blank
               PROVE  LET late == IF display.published = Blank THEN 0 ELSE 1
                          lateFailed == IF /\ display.published # Blank
                                           /\ display.published.outcome \in FailedOutcomes
                                          THEN 1 ELSE 0
                      IN /\ display.covered + late = Cardinality(SealedRows)
                         /\ display.failed + lateFailed = Failed(SealedRows)
    BY DEF ProgressIsDurable
  <1>1. display.covered \in Nat /\ display.failed \in Nat /\ RightCounts
    BY DEF DisplayInv, Displays
  <1> QED BY <1>1 DEF RightCounts, Failures

LEMMA ReadersInvariant == ReadSpec => [](IInv /\ ListingInv /\ DisplayInv)
  <1>1. ReadInit => ListingInv /\ DisplayInv
    <2> SUFFICES ASSUME ReadInit PROVE ListingInv /\ DisplayInv
      OBVIOUS
    <2>1. listing = NoListing /\ display = Blank /\ \A p \in Runners : pc[p] = "idle"
      BY DEF ReadInit, Init
    <2> QED BY <2>1 DEF ListingInv, DisplayInv, Recorded
  <1> QED BY <1>1, ListingStep, DisplayStep, ReadInvariant, PTL DEF ReadSpec

\* While runs seal, commit, fail and crash, nobody who reads is refused or told
\* what the tables do not hold: a listing shows every pair it owes once and in
\* order, a report is whole, and the counts on the display are durable.
THEOREM ReadersAlwaysSeeOneHistory == ReadSpec => []ReadersSeeOneHistory
  <1>1. IInv /\ ListingInv /\ DisplayInv => ReadersSeeOneHistory
    <2> SUFFICES ASSUME IInv, ListingInv, DisplayInv PROVE ReadersSeeOneHistory
      OBVIOUS
    <2> QED BY ReportsFollow, ListingsFollow, DisplaysFollow DEF ReadersSeeOneHistory
  <1> QED BY <1>1, ReadersInvariant, PTL
=============================================================================
