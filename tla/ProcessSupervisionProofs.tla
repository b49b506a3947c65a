----------------------- MODULE ProcessSupervisionProofs -----------------------
(***************************************************************************)
(* For every set of processes, stream, limit and number of interrupts:     *)
(* what the bounded capture of a stream retains, and what a supervised     *)
(* call leaves behind and reports when it is over.                         *)
(***************************************************************************)
EXTENDS ProcessSupervision, SequenceTheorems, TLAPS

\* The capture holds sequences of byte positions and a count.
CaptureTypes == head \in Seq(Nat) /\ tail \in Seq(Nat) /\ total \in Nat

CaptureInv == CaptureTypes /\ RetentionExact

\* The limits are positive and add up.
LEMMA LimitsAddUp ==
    /\ HeadLimit \in Nat /\ TailLimit \in Nat
    /\ HeadLimit >= 1 /\ TailLimit >= 1 /\ HeadLimit + TailLimit = Limit
BY LimitAssumption DEF HeadLimit, TailLimit

\* What Suffix returns: the last elements, as many as asked for.
LEMMA SuffixOf ==
    ASSUME NEW s \in Seq(Nat), NEW n \in Nat
    PROVE  /\ Suffix(s, n) \in Seq(Nat)
           /\ Len(Suffix(s, n)) = Lesser(n, Len(s))
           /\ \A i \in 1..Lesser(n, Len(s)) :
                 Suffix(s, n)[i] = s[Len(s) - Lesser(n, Len(s)) + i]
<1> DEFINE k == Lesser(n, Len(s))
<1>1. k \in Nat /\ k <= Len(s) /\ Len(s) \in Nat  BY DEF Lesser
<1>2. Suffix(s, n) = SubSeq(s, Len(s) - k + 1, Len(s))  BY DEF Suffix
<1> HIDE DEF k
<1>3. /\ SubSeq(s, Len(s) - k + 1, Len(s)) \in Seq(Nat)
      /\ Len(SubSeq(s, Len(s) - k + 1, Len(s))) = k
  BY <1>1
<1>4. \A i \in 1..k : SubSeq(s, Len(s) - k + 1, Len(s))[i] = s[Len(s) - k + i]
  BY <1>1
<1> QED  BY <1>2, <1>3, <1>4 DEF k

\* Concatenation puts the second sequence after the first.
LEMMA ConcatOf ==
    ASSUME NEW s \in Seq(Nat), NEW t \in Seq(Nat)
    PROVE  /\ s \o t \in Seq(Nat) /\ Len(s \o t) = Len(s) + Len(t)
           /\ \A i \in 1..Len(s) : (s \o t)[i] = s[i]
           /\ \A i \in 1..Len(t) : (s \o t)[Len(s) + i] = t[i]
OBVIOUS

\* What two parts with these limits leave out of a whole.
LEMMA Accounting ==
    ASSUME NEW t \in Nat, NEW h \in Nat, NEW l \in Nat,
           h = Lesser(t, HeadLimit), l = Lesser(t - h, TailLimit)
    PROVE  t - (h + l) = IF t <= Limit THEN 0 ELSE t - Limit
<1>1. CASE t <= HeadLimit
  <2>1. h = t /\ l = 0  BY <1>1, LimitsAddUp DEF Lesser
  <2> QED  BY <1>1, <2>1, LimitsAddUp, LimitAssumption
<1>2. CASE t > HeadLimit
  <2>1. h = HeadLimit  BY <1>2, LimitsAddUp DEF Lesser
  <2>2. l = IF t <= Limit THEN t - HeadLimit ELSE TailLimit
    BY <1>2, <2>1, LimitsAddUp, LimitAssumption DEF Lesser
  <2> QED  BY <1>2, <2>1, <2>2, LimitsAddUp, LimitAssumption
<1> QED  BY <1>1, <1>2, LimitsAddUp

\* One block preserves the invariant.
LEMMA AddPreserves ==
    ASSUME CaptureInv, NEW n \in Nat, n >= 1, Add(NextBlock(n))
    PROVE  CaptureInv'
<1> DEFINE block == NextBlock(n)
           room == Lesser(HeadLimit - Len(head), n)
           first == SubSeq(block, 1, room)
           rest == SubSeq(block, room + 1, n)
           long == tail \o rest
<1> USE LimitsAddUp
<1>1. /\ block \in Seq(Nat) /\ Len(block) = n
      /\ \A i \in 1..n : block[i] = total + i
  BY DEF NextBlock, CaptureInv, CaptureTypes
<1>2. /\ head \in Seq(Nat) /\ tail \in Seq(Nat) /\ total \in Nat
      /\ Len(head) \in Nat /\ Len(tail) \in Nat
  BY DEF CaptureInv, CaptureTypes
<1>3. /\ Len(head) = Lesser(total, HeadLimit)
      /\ Len(tail) = Lesser(total - Len(head), TailLimit)
      /\ \A i \in 1..Len(head) : head[i] = i
      /\ \A i \in 1..Len(tail) : tail[i] = total - Len(tail) + i
  BY DEF CaptureInv, RetentionExact
<1>4. /\ room \in Nat /\ room <= n
      /\ Len(head) + room = Lesser(total + n, HeadLimit)
      /\ Len(tail) = 0 \/ room = 0
      /\ room > 0 => Len(head) = total
  BY <1>2, <1>3 DEF Lesser
<1>5. /\ total' = total + n /\ head' = head \o first /\ tail' = Suffix(long, TailLimit)
  BY <1>1 DEF Add
<1> HIDE DEF block, room
<1>6. /\ first \in Seq(Nat) /\ Len(first) = room
      /\ \A i \in 1..room : first[i] = block[i]
  BY <1>1, <1>4
<1>7. /\ rest \in Seq(Nat) /\ Len(rest) = n - room
      /\ \A i \in 1..(n - room) : rest[i] = block[room + i]
  BY <1>1, <1>4
<1> HIDE DEF first, rest
<1>8. /\ long \in Seq(Nat) /\ Len(long) = Len(tail) + (n - room)
      /\ \A i \in 1..Len(tail) : long[i] = tail[i]
      /\ \A i \in 1..(n - room) : long[Len(tail) + i] = rest[i]
  <2>1. tail \in Seq(Nat)  BY <1>2
  <2>2. rest \in Seq(Nat) /\ Len(rest) = n - room  BY <1>7
  <2>3. /\ long \in Seq(Nat) /\ Len(long) = Len(tail) + Len(rest)
        /\ \A i \in 1..Len(tail) : long[i] = tail[i]
        /\ \A i \in 1..Len(rest) : long[Len(tail) + i] = rest[i]
    BY <2>1, <2>2, ConcatOf
  <2> QED  BY <2>2, <2>3
<1> HIDE DEF long
<1>9. \A i \in 1..Len(long) : long[i] = total + n - Len(long) + i
  <2> SUFFICES ASSUME NEW i \in 1..Len(long)
               PROVE  long[i] = total + n - Len(long) + i
    OBVIOUS
  <2>1. CASE i <= Len(tail)
    <3>1. room = 0  BY <2>1, <1>4, <1>2, <1>8
    <3>2. long[i] = total - Len(tail) + i  BY <2>1, <1>8, <1>3
    <3> QED  BY <3>1, <3>2, <1>8, <1>2, <1>4
  <2>2. CASE i > Len(tail)
    <3> DEFINE j == i - Len(tail)
    <3>0. Len(tail) \in Nat /\ room \in Nat /\ i \in Nat /\ i <= Len(tail) + (n - room)
      BY <1>8, <1>2, <1>4
    <3>1. j \in 1..(n - room) /\ i = Len(tail) + j  BY <2>2, <3>0
    <3> HIDE DEF j
    <3>2. long[i] = rest[j]  BY <3>1, <1>8
    <3>3. rest[j] = block[room + j]  BY <3>1, <1>7
    <3>4. room + j \in 1..n  BY <3>1, <1>4
    <3>5. block[room + j] = total + room + j  BY <3>4, <1>1, <1>2, <1>4, <3>1
    <3> QED  BY <3>1, <3>2, <3>3, <3>5, <1>8, <1>2, <1>4
  <2>3. i \in Nat /\ Len(tail) \in Nat  BY <1>2, <1>8, <1>4
  <2> QED  BY <2>1, <2>2, <2>3
<1>10. /\ head' \in Seq(Nat) /\ Len(head') = Lesser(total', HeadLimit)
       /\ \A i \in 1..Len(head') : head'[i] = i
  <2>0. /\ head \o first \in Seq(Nat) /\ Len(head \o first) = Len(head) + room
        /\ \A i \in 1..Len(head) : (head \o first)[i] = head[i]
        /\ \A i \in 1..room : (head \o first)[Len(head) + i] = first[i]
    BY <1>6, <1>2, ConcatOf
  <2>1. /\ head' \in Seq(Nat) /\ Len(head') = Len(head) + room
        /\ \A i \in 1..Len(head) : head'[i] = head[i]
        /\ \A i \in 1..room : head'[Len(head) + i] = first[i]
    BY <2>0, <1>5
  <2>2. \A i \in 1..Len(head') : head'[i] = i
    <3> SUFFICES ASSUME NEW i \in 1..Len(head')  PROVE head'[i] = i
      OBVIOUS
    <3>1. CASE i <= Len(head)
      <4>1. i \in 1..Len(head)  BY <3>1, <2>1, <1>2, <1>4
      <4> QED  BY <4>1, <2>1, <1>3
    <3>2. CASE i > Len(head)
      <4> DEFINE j == i - Len(head)
      <4>1. j \in 1..room /\ i = Len(head) + j  BY <3>2, <2>1, <1>2, <1>4
      <4> HIDE DEF j
      <4>2. head'[i] = first[j]  BY <4>1, <2>1
      <4>3. first[j] = block[j]  BY <4>1, <1>6
      <4>5. block[j] = total + j  BY <4>1, <1>1, <1>4
      <4>4. Len(head) = total  BY <4>1, <1>4
      <4> QED  BY <4>1, <4>2, <4>3, <4>4, <4>5, <1>2
    <3> QED  BY <3>1, <3>2, <2>1, <1>2, <1>4
  <2> QED  BY <2>1, <2>2, <1>4, <1>5
<1>11. /\ tail' \in Seq(Nat) /\ Len(tail') = Lesser(TailLimit, Len(long))
       /\ \A i \in 1..Len(tail') : tail'[i] = long[Len(long) - Len(tail') + i]
  <2>1. TailLimit \in Nat /\ long \in Seq(Nat)  BY <1>8
  <2>2. tail' = Suffix(long, TailLimit)  BY <1>5 DEF long
  <2>3. /\ Suffix(long, TailLimit) \in Seq(Nat)
        /\ Len(Suffix(long, TailLimit)) = Lesser(TailLimit, Len(long))
        /\ \A i \in 1..Lesser(TailLimit, Len(long)) :
              Suffix(long, TailLimit)[i]
                 = long[Len(long) - Lesser(TailLimit, Len(long)) + i]
    BY <2>1, SuffixOf
  <2> QED  BY <2>2, <2>3
<1>12. /\ Len(tail') = Lesser(total' - Len(head'), TailLimit)
       /\ total' - Len(head') \in Nat
  <2>1. Len(head') = Len(head) + room  BY <1>10, <1>5, <1>4
  <2>2. total - Len(head) \in Nat  BY <1>2, <1>3 DEF Lesser
  <2>3. Len(tail) = 0 \/ total' - Len(head') = total - Len(head) + n
    BY <2>1, <1>2, <1>4, <1>5
  <2>4. Len(tail) = 0 => total - Len(head) = 0
    BY <2>2, <1>3 DEF Lesser
  <2>5. /\ total' - Len(head') = (total - Len(head)) + (n - room)
        /\ n - room \in Nat
    BY <2>1, <2>2, <1>2, <1>4, <1>5
  <2>6. Len(tail') = Lesser(TailLimit, Len(tail) + (n - room))
    BY <1>11, <1>8
  <2>7. Len(tail) = Lesser(total - Len(head), TailLimit)  BY <1>3
  <2> QED  BY <2>2, <2>5, <2>6, <2>7 DEF Lesser
<1>13. \A i \in 1..Len(tail') : tail'[i] = total' - Len(tail') + i
  <2> SUFFICES ASSUME NEW i \in 1..Len(tail')
               PROVE  tail'[i] = total' - Len(tail') + i
    OBVIOUS
  <2>1. /\ Len(tail') \in Nat /\ Len(tail') <= Len(long) /\ Len(long) \in Nat
    BY <1>11, <1>8 DEF Lesser
  <2>2. Len(long) - Len(tail') + i \in 1..Len(long)  BY <2>1
  <2>3. tail'[i] = total + n - Len(long) + (Len(long) - Len(tail') + i)
    BY <2>2, <1>9, <1>11
  <2> QED  BY <2>1, <2>3, <1>5, <1>2
<1>14. Omitted' = IF total' <= Limit THEN 0 ELSE total' - Limit
  <2>1. Len(Retained') = Len(head') + Len(tail')
    BY <1>10, <1>11, ConcatOf DEF Retained
  <2>2. total' \in Nat /\ Limit \in Nat  BY <1>5, <1>2, LimitAssumption
  <2>3. Omitted' = total' - (Len(head') + Len(tail'))  BY <2>1 DEF Omitted
  <2>4. /\ Len(head') = Lesser(total', HeadLimit)
        /\ Len(tail') = Lesser(total' - Len(head'), TailLimit)
    BY <1>10, <1>12
  <2>6. Len(head') \in Nat /\ Len(tail') \in Nat
    BY <1>10, <1>11
  <2>5. total' - (Len(head') + Len(tail')) = IF total' <= Limit THEN 0 ELSE total' - Limit
    BY <2>2, <2>4, <2>6, Accounting
  <2> QED  BY <2>3, <2>5
<1> QED
  <2>1. CaptureTypes'  BY <1>5, <1>2, <1>10, <1>11 DEF CaptureTypes
  <2>2. RetentionExact'
    BY <1>10, <1>12, <1>13, <1>14 DEF RetentionExact
  <2> QED  BY <2>1, <2>2 DEF CaptureInv

LEMMA CaptureStarts ==
    ASSUME CaptureInit
    PROVE  CaptureInv
  <1>1. head = <<>> /\ tail = <<>> /\ total = 0  BY DEF CaptureInit
  <1>2. CaptureTypes  BY <1>1 DEF CaptureTypes
  <1>3. Len(head) = 0 /\ Len(tail) = 0 /\ Len(Retained) = 0
    BY <1>1, <1>2, ConcatOf DEF Retained, CaptureTypes
  <1>4. Omitted = 0  BY <1>1, <1>3 DEF Omitted
  <1>5. Lesser(0, HeadLimit) = 0 /\ Lesser(0, TailLimit) = 0
    BY LimitsAddUp DEF Lesser
  <1>6. RetentionExact
    BY <1>1, <1>3, <1>4, <1>5, LimitAssumption DEF RetentionExact
  <1> QED  BY <1>2, <1>6 DEF CaptureInv

\* The capture retains exactly the first and the last bytes of the stream, for
\* every limit, stream and cut into blocks.
THEOREM CaptureExact == CaptureSpec => []RetentionExact
<1>1. CaptureInit => CaptureInv  BY CaptureStarts
<1>2. CaptureInv /\ [CaptureNext]_captureVars => CaptureInv'
  <2> SUFFICES ASSUME CaptureInv, [CaptureNext]_captureVars  PROVE CaptureInv'
    OBVIOUS
  <2>1. CASE CaptureNext
    <3>1. PICK n \in 1..MaxBytes : Add(NextBlock(n))  BY <2>1 DEF CaptureNext
    <3>2. n \in Nat /\ n >= 1  BY BytesAssumption
    <3> QED  BY <3>1, <3>2, AddPreserves
  <2>2. CASE UNCHANGED captureVars
    BY <2>2 DEF captureVars, CaptureInv, CaptureTypes, RetentionExact, Omitted, Retained
  <2> QED  BY <2>1, <2>2
<1>3. CaptureInv => RetentionExact  BY DEF CaptureInv
<1> QED  BY <1>1, <1>2, <1>3, PTL DEF CaptureSpec

-----------------------------------------------------------------------------
(* The inductive invariant of a call. *)

Begun == Places \ {"spawn", "spawned", "started"}

\* The place of the call tells what it has done and what it waits for.
Placed ==
    /\ pc = "wait" => phase \in {"run", "grace", "final"}
    /\ pc = "scan" => phase \in {"run", "grace", "final", "check", "verdict"}
    /\ pc = "spawn" => life = [p \in Procs |-> "none"] /\ ~known
    /\ pc \notin Begun => signals = {} /\ drain = "none" /\ ~finished /\ phase = "none"
    /\ finished => drain # "reading"
    /\ phase = "verdict" => pc \in {"scan", "escaped"}
    /\ pc \in {"started", "wait", "scan", "term", "kill", "reap"} => known
    /\ pc = "except" => handling

\* The drain thread closes the stream when nobody can write to it.
Drained == drain = "closed" => total = produced /\ Alive = {}

\* Whoever lives and is a member was found by no scan, or has not been looked
\* at yet.
GroupOver == LiveMembers \subseteq newborn
Over ==
    /\ pc = "scan" => LiveMembers \subseteq unread \cup newborn
    /\ known /\ \/ pc \in {"reap", "join", "report", "returned", "raised"}
                \/ phase = "verdict"
                \/ pc = "escaped" /\ ~handling
         => GroupOver

\* A signal tells why it was sent.
Signalled ==
    /\ KillIsFinal
    /\ phase = "run" => signals = {}
    /\ phase = "final" => "KILL" \in signals

\* Without an exception, a call that was not timed out has only waited.
Untouched ==
    /\ phase = "check" => handling
    /\ pc = "returned" => ~handling
    /\ ~handling /\ ~timedOut =>
          /\ signals = {} /\ pc \notin {"term", "kill"}
          /\ pc \in {"wait", "scan"} => phase \in {"run", "verdict"}
    /\ ~handling /\ (pc \in {"join", "report", "returned"} \/ phase = "verdict")
          => life[Leader] \in {"none", "gone"}

IInv == TypeOK /\ CaptureInv /\ Placed /\ Drained /\ Over /\ Signalled /\ Untouched

-----------------------------------------------------------------------------
(* What the processes can do to what the call relies on. *)

LEMMA StreamTypes ==
    ASSUME CaptureInv, total \in 0..MaxBytes
    PROVE  head \in Seq(1..MaxBytes) /\ tail \in Seq(1..MaxBytes)
  <1>1. /\ head \in Seq(Nat) /\ tail \in Seq(Nat) /\ total \in Nat /\ total <= MaxBytes
        /\ MaxBytes \in Nat /\ Len(head) \in Nat /\ Len(tail) \in Nat
    BY BytesAssumption DEF CaptureInv, CaptureTypes
  <1>2. /\ Len(head) = Lesser(total, HeadLimit)
        /\ Len(tail) = Lesser(total - Len(head), TailLimit)
        /\ \A i \in 1..Len(head) : head[i] = i
        /\ \A i \in 1..Len(tail) : tail[i] = total - Len(tail) + i
    BY DEF CaptureInv, RetentionExact
  <1>3. Len(head) <= total /\ Len(tail) <= total
    BY <1>1, <1>2, LimitsAddUp DEF Lesser
  <1>4. \A i \in 1..Len(head) : head[i] \in 1..MaxBytes
    BY <1>1, <1>2, <1>3
  <1>5. \A i \in 1..Len(tail) : tail[i] \in 1..MaxBytes
    BY <1>1, <1>2, <1>3
  <1>6. ASSUME NEW s \in Seq(Nat), \A i \in 1..Len(s) : s[i] \in 1..MaxBytes
        PROVE  s \in Seq(1..MaxBytes)
    <2>1. s \in [1..Len(s) -> 1..MaxBytes] /\ Len(s) \in Nat
      BY <1>6
    <2>2. s \in UNION {[1..n -> 1..MaxBytes] : n \in Nat}
      BY <2>1
    <2>3. Seq(1..MaxBytes) = UNION {[1..n -> 1..MaxBytes] : n \in Nat}
      BY Zenon, SeqDef
    <2> QED BY Zenon, <2>2, <2>3
  <1> QED BY <1>1, <1>4, <1>5, <1>6

LEMMA StreamFollows ==
    CaptureInv' /\ (total \in 0..MaxBytes)'
      => (head \in Seq(1..MaxBytes) /\ tail \in Seq(1..MaxBytes))'
  <1>1. CaptureInv /\ total \in 0..MaxBytes
          => head \in Seq(1..MaxBytes) /\ tail \in Seq(1..MaxBytes)
    BY StreamTypes
  <1> QED BY <1>1, PTL

LEMMA CaptureStands ==
    ASSUME CaptureInv, UNCHANGED captureVars
    PROVE  CaptureInv'
  BY DEF captureVars, CaptureInv, CaptureTypes, RetentionExact, Omitted, Retained

\* The processes only ever grow the group by processes that are new to the
\* scan, and nobody comes to life where nobody lives.
Wild ==
    /\ life' \in [Procs -> Lives] /\ escaped' \subseteq Procs /\ newborn' \subseteq Procs
    /\ produced' \in 0..MaxBytes /\ produced' >= produced
    /\ life'[Leader] = life[Leader] \/ life[Leader] = "alive"
    /\ Alive = {} => Alive' = {} /\ produced' = produced
    /\ pc = "scan" => LiveMembers' \subseteq LiveMembers \cup newborn'
    /\ newborn \subseteq newborn'
    /\ GroupOver => GroupOver'
    /\ LiveMembers = {} => LiveMembers' = {}

LEMMA ForkWild ==
    ASSUME TypeOK, NEW p \in Procs, NEW q \in Procs, Fork(p, q)
    PROVE  Wild
  <1>1. /\ p \in Alive /\ life[q] = "none" /\ q # Leader
        /\ life' = [life EXCEPT ![q] = "alive"]
        /\ escaped' = IF p \in escaped THEN escaped \cup {q} ELSE escaped
        /\ newborn' = IF pc = "scan" \/ p \in newborn THEN newborn \cup {q} ELSE newborn
        /\ produced' = produced
    BY DEF Fork
  <1>2. life \in [Procs -> Lives] /\ escaped \subseteq Procs /\ newborn \subseteq Procs
        /\ produced \in 0..MaxBytes
    BY DEF TypeOK
  <1>3. life' \in [Procs -> Lives] /\ escaped' \subseteq Procs /\ newborn' \subseteq Procs
        /\ newborn \subseteq newborn'
    BY <1>1, <1>2 DEF Lives
  <1>4. Alive' = Alive \cup {q}
    BY <1>1, <1>2 DEF Alive
  <1>5. p \in escaped => LiveMembers' \subseteq LiveMembers
    BY <1>1, <1>4 DEF LiveMembers
  <1>6. p \notin escaped => LiveMembers' \subseteq LiveMembers \cup {q} /\ p \in LiveMembers
    BY <1>1, <1>4 DEF LiveMembers
  <1>7. pc = "scan" => LiveMembers' \subseteq LiveMembers \cup newborn'
    BY <1>1, <1>5, <1>6
  <1>8. GroupOver => GroupOver'
    BY <1>1, <1>3, <1>5, <1>6 DEF GroupOver
  <1>9. LiveMembers = {} => LiveMembers' = {}
    BY <1>5, <1>6
  <1>10. life'[Leader] = life[Leader]
    BY <1>1, <1>2, ProcsAssumption
  <1> QED BY <1>1, <1>2, <1>3, <1>7, <1>8, <1>9, <1>10 DEF Wild

LEMMA EndWild ==
    ASSUME TypeOK, NEW p \in Procs, LeaveGroup(p) \/ Exit(p) \/ Collect(p) \/ Write(p)
    PROVE  Wild
  <1>1. life \in [Procs -> Lives] /\ escaped \subseteq Procs /\ newborn \subseteq Procs
        /\ produced \in 0..MaxBytes
    BY DEF TypeOK
  <1>2. /\ newborn' = newborn
        /\ \/ escaped' = escaped \cup {p} /\ p \in Alive /\ life' = life /\ produced' = produced
           \/ p \in Alive /\ life' = [life EXCEPT ![p] = "zombie"] /\ escaped' = escaped
              /\ produced' = produced
           \/ p # Leader /\ life[p] = "zombie" /\ life' = [life EXCEPT ![p] = "gone"]
              /\ escaped' = escaped /\ produced' = produced
           \/ p \in Alive /\ produced' = produced + 1 /\ produced < MaxBytes /\ life' = life
              /\ escaped' = escaped
    BY DEF LeaveGroup, Exit, Collect, Write, LiveMembers
  <1>3. life' \in [Procs -> Lives] /\ escaped' \subseteq Procs /\ newborn' \subseteq Procs
    BY <1>1, <1>2 DEF Lives
  <1>4. produced' \in 0..MaxBytes /\ produced' >= produced
    BY <1>1, <1>2, BytesAssumption
  <1>5. Alive' \subseteq Alive
    BY <1>1, <1>2 DEF Alive
  <1>6. Alive = {} => produced' = produced
    BY <1>2
  <1>7. LiveMembers' \subseteq LiveMembers
    BY <1>2, <1>5 DEF LiveMembers
  <1>8. life'[Leader] = life[Leader] \/ life[Leader] = "alive"
    BY <1>1, <1>2, ProcsAssumption DEF Alive
  <1> QED BY <1>2, <1>3, <1>4, <1>5, <1>6, <1>7, <1>8 DEF Wild, GroupOver

LEMMA ProcessWild ==
    ASSUME TypeOK, ProcessStep
    PROVE  Wild
  BY ForkWild, EndWild DEF ProcessStep

LEMMA ProcessKeeps ==
    ASSUME IInv, ProcessStep
    PROVE  IInv'
  <1>0. TypeOK /\ CaptureInv /\ Placed /\ Drained /\ Over /\ Signalled /\ Untouched
    BY DEF IInv
  <1>1. Wild
    BY <1>0, ProcessWild
  <1>2. /\ UNCHANGED <<head, tail, total, unread, observed, signals, timedOut, finished, cleaned>>
        /\ UNCHANGED <<known, handling, phase, late, pc, drain, interrupts>>
    BY DEF ProcessStep, captureVars, scanVars, reportVars, callVars
  <1>3. TypeOK'
    <2>1. total \in 0..produced'
      BY <1>0, <1>1, BytesAssumption DEF TypeOK, Wild
    <2> QED BY <1>0, <1>1, <1>2, <2>1 DEF TypeOK, Wild
  <1>4. CaptureInv'
    BY <1>0, <1>2, CaptureStands DEF captureVars
  <1>5. Placed'
    <2>1. pc # "spawn"
      <3>1. ASSUME pc = "spawn" PROVE FALSE
        <4>1. \A p \in Procs : life[p] = "none"
          BY <1>0, <3>1 DEF Placed
        <4> QED BY <4>1 DEF ProcessStep, Fork, LeaveGroup, Exit, Collect, Write, Alive, LiveMembers
      <3> QED BY <3>1
    <2> QED BY <1>0, <1>2, <2>1 DEF Placed
  <1>6. Drained'
    BY <1>0, <1>1, <1>2 DEF Drained, Wild
  <1>7. Over'
    BY <1>0, <1>1, <1>2 DEF Over, Wild
  <1>8. Signalled'
    BY <1>0, <1>1, <1>2 DEF Signalled, KillIsFinal, Wild
  <1>9. Untouched'
    BY <1>0, <1>1, <1>2 DEF Untouched, Wild
  <1> QED BY <1>3, <1>4, <1>5, <1>6, <1>7, <1>8, <1>9 DEF IInv

LEMMA DrainKeeps ==
    ASSUME IInv, DrainStep
    PROVE  IInv'
  <1>0. TypeOK /\ CaptureInv /\ Placed /\ Drained /\ Over /\ Signalled /\ Untouched
    BY DEF IInv
  <1>1. /\ UNCHANGED <<life, escaped, produced, unread, observed, signals, timedOut, finished>>
        /\ UNCHANGED <<cleaned, known, handling, phase, late, pc, interrupts, newborn>>
    BY DEF DrainStep, procVars, scanVars, reportVars, callVars
  <1>2. Alive' = Alive /\ LiveMembers' = LiveMembers
    BY <1>1 DEF Alive, LiveMembers
  <1>3. /\ drain = "reading" /\ drain' \in {"reading", "closed"}
        /\ drain' = "closed" => total' = produced /\ Alive = {}
        /\ CaptureInv' /\ total' \in 0..produced
    <2>1. CASE ReadBlock
      <3>1. PICK n \in 1..(produced - total) : Add(NextBlock(n))
        BY <2>1 DEF ReadBlock
      <3>2. produced \in Nat /\ total \in Nat /\ n \in Nat /\ n >= 1 /\ total + n <= produced
        BY <1>0, <3>1, BytesAssumption DEF TypeOK
      <3>3. CaptureInv'
        BY <1>0, <3>1, <3>2, AddPreserves
      <3>4. total' = total + n
        <4>1. total' = total + Len(NextBlock(n))
          BY <3>1 DEF Add
        <4>2. Len(NextBlock(n)) = n
          BY <3>2 DEF NextBlock
        <4> QED BY <4>1, <4>2
      <3> QED BY <2>1, <3>2, <3>3, <3>4 DEF ReadBlock
    <2>2. CASE ReadEnd
      <3>1. CaptureInv'
        BY <1>0, <2>2, CaptureStands DEF ReadEnd
      <3> QED BY <1>0, <2>2, <3>1 DEF ReadEnd, captureVars, TypeOK
    <2> QED BY <2>1, <2>2 DEF DrainStep
  <1>4. head' \in Seq(1..MaxBytes) /\ tail' \in Seq(1..MaxBytes)
    <2>1. total' \in 0..MaxBytes
      BY <1>0, <1>3, BytesAssumption DEF TypeOK
    <2> QED BY <1>3, <2>1, StreamFollows
  <1>5. TypeOK'
    BY <1>0, <1>1, <1>3, <1>4 DEF TypeOK
  <1>6. Placed'
    BY <1>0, <1>1, <1>3 DEF Placed
  <1>7. Drained'
    BY <1>1, <1>2, <1>3 DEF Drained
  <1>8. Over' /\ Signalled' /\ Untouched'
    BY <1>0, <1>1, <1>2 DEF Over, GroupOver, Signalled, KillIsFinal, Untouched
  <1> QED BY <1>3, <1>5, <1>6, <1>7, <1>8 DEF IInv

-----------------------------------------------------------------------------
(* The steps of the call. *)

\* What a step of the call keeps of the processes and the stream.
Tame ==
    /\ UNCHANGED <<head, tail, total, escaped, produced, newborn, interrupts>>
    /\ life' \in [Procs -> Lives] /\ Alive' \subseteq Alive
    /\ life'[Leader] = life[Leader] \/ life'[Leader] \in {"zombie", "gone"}
    /\ life[Leader] = "gone" => life'[Leader] = "gone"

LEMMA TameFollows ==
    ASSUME IInv, Tame
    PROVE  /\ CaptureInv' /\ LiveMembers' \subseteq LiveMembers
           /\ GroupOver => GroupOver'
           /\ drain' = drain => Drained'
           /\ signals' = signals => KillIsFinal'
  <1>1. CaptureInv'
    BY CaptureStands DEF IInv, Tame, captureVars
  <1>2. LiveMembers' \subseteq LiveMembers
    BY DEF Tame, LiveMembers
  <1>3. GroupOver => GroupOver'
    BY <1>2 DEF GroupOver, Tame
  <1>4. drain' = drain => Drained'
    BY DEF IInv, Drained, Tame
  <1>5. signals' = signals => KillIsFinal'
    BY <1>2 DEF IInv, Signalled, KillIsFinal
  <1> QED BY <1>1, <1>2, <1>3, <1>4, <1>5

LEMMA StillTame ==
    ASSUME IInv, UNCHANGED <<head, tail, total, escaped, produced, newborn, interrupts, life>>
    PROVE  Tame
  BY DEF IInv, TypeOK, Tame, Alive

LEMMA ReapedTame ==
    ASSUME IInv, life' = Reaped,
           UNCHANGED <<head, tail, total, escaped, produced, newborn, interrupts>>
    PROVE  /\ Tame
           /\ life[Leader] # "alive" => life'[Leader] = "gone"
           /\ \A p \in Procs : p # Leader => life'[p] = life[p]
  <1>1. life \in [Procs -> Lives] /\ Leader \in Procs
    BY ProcsAssumption DEF IInv, TypeOK
  <1>2. /\ life'[Leader] = IF life[Leader] = "alive" THEN "alive" ELSE "gone"
        /\ \A p \in Procs : p # Leader => life'[p] = life[p]
        /\ DOMAIN life' = Procs
    BY <1>1 DEF Reaped
  <1>3. life' \in [Procs -> Lives]
    <2>1. "gone" \in Lives
      BY DEF Lives
    <2> QED BY <1>1, <2>1 DEF Reaped
  <1>4. Alive' \subseteq Alive
    BY <1>1, <1>2 DEF Alive
  <1> QED BY <1>1, <1>2, <1>3, <1>4 DEF Tame

\* Where a wait goes when it is over.
LEMMA AfterWaitMeans ==
    ASSUME NEW over \in BOOLEAN, AfterWait(over), phase \in {"run", "grace", "final"}
    PROVE  /\ UNCHANGED <<known, handling, late, signals, finished, cleaned>>
           /\ phase' = "none"
           /\ \/ phase = "run" /\ over /\ timedOut' = FALSE /\ pc' = "reap"
              \/ phase = "run" /\ ~over /\ timedOut' = TRUE /\ pc' = "term"
              \/ phase = "grace" /\ over /\ timedOut' = timedOut /\ pc' = "reap"
              \/ phase = "grace" /\ ~over /\ timedOut' = timedOut /\ pc' = "kill"
              \/ phase = "final" /\ timedOut' = timedOut /\ pc' = "reap"
  <1>1. UNCHANGED <<known, handling, late, signals, finished, cleaned>> /\ phase' = "none"
    BY DEF AfterWait
  <1>2. CASE phase = "run"
    BY <1>1, <1>2 DEF AfterWait
  <1>3. CASE phase = "grace"
    BY <1>1, <1>3 DEF AfterWait
  <1>4. CASE phase = "final"
    BY <1>1, <1>4 DEF AfterWait
  <1> QED BY <1>2, <1>3, <1>4

\* Where a scan goes when it is over.
LEMMA AfterScanMeans ==
    ASSUME NEW exists \in BOOLEAN, AfterScan(exists),
           phase \in {"run", "grace", "final", "check", "verdict"}
    PROVE  /\ UNCHANGED <<known, handling, late, signals, finished>>
           /\ \/ /\ phase = "check" /\ phase' = "none" /\ UNCHANGED <<timedOut, cleaned>>
                 /\ pc' = IF exists THEN "term" ELSE "join"
              \/ /\ phase = "verdict" /\ phase' = "none" /\ UNCHANGED timedOut
                 /\ pc' = "report" /\ cleaned' = ~exists
              \/ /\ phase \in {"run", "grace", "final"} /\ exists
                 /\ pc' = "wait" /\ UNCHANGED <<phase, timedOut, cleaned>>
              \/ /\ phase \in {"run", "grace", "final"} /\ ~exists
                 /\ phase' = "none" /\ pc' = "reap" /\ UNCHANGED cleaned
                 /\ timedOut' = IF phase = "run" THEN FALSE ELSE timedOut
  <1>1. CASE phase = "check"
    BY <1>1 DEF AfterScan, reportVars
  <1>2. CASE phase = "verdict"
    BY <1>2 DEF AfterScan
  <1>3. CASE phase \in {"run", "grace", "final"} /\ exists
    BY <1>3 DEF AfterScan, callVars, reportVars
  <1>4. CASE phase \in {"run", "grace", "final"} /\ ~exists
    <2>1. AfterWait(TRUE)
      BY <1>4 DEF AfterScan
    <2> QED BY <1>4, <2>1, AfterWaitMeans
  <1> QED BY <1>1, <1>2, <1>3, <1>4

LEMMA Parts ==
    ASSUME IInv
    PROVE  TypeOK /\ CaptureInv /\ Placed /\ Drained /\ Over /\ Signalled /\ Untouched
  BY DEF IInv

LEMMA Together ==
    ASSUME TypeOK', CaptureInv', Placed', Drained', Over', Signalled', Untouched'
    PROVE  IInv'
  BY DEF IInv

LEMMA DeadlineKeeps ==
    ASSUME IInv, DeadlinePasses, UNCHANGED <<captureVars, interrupts, drain>>
    PROVE  IInv'
  <1>0. TypeOK /\ CaptureInv /\ Placed /\ Drained /\ Over /\ Signalled /\ Untouched
    BY Parts
  <1>1. /\ pc = "wait" /\ AfterWait(FALSE)
        /\ UNCHANGED <<life, escaped, produced, unread, observed, newborn>>
        /\ UNCHANGED <<head, tail, total, interrupts, drain>>
    BY DEF DeadlinePasses, procVars, scanVars, captureVars
  <1>2. phase \in {"run", "grace", "final"}
    BY <1>0, <1>1 DEF Placed
  <1>3. /\ UNCHANGED <<known, handling, late, signals, finished, cleaned>>
        /\ phase' = "none"
        /\ \/ phase = "run" /\ timedOut' = TRUE /\ pc' = "term"
           \/ phase = "grace" /\ timedOut' = timedOut /\ pc' = "kill"
           \/ phase = "final" /\ timedOut' = timedOut /\ pc' = "reap"
    BY <1>1, <1>2, AfterWaitMeans
  <1>4. Tame
    BY <1>1, StillTame
  <1>5. CaptureInv' /\ Drained' /\ KillIsFinal' /\ (GroupOver => GroupOver')
    BY <1>1, <1>3, <1>4, TameFollows
  <1>6. TypeOK'
    <2>1. pc' \in Places /\ phase' \in Phases
      BY <1>0, <1>3 DEF TypeOK, Places, Phases
    <2>2. timedOut' \in BOOLEAN
      BY <1>0, <1>3 DEF TypeOK
    <2> QED BY <1>0, <1>1, <1>3, <2>1, <2>2 DEF TypeOK
  <1>7. Placed'
    BY <1>0, <1>1, <1>3 DEF Placed, Begun, Places
  <1>8. Over'
    <2>1. phase = "final" => GroupOver
      BY <1>0 DEF Signalled, KillIsFinal, GroupOver
    <2> QED BY <1>3, <1>5, <2>1 DEF Over
  <1>9. Signalled'
    BY <1>0, <1>3, <1>5 DEF Signalled
  <1>10. Untouched'
    BY <1>0, <1>1, <1>2, <1>3 DEF Untouched
  <1> QED BY <1>5, <1>6, <1>7, <1>8, <1>9, <1>10, Together

LEMMA PollKeeps ==
    ASSUME IInv, Poll, UNCHANGED <<captureVars, interrupts, drain>>
    PROVE  IInv'
  <1>0. TypeOK /\ CaptureInv /\ Placed /\ Drained /\ Over /\ Signalled /\ Untouched
    BY Parts
  <1>1. /\ pc = "wait" /\ pc' = "scan" /\ phase' = phase /\ life' = Reaped
        /\ unread' = {p \in Procs : Reaped[p] \in {"alive", "zombie"}} /\ observed' = FALSE
        /\ UNCHANGED <<escaped, produced, newborn, known, handling, late>>
        /\ UNCHANGED <<signals, timedOut, finished, cleaned>>
        /\ UNCHANGED <<head, tail, total, interrupts, drain>>
    BY DEF Poll, BeginScan, reportVars, captureVars
  <1>2. phase \in {"run", "grace", "final"}
    BY <1>0, <1>1 DEF Placed
  <1>3. Tame
    <2>1. life' = Reaped /\ UNCHANGED <<head, tail, total, escaped, produced, newborn, interrupts>>
      BY <1>1
    <2> QED BY <2>1, ReapedTame
  <1>4. CaptureInv' /\ Drained' /\ KillIsFinal'
    BY <1>1, <1>3, TameFollows
  <1>5. TypeOK'
    <2>1. life' \in [Procs -> Lives] /\ unread' \subseteq Procs
      BY <1>1, <1>3 DEF Tame
    <2>2. pc' \in Places /\ phase' \in Phases
      BY <1>0, <1>1 DEF TypeOK, Places
    <2> QED BY <1>0, <1>1, <2>1, <2>2 DEF TypeOK
  <1>6. Placed'
    BY <1>0, <1>1, <1>2 DEF Placed, Begun, Places
  <1>7. Over'
    <2>1. LiveMembers' \subseteq unread'
      BY <1>1 DEF LiveMembers, Alive
    <2> QED BY <1>1, <1>2, <2>1 DEF Over
  <1>8. Signalled'
    BY <1>0, <1>1, <1>4 DEF Signalled
  <1>9. Untouched'
    BY <1>0, <1>1, <1>2 DEF Untouched
  <1> QED BY <1>4, <1>5, <1>6, <1>7, <1>8, <1>9, Together

\* An answer to the question whether the group exists.
LEMMA AnswerKeeps ==
    ASSUME IInv, pc = "scan", NEW exists \in BOOLEAN, AfterScan(exists),
           UNCHANGED <<life, escaped, produced, newborn, head, tail, total, interrupts, drain>>,
           unread' \subseteq Procs, observed' \in BOOLEAN,
           ~exists => LiveMembers \subseteq newborn
    PROVE  IInv'
  <1>0. TypeOK /\ CaptureInv /\ Placed /\ Drained /\ Over /\ Signalled /\ Untouched
    BY Parts
  <1>1. phase \in {"run", "grace", "final", "check", "verdict"}
    BY <1>0 DEF Placed
  <1>2. /\ UNCHANGED <<known, handling, late, signals, finished>>
        /\ \/ /\ phase = "check" /\ phase' = "none" /\ UNCHANGED <<timedOut, cleaned>>
              /\ pc' = IF exists THEN "term" ELSE "join"
           \/ /\ phase = "verdict" /\ phase' = "none" /\ UNCHANGED timedOut
              /\ pc' = "report" /\ cleaned' = ~exists
           \/ /\ phase \in {"run", "grace", "final"} /\ exists
              /\ pc' = "wait" /\ UNCHANGED <<phase, timedOut, cleaned>>
           \/ /\ phase \in {"run", "grace", "final"} /\ ~exists
              /\ phase' = "none" /\ pc' = "reap" /\ UNCHANGED cleaned
              /\ timedOut' = IF phase = "run" THEN FALSE ELSE timedOut
    BY <1>1, AfterScanMeans
  <1>3. Tame
    BY StillTame
  <1>4. CaptureInv' /\ Drained' /\ KillIsFinal' /\ (GroupOver => GroupOver')
    BY <1>2, <1>3, TameFollows
  <1>5. TypeOK'
    <2>1. pc' \in Places
      BY <1>2 DEF Places
    <2>2. phase' \in Phases
      BY <1>0, <1>2 DEF TypeOK, Phases
    <2>3. timedOut' \in BOOLEAN
      BY <1>0, <1>2 DEF TypeOK
    <2>4. cleaned' \in BOOLEAN
      <3>1. cleaned' = cleaned \/ cleaned' = ~exists
        BY <1>2
      <3>2. cleaned \in BOOLEAN
        BY <1>0 DEF TypeOK
      <3> QED BY <3>1, <3>2
    <2>5. UNCHANGED <<known, handling, late, signals, finished>>
      BY <1>2
    <2> QED BY <1>0, <2>1, <2>2, <2>3, <2>4, <2>5 DEF TypeOK
  <1>6. Placed'
    BY <1>0, <1>2 DEF Placed, Begun, Places
  <1>7. Over'
    <2>1. pc' \in {"reap", "join"} => GroupOver
      BY <1>2 DEF GroupOver
    <2>2. pc' = "report" => (known => GroupOver)
      BY <1>0, <1>2 DEF Over
    <2>3. pc' \in {"term", "join", "report", "wait", "reap"} /\ phase' # "verdict"
      BY <1>2
    <2> QED BY <1>2, <1>4, <2>1, <2>2, <2>3 DEF Over
  <1>8. Signalled'
    BY <1>0, <1>2, <1>4 DEF Signalled
  <1>9. Untouched'
    <2>1. UNCHANGED <<handling, signals, life>>
      BY <1>2
    <2>2. CASE phase = "check"
      <3>1. handling' /\ phase' = "none" /\ pc' # "returned"
        BY <1>0, <1>2, <2>2 DEF Untouched
      <3> QED BY <3>1 DEF Untouched
    <2>3. CASE phase = "verdict"
      <3>1. phase' = "none" /\ timedOut' = timedOut /\ pc' = "report"
        BY <1>2, <2>3
      <3> QED BY <1>0, <2>1, <2>3, <3>1 DEF Untouched
    <2>4. CASE phase \in {"run", "grace", "final"} /\ exists
      <3>1. UNCHANGED <<phase, timedOut>> /\ pc' = "wait"
        BY <1>2, <2>4
      <3> QED BY <1>0, <2>1, <2>4, <3>1 DEF Untouched
    <2>5. CASE phase \in {"run", "grace", "final"} /\ ~exists
      <3>1. /\ phase' = "none" /\ pc' = "reap"
            /\ timedOut' = IF phase = "run" THEN FALSE ELSE timedOut
        BY <1>2, <2>5
      <3>2. ~handling /\ ~timedOut' => signals = {}
        BY <1>0, <2>5, <3>1 DEF Untouched, Signalled
      <3> QED BY <2>1, <3>1, <3>2 DEF Untouched
    <2> QED BY <1>1, <2>2, <2>3, <2>4, <2>5
  <1> QED BY <1>4, <1>5, <1>6, <1>7, <1>8, <1>9, Together

LEMMA ScanKeeps ==
    ASSUME IInv, EndScan \/ (\E p \in Procs : ReadEntry(p)),
           UNCHANGED <<captureVars, interrupts, drain>>
    PROVE  IInv'
  <1>0. TypeOK /\ CaptureInv /\ Placed /\ Drained /\ Over /\ Signalled /\ Untouched
    BY Parts
  <1>1. UNCHANGED <<head, tail, total, interrupts, drain>>
    BY DEF captureVars
  <1>2. pc = "scan" /\ UNCHANGED <<life, escaped, produced, newborn>>
    BY DEF EndScan, ReadEntry, procVars
  <1>3. CASE EndScan
    <2>1. PICK exists \in BOOLEAN : exists <=> (~observed /\ Members # {})
      OBVIOUS
    <2>2. unread = {} /\ AfterScan(exists) /\ unread' = unread /\ observed' = observed
      BY <1>3, <2>1 DEF EndScan, scanVars
    <2>3. LiveMembers \subseteq newborn
      BY <1>0, <1>2, <2>2 DEF Over
    <2>4. unread' \subseteq Procs /\ observed' \in BOOLEAN
      BY <1>0, <2>2 DEF TypeOK
    <2> QED BY <1>1, <1>2, <2>2, <2>3, <2>4, AnswerKeeps
  <1>4. ASSUME NEW p \in Procs, ReadEntry(p) PROVE IInv'
    <2>1. CASE p \in LiveMembers
      <3>1. AfterScan(TRUE) /\ unread' = unread \ {p} /\ observed' = TRUE
        BY <1>4, <2>1 DEF ReadEntry
      <3>2. unread' \subseteq Procs /\ observed' \in BOOLEAN
        BY <1>0, <3>1 DEF TypeOK
      <3> QED BY <1>1, <1>2, <3>1, <3>2, AnswerKeeps
    <2>2. CASE p \notin LiveMembers
      <3>1. /\ unread' = unread \ {p} /\ observed' \in BOOLEAN
            /\ UNCHANGED <<pc, known, handling, phase, late, signals, timedOut, finished, cleaned>>
        BY <1>4, <2>2 DEF ReadEntry, callVars, reportVars
      <3>2. Tame
        BY <1>1, <1>2, StillTame
      <3>3. CaptureInv' /\ Drained' /\ KillIsFinal'
        BY <1>1, <3>1, <3>2, TameFollows
      <3>4. LiveMembers' = LiveMembers
        BY <1>2 DEF LiveMembers, Alive
      <3>5. TypeOK'
        BY <1>0, <1>1, <1>2, <3>1 DEF TypeOK
      <3>6. Placed'
        BY <1>0, <1>1, <1>2, <3>1 DEF Placed
      <3>7. Over'
        BY <1>0, <1>1, <1>2, <2>2, <3>1, <3>4 DEF Over, GroupOver
      <3>8. Signalled' /\ Untouched'
        BY <1>0, <1>2, <3>1, <3>3 DEF Signalled, Untouched
      <3> QED BY <3>3, <3>5, <3>6, <3>7, <3>8, Together
    <2> QED BY <2>1, <2>2
  <1> QED BY <1>3, <1>4

-----------------------------------------------------------------------------
(* From the start to the first wait. *)

LEMMA SpawnKeeps ==
    ASSUME IInv, Spawn, UNCHANGED <<captureVars, interrupts>>
    PROVE  IInv'
  <1>0. TypeOK /\ CaptureInv /\ Placed /\ Drained /\ Over /\ Signalled /\ Untouched
    BY Parts
  <1>1. /\ pc = "spawn" /\ pc' = "spawned" /\ life' = [life EXCEPT ![Leader] = "alive"]
        /\ UNCHANGED <<escaped, produced, newborn, unread, observed, known, handling, phase>>
        /\ UNCHANGED <<late, signals, timedOut, finished, cleaned, drain>>
        /\ UNCHANGED <<head, tail, total, interrupts>>
    BY DEF Spawn, scanVars, reportVars, callVars, captureVars
  <1>2. signals = {} /\ drain = "none" /\ ~finished /\ phase = "none" /\ ~known
    BY <1>0, <1>1 DEF Placed, Begun, Places
  <1>4. CaptureInv'
    BY <1>0, CaptureStands
  <1>5. TypeOK'
    <2>1. life' \in [Procs -> Lives]
      BY <1>0, <1>1 DEF TypeOK, Lives
    <2> QED BY <1>0, <1>1, <2>1 DEF TypeOK, Places
  <1>6. Placed' /\ Drained'
    BY <1>1, <1>2 DEF Placed, Drained, Begun, Places
  <1>7. Over'
    BY <1>1, <1>2 DEF Over
  <1>8. Signalled'
    BY <1>1, <1>2 DEF Signalled, KillIsFinal
  <1>9. Untouched'
    BY <1>1, <1>2 DEF Untouched
  <1> QED BY <1>4, <1>5, <1>6, <1>7, <1>8, <1>9, Together

LEMMA SpawnFailsKeeps ==
    ASSUME IInv, SpawnFails, UNCHANGED <<captureVars, interrupts>>
    PROVE  IInv'
  <1>0. TypeOK /\ CaptureInv /\ Placed /\ Drained /\ Over /\ Signalled /\ Untouched
    BY Parts
  <1>1. /\ pc = "spawn" /\ pc' = "join"
        /\ UNCHANGED <<life, escaped, produced, newborn, unread, observed, known, handling>>
        /\ UNCHANGED <<phase, late, signals, timedOut, finished, cleaned, drain>>
        /\ UNCHANGED <<head, tail, total, interrupts>>
    BY DEF SpawnFails, procVars, scanVars, reportVars, callVars, captureVars
  <1>2. /\ signals = {} /\ drain = "none" /\ ~finished /\ phase = "none" /\ ~known
        /\ life[Leader] = "none"
    BY <1>0, <1>1, ProcsAssumption DEF Placed, Begun, Places
  <1>4. CaptureInv'
    BY <1>0, CaptureStands
  <1>5. TypeOK'
    BY <1>0, <1>1 DEF TypeOK, Places
  <1>6. Placed' /\ Drained'
    BY <1>1, <1>2 DEF Placed, Drained, Begun, Places
  <1>7. Over'
    BY <1>1, <1>2 DEF Over
  <1>8. Signalled'
    BY <1>1, <1>2 DEF Signalled, KillIsFinal
  <1>9. Untouched'
    BY <1>1, <1>2 DEF Untouched
  <1> QED BY <1>4, <1>5, <1>6, <1>7, <1>8, <1>9, Together

LEMMA BeginKeeps ==
    ASSUME IInv, Assign \/ Start \/ CallbackFails, UNCHANGED <<captureVars, interrupts>>
    PROVE  IInv'
  <1>0. TypeOK /\ CaptureInv /\ Placed /\ Drained /\ Over /\ Signalled /\ Untouched
    BY Parts
  <1>1. /\ pc \in {"spawned", "started"}
        /\ \/ /\ pc' = "started" /\ known' = TRUE
              /\ UNCHANGED <<handling, phase, late, drain>>
           \/ /\ pc = "started" /\ pc' = "wait" /\ phase' = "run" /\ late' = FALSE
              /\ drain' = "reading" /\ UNCHANGED <<known, handling>>
           \/ /\ pc = "started" /\ pc' = "except" /\ handling' = TRUE
              /\ UNCHANGED <<known, phase, late, drain>>
        /\ UNCHANGED <<life, escaped, produced, newborn, unread, observed>>
        /\ UNCHANGED <<signals, timedOut, finished, cleaned>>
        /\ UNCHANGED <<head, tail, total, interrupts>>
    BY DEF Assign, Start, WaitFor, CallbackFails, procVars, scanVars, reportVars, captureVars
  <1>2. /\ signals = {} /\ drain = "none" /\ ~finished /\ phase = "none"
        /\ pc = "started" => known
    BY <1>0, <1>1 DEF Placed, Begun, Places
  <1>4. CaptureInv'
    BY <1>0, CaptureStands
  <1>5. TypeOK'
    <2>1. pc' \in Places /\ phase' \in Phases
      BY <1>0, <1>1 DEF TypeOK, Places, Phases
    <2>2. known' \in BOOLEAN /\ handling' \in BOOLEAN /\ late' \in BOOLEAN
      BY <1>0, <1>1 DEF TypeOK
    <2>3. drain' \in {"none", "reading", "closed"}
      BY <1>0, <1>1 DEF TypeOK
    <2> QED BY <1>0, <1>1, <2>1, <2>2, <2>3 DEF TypeOK
  <1>6. Placed' /\ Drained'
    BY <1>1, <1>2 DEF Placed, Drained, Begun, Places
  <1>7. Over'
    BY <1>1, <1>2 DEF Over
  <1>8. Signalled'
    BY <1>1, <1>2 DEF Signalled, KillIsFinal
  <1>9. Untouched'
    BY <1>1, <1>2 DEF Untouched
  <1> QED BY <1>4, <1>5, <1>6, <1>7, <1>8, <1>9, Together

-----------------------------------------------------------------------------
(* Ending the group. *)

LEMMA Killed ==
    ASSUME IInv, NEW dying \in SUBSET LiveMembers,
           life' = [p \in Procs |-> IF p \in dying THEN "zombie" ELSE life[p]],
           UNCHANGED <<head, tail, total, escaped, produced, newborn, interrupts>>
    PROVE  /\ Tame
           /\ LiveMembers' \cap dying = {}
  <1>1. life \in [Procs -> Lives] /\ Leader \in Procs /\ "zombie" \in Lives
    BY ProcsAssumption DEF IInv, TypeOK, Lives
  <1>2. life' \in [Procs -> Lives]
    BY <1>1
  <1>3. \A p \in Procs : life'[p] = IF p \in dying THEN "zombie" ELSE life[p]
    OBVIOUS
  <1>4. Alive' \subseteq Alive /\ LiveMembers' \cap dying = {}
    BY <1>3 DEF Alive, LiveMembers
  <1>5. Leader \in dying => life[Leader] = "alive"
    BY DEF LiveMembers, Alive
  <1> QED BY <1>1, <1>2, <1>3, <1>4, <1>5 DEF Tame

LEMMA SignalSentKeeps ==
    ASSUME IInv, SendTerm \/ SendKill, UNCHANGED <<captureVars, interrupts>>
    PROVE  IInv'
  <1>0. TypeOK /\ CaptureInv /\ Placed /\ Drained /\ Over /\ Signalled /\ Untouched
    BY Parts
  <1>1. /\ pc \in {"term", "kill"} /\ pc' = "wait" /\ late' = FALSE
        /\ UNCHANGED <<escaped, produced, newborn, unread, observed, known, handling>>
        /\ UNCHANGED <<timedOut, finished, cleaned, drain, head, tail, total, interrupts>>
    BY DEF SendTerm, SendKill, WaitFor, scanVars, captureVars
  <1>2. /\ Tame
        /\ \/ phase' = "grace" /\ signals' \in {signals, signals \cup {"TERM"}}
           \/ phase' = "final" /\ signals' = signals \cup {"KILL"} /\ LiveMembers' = {}
    <2>1. CASE SendTerm
      <3>1. PICK dying \in SUBSET LiveMembers :
               life' = [p \in Procs |-> IF p \in dying THEN "zombie" ELSE life[p]]
        BY <2>1 DEF SendTerm
      <3>2. Tame
        BY <1>1, <3>1, Killed
      <3>3. phase' = "grace" /\ signals' \in {signals, signals \cup {"TERM"}}
        BY <2>1 DEF SendTerm, WaitFor
      <3> QED BY <3>2, <3>3
    <2>2. CASE SendKill
      <3>1. /\ LiveMembers \in SUBSET LiveMembers
            /\ life' = [p \in Procs |-> IF p \in LiveMembers THEN "zombie" ELSE life[p]]
        BY <2>2 DEF SendKill
      <3>2. Tame /\ LiveMembers' \cap LiveMembers = {}
        BY <1>1, <3>1, Killed
      <3>3. LiveMembers' \subseteq LiveMembers
        BY <3>2, TameFollows
      <3>4. phase' = "final" /\ signals' = signals \cup {"KILL"}
        BY <2>2 DEF SendKill, WaitFor
      <3> QED BY <3>2, <3>3, <3>4
    <2> QED BY <2>1, <2>2
  <1>3. known /\ (handling \/ timedOut)
    BY <1>0, <1>1 DEF Placed, Untouched
  <1>4. CaptureInv' /\ Drained' /\ LiveMembers' \subseteq LiveMembers
    BY <1>1, <1>2, TameFollows
  <1>5. TypeOK'
    <2>1. life' \in [Procs -> Lives]
      BY <1>2 DEF Tame
    <2>2. signals' \subseteq {"TERM", "KILL"} /\ phase' \in Phases
      BY <1>0, <1>2 DEF TypeOK, Phases
    <2> QED BY <1>0, <1>1, <2>1, <2>2 DEF TypeOK, Places
  <1>6. Placed'
    BY <1>0, <1>1, <1>2, <1>3 DEF Placed, Begun, Places
  <1>7. Over'
    BY <1>1, <1>2 DEF Over
  <1>8. Signalled'
    BY <1>0, <1>2, <1>4 DEF Signalled, KillIsFinal
  <1>9. Untouched'
    BY <1>1, <1>2, <1>3 DEF Untouched
  <1> QED BY <1>4, <1>5, <1>6, <1>7, <1>8, <1>9, Together

LEMMA NothingToKillKeeps ==
    ASSUME IInv, NothingToKill, UNCHANGED <<captureVars, interrupts>>
    PROVE  IInv'
  <1>0. TypeOK /\ CaptureInv /\ Placed /\ Drained /\ Over /\ Signalled /\ Untouched
    BY Parts
  <1>1. /\ pc = "kill" /\ Members = {} /\ pc' = "reap"
        /\ UNCHANGED <<life, escaped, produced, newborn, unread, observed, known, handling>>
        /\ UNCHANGED <<phase, late, signals, timedOut, finished, cleaned, drain>>
        /\ UNCHANGED <<head, tail, total, interrupts>>
    BY DEF NothingToKill, procVars, scanVars, reportVars, callVars, captureVars
  <1>2. LiveMembers' = {}
    BY <1>1 DEF Members, LiveMembers, Alive
  <1>3. known /\ (handling \/ timedOut) /\ phase # "verdict"
    BY <1>0, <1>1 DEF Placed, Untouched
  <1>4. CaptureInv' /\ Drained' /\ KillIsFinal'
    BY <1>1, StillTame, TameFollows
  <1>5. TypeOK'
    BY <1>0, <1>1 DEF TypeOK, Places
  <1>6. Placed'
    BY <1>0, <1>1, <1>3 DEF Placed, Begun, Places
  <1>7. Over'
    BY <1>1, <1>2 DEF Over, GroupOver
  <1>8. Signalled'
    BY <1>0, <1>1, <1>4 DEF Signalled
  <1>9. Untouched'
    BY <1>0, <1>1, <1>3 DEF Untouched
  <1> QED BY <1>4, <1>5, <1>6, <1>7, <1>8, <1>9, Together

LEMMA ReapKeeps ==
    ASSUME IInv, Reap, UNCHANGED <<captureVars, interrupts>>
    PROVE  IInv'
  <1>0. TypeOK /\ CaptureInv /\ Placed /\ Drained /\ Over /\ Signalled /\ Untouched
    BY Parts
  <1>1. /\ pc = "reap" /\ pc' = "join" /\ life[Leader] # "alive" /\ life' = Reaped
        /\ UNCHANGED <<escaped, produced, newborn, unread, observed, known, handling>>
        /\ UNCHANGED <<phase, late, signals, timedOut, finished, cleaned, drain>>
        /\ UNCHANGED <<head, tail, total, interrupts>>
    BY DEF Reap, scanVars, reportVars, callVars, captureVars
  <1>2. Tame /\ life'[Leader] = "gone"
    BY <1>1, ReapedTame
  <1>3. GroupOver /\ phase # "verdict"
    BY <1>0, <1>1 DEF Placed, Over
  <1>4. CaptureInv' /\ Drained' /\ KillIsFinal' /\ GroupOver'
    BY <1>1, <1>2, <1>3, TameFollows
  <1>5. TypeOK'
    BY <1>0, <1>1, <1>2 DEF TypeOK, Places, Tame
  <1>6. Placed'
    BY <1>0, <1>1, <1>3 DEF Placed, Begun, Places
  <1>7. Over'
    BY <1>1, <1>4 DEF Over
  <1>8. Signalled'
    BY <1>0, <1>1, <1>4 DEF Signalled
  <1>9. Untouched'
    BY <1>0, <1>1, <1>2, <1>3 DEF Untouched
  <1> QED BY <1>4, <1>5, <1>6, <1>7, <1>8, <1>9, Together

LEMMA CleanUpKeeps ==
    ASSUME IInv, CleanUp, UNCHANGED <<captureVars, interrupts>>
    PROVE  IInv'
  <1>0. TypeOK /\ CaptureInv /\ Placed /\ Drained /\ Over /\ Signalled /\ Untouched
    BY Parts
  <1>1. /\ pc = "except"
        /\ UNCHANGED <<escaped, produced, newborn, known, handling, late, drain>>
        /\ UNCHANGED <<signals, timedOut, finished, cleaned, head, tail, total, interrupts>>
    BY DEF CleanUp, reportVars, captureVars
  <1>2. /\ Tame /\ phase' \in {phase, "check"} /\ unread' \subseteq Procs /\ observed' \in BOOLEAN
        /\ \/ ~known /\ pc' = "join" /\ phase' = phase
           \/ known /\ pc' = "term" /\ phase' = phase
           \/ known /\ pc' = "scan" /\ phase' = "check" /\ LiveMembers' \subseteq unread'
    <2>1. CASE UNCHANGED <<life, scanVars, phase>>
      <3>1. Tame
        BY <1>1, <2>1, StillTame
      <3>2. \/ ~known /\ pc' = "join"
            \/ known /\ pc' = "term"
            \/ known /\ pc' = "scan" /\ phase' = "check"
        BY DEF CleanUp, BeginScan
      <3>3. pc' = "scan" => LiveMembers' \subseteq unread'
        <4>1. pc' = "scan" => life' = Reaped
                 /\ unread' = {p \in Procs : Reaped[p] \in {"alive", "zombie"}}
          BY DEF CleanUp, BeginScan
        <4> QED BY <4>1 DEF LiveMembers, Alive
      <3>4. unread' \subseteq Procs /\ observed' \in BOOLEAN
        BY <1>0, <2>1 DEF TypeOK, scanVars
      <3> QED BY <2>1, <3>1, <3>2, <3>3, <3>4
    <2>2. CASE known /\ life' = Reaped /\ BeginScan("check", Reaped)
      <3>1. Tame
        BY <1>1, <2>2, ReapedTame
      <3>2. /\ pc' = "scan" /\ phase' = "check" /\ observed' = FALSE
            /\ unread' = {p \in Procs : Reaped[p] \in {"alive", "zombie"}}
        BY <2>2 DEF BeginScan
      <3>3. LiveMembers' \subseteq unread'
        BY <2>2, <3>2 DEF LiveMembers, Alive
      <3> QED BY <2>2, <3>1, <3>2, <3>3
    <2> QED BY <2>1, <2>2 DEF CleanUp
  <1>3. handling /\ phase # "verdict"
    BY <1>0, <1>1 DEF Placed
  <1>4. CaptureInv' /\ Drained' /\ KillIsFinal'
    BY <1>1, <1>2, TameFollows
  <1>5. TypeOK'
    <2>1. life' \in [Procs -> Lives] /\ pc' \in Places /\ phase' \in Phases
      BY <1>0, <1>2 DEF TypeOK, Tame, Places, Phases
    <2> QED BY <1>0, <1>1, <1>2, <2>1 DEF TypeOK
  <1>6. Placed'
    BY <1>0, <1>1, <1>2, <1>3 DEF Placed, Begun, Places
  <1>7. Over'
    BY <1>1, <1>2, <1>3 DEF Over
  <1>8. Signalled'
    BY <1>0, <1>1, <1>2, <1>4 DEF Signalled
  <1>9. Untouched'
    BY <1>1, <1>2, <1>3 DEF Untouched
  <1> QED BY <1>4, <1>5, <1>6, <1>7, <1>8, <1>9, Together

-----------------------------------------------------------------------------
(* The verdict and the report. *)

LEMMA JoinKeeps ==
    ASSUME IInv, Join, UNCHANGED <<captureVars, interrupts>>
    PROVE  IInv'
  <1>0. TypeOK /\ CaptureInv /\ Placed /\ Drained /\ Over /\ Signalled /\ Untouched
    BY Parts
  <1>1. /\ pc = "join" /\ finished' = (drain # "reading")
        /\ UNCHANGED <<life, escaped, produced, newborn, signals, timedOut, known, handling>>
        /\ UNCHANGED <<late, drain, head, tail, total, interrupts>>
    BY DEF Join, procVars, captureVars
  <1>2. /\ unread' \subseteq Procs /\ observed' \in BOOLEAN /\ cleaned' \in BOOLEAN
        /\ \/ /\ known /\ pc' = "scan" /\ phase' = "verdict" /\ LiveMembers' \subseteq unread'
           \/ ~known /\ pc' = "report" /\ phase' = phase
    <2>1. CASE known
      <3>1. /\ pc' = "scan" /\ phase' = "verdict" /\ observed' = FALSE /\ cleaned' = cleaned
            /\ unread' = {p \in Procs : life[p] \in {"alive", "zombie"}}
        BY <2>1 DEF Join, BeginScan
      <3>2. LiveMembers' \subseteq unread'
        BY <1>1, <3>1 DEF LiveMembers, Alive
      <3> QED BY <1>0, <2>1, <3>1, <3>2 DEF TypeOK
    <2>2. CASE ~known
      BY <1>0, <2>2 DEF Join, TypeOK, scanVars
    <2> QED BY <2>1, <2>2
  <1>3. (known => GroupOver) /\ phase # "verdict"
    BY <1>0, <1>1 DEF Placed, Over
  <1>4. CaptureInv' /\ Drained' /\ KillIsFinal' /\ (GroupOver => GroupOver')
    BY <1>1, StillTame, TameFollows
  <1>5. TypeOK'
    <2>1. pc' \in Places /\ phase' \in Phases
      BY <1>0, <1>2 DEF TypeOK, Places, Phases
    <2>2. finished' \in BOOLEAN
      BY <1>1
    <2> QED BY <1>0, <1>1, <1>2, <2>1, <2>2 DEF TypeOK
  <1>6. Placed'
    BY <1>0, <1>1, <1>2, <1>3 DEF Placed, Begun, Places
  <1>7. Over'
    BY <1>1, <1>2, <1>3, <1>4 DEF Over
  <1>8. Signalled'
    BY <1>0, <1>1, <1>2, <1>4 DEF Signalled
  <1>9. Untouched'
    BY <1>0, <1>1, <1>2, <1>3 DEF Untouched
  <1> QED BY <1>4, <1>5, <1>6, <1>7, <1>8, <1>9, Together

LEMMA ReportKeeps ==
    ASSUME IInv, Report, UNCHANGED <<captureVars, interrupts>>
    PROVE  IInv'
  <1>0. TypeOK /\ CaptureInv /\ Placed /\ Drained /\ Over /\ Signalled /\ Untouched
    BY Parts
  <1>1. /\ pc = "report" /\ pc' = IF handling THEN "raised" ELSE "returned"
        /\ UNCHANGED <<life, escaped, produced, newborn, unread, observed, known, handling>>
        /\ UNCHANGED <<phase, late, signals, timedOut, finished, cleaned, drain>>
        /\ UNCHANGED <<head, tail, total, interrupts>>
    BY DEF Report, procVars, scanVars, reportVars, callVars, captureVars
  <1>3. (known => GroupOver) /\ phase # "verdict"
    BY <1>0, <1>1 DEF Placed, Over
  <1>4. CaptureInv' /\ Drained' /\ KillIsFinal' /\ (GroupOver => GroupOver')
    BY <1>1, StillTame, TameFollows
  <1>5. TypeOK'
    BY <1>0, <1>1 DEF TypeOK, Places
  <1>6. Placed'
    BY <1>0, <1>1, <1>3 DEF Placed, Begun, Places
  <1>7. Over'
    BY <1>1, <1>3, <1>4 DEF Over
  <1>8. Signalled'
    BY <1>0, <1>1, <1>4 DEF Signalled
  <1>9. Untouched'
    BY <1>0, <1>1, <1>3 DEF Untouched
  <1> QED BY <1>4, <1>5, <1>6, <1>7, <1>8, <1>9, Together

LEMMA InterruptKeeps ==
    ASSUME IInv, Interrupt
    PROVE  IInv'
  <1>0. TypeOK /\ CaptureInv /\ Placed /\ Drained /\ Over /\ Signalled /\ Untouched
    BY Parts
  <1>1. /\ interrupts < MaxInterrupts /\ interrupts' = interrupts + 1
        /\ UNCHANGED <<life, escaped, produced, newborn, unread, observed, known>>
        /\ UNCHANGED <<phase, late, signals, timedOut, finished, cleaned, drain>>
        /\ UNCHANGED <<head, tail, total>>
    BY DEF Interrupt, procVars, scanVars, reportVars, captureVars
  <1>2. \/ /\ pc' = "escaped" /\ handling' = handling
           /\ handling \/ pc \in {"join", "report"} \/ phase = "verdict"
        \/ /\ pc' = "except" /\ handling' = TRUE /\ phase # "verdict"
    BY DEF Interrupt
  <1>3. Alive' = Alive /\ LiveMembers' = LiveMembers /\ GroupOver' = GroupOver
    BY <1>1 DEF Alive, LiveMembers, GroupOver
  <1>4. CaptureInv'
    BY <1>0, CaptureStands DEF Interrupt
  <1>5. TypeOK'
    <2>1. interrupts' \in 0..MaxInterrupts
      BY <1>0, <1>1, InterruptAssumption DEF TypeOK
    <2>2. pc' \in Places /\ handling' \in BOOLEAN
      BY <1>0, <1>2 DEF TypeOK, Places
    <2> QED BY <1>0, <1>1, <2>1, <2>2 DEF TypeOK
  <1>6. Placed' /\ Drained'
    BY <1>0, <1>1, <1>2, <1>3 DEF Placed, Drained, Begun, Places
  <1>7. Over'
    BY <1>0, <1>1, <1>2, <1>3 DEF Over
  <1>8. Signalled'
    BY <1>0, <1>1, <1>3 DEF Signalled, KillIsFinal
  <1>9. Untouched'
    BY <1>0, <1>1, <1>2 DEF Untouched
  <1> QED BY <1>4, <1>5, <1>6, <1>7, <1>8, <1>9, Together

LEMMA TimeKeeps ==
    ASSUME IInv, TimePasses \/ UNCHANGED vars
    PROVE  IInv'
  <1>0. TypeOK /\ CaptureInv /\ Placed /\ Drained /\ Over /\ Signalled /\ Untouched
    BY Parts
  <1>1. /\ late' \in BOOLEAN
        /\ UNCHANGED <<life, escaped, produced, newborn, unread, observed, known, handling>>
        /\ UNCHANGED <<phase, pc, signals, timedOut, finished, cleaned, drain, interrupts>>
        /\ UNCHANGED <<head, tail, total>>
    BY <1>0 DEF TimePasses, vars, procVars, scanVars, reportVars, callVars, captureVars, TypeOK
  <1>3. Alive' = Alive /\ LiveMembers' = LiveMembers /\ GroupOver' = GroupOver
    BY <1>1 DEF Alive, LiveMembers, GroupOver
  <1>4. CaptureInv'
    BY <1>0, CaptureStands DEF TimePasses, vars
  <1>5. TypeOK'
    BY <1>0, <1>1 DEF TypeOK
  <1>6. Placed' /\ Drained'
    BY <1>0, <1>1, <1>3 DEF Placed, Drained
  <1>7. Over'
    BY <1>0, <1>1, <1>3 DEF Over
  <1>8. Signalled'
    BY <1>0, <1>1, <1>3 DEF Signalled, KillIsFinal
  <1>9. Untouched'
    BY <1>0, <1>1 DEF Untouched
  <1> QED BY <1>4, <1>5, <1>6, <1>7, <1>8, <1>9, Together

-----------------------------------------------------------------------------
(* The theorems. *)

LEMMA InitIInv ==
    ASSUME Init
    PROVE  IInv
  <1>1. /\ life = [p \in Procs |-> "none"] /\ escaped = {} /\ produced = 0
        /\ pc = "spawn" /\ known = FALSE /\ handling = FALSE /\ phase = "none" /\ late = FALSE
        /\ unread = {} /\ observed = FALSE /\ signals = {} /\ timedOut = FALSE
        /\ finished = FALSE /\ cleaned = FALSE /\ drain = "none" /\ interrupts = 0
        /\ newborn = {} /\ CaptureInit
    BY DEF Init
  <1>2. CaptureInv
    BY <1>1, CaptureStarts
  <1>3. total = 0
    BY <1>1 DEF CaptureInit
  <1>4. head \in Seq(1..MaxBytes) /\ tail \in Seq(1..MaxBytes)
    BY <1>2, <1>3, StreamTypes, BytesAssumption
  <1>5. TypeOK
    <2>1. life \in [Procs -> Lives]
      BY <1>1 DEF Lives
    <2>2. pc \in Places /\ phase \in Phases
      BY <1>1 DEF Places, Phases
    <2>3. produced \in 0..MaxBytes /\ total \in 0..produced /\ interrupts \in 0..MaxInterrupts
      BY <1>1, <1>3, BytesAssumption, InterruptAssumption
    <2> QED BY <1>1, <1>4, <2>1, <2>2, <2>3 DEF TypeOK
  <1>6. Placed /\ Drained
    BY <1>1 DEF Placed, Drained
  <1>7. Over
    BY <1>1 DEF Over
  <1>8. Signalled
    BY <1>1 DEF Signalled, KillIsFinal
  <1>9. Untouched
    BY <1>1 DEF Untouched
  <1> QED BY <1>2, <1>5, <1>6, <1>7, <1>8, <1>9 DEF IInv

LEMMA StepIInv ==
    ASSUME IInv, [Next]_vars
    PROVE  IInv'
  <1>1. CASE ProcessStep
    BY <1>1, ProcessKeeps
  <1>2. CASE DrainStep
    BY <1>2, DrainKeeps
  <1>3. CASE WaitStep /\ UNCHANGED <<captureVars, interrupts>>
    BY <1>3, PollKeeps, DeadlineKeeps, ScanKeeps DEF WaitStep
  <1>4. CASE CallStep /\ UNCHANGED <<captureVars, interrupts>>
    BY <1>4, SpawnKeeps, SpawnFailsKeeps, BeginKeeps, SignalSentKeeps, NothingToKillKeeps,
       ReapKeeps, CleanUpKeeps, JoinKeeps, ReportKeeps DEF CallStep
  <1>5. CASE Interrupt
    BY <1>5, InterruptKeeps
  <1>6. CASE TimePasses \/ UNCHANGED vars
    BY <1>6, TimeKeeps
  <1> QED BY <1>1, <1>2, <1>3, <1>4, <1>5, <1>6 DEF Next, SupervisorStep

LEMMA Invariant == Spec => []IInv
  <1>1. Init => IInv
    BY InitIInv
  <1>2. IInv /\ [Next]_vars => IInv'
    BY StepIInv
  <1> QED BY <1>1, <1>2, PTL DEF Spec

\* However the tool forks, leaves its group, ignores signals and ends, and
\* wherever interrupts hit the call: when it is over, the group it started has
\* nobody alive whom a scan could have seen, and SIGKILL is the last word.
THEOREM GroupAlwaysEnded == Spec => []GroupIsEnded
<1>1. IInv => GroupIsEnded
  <2>1. IInv => NobodyLeftBehind
    BY DEF IInv, Over, GroupOver, NobodyLeftBehind, Ended
  <2>2. IInv => KillIsFinal
    BY DEF IInv, Signalled
  <2> QED BY <2>1, <2>2 DEF GroupIsEnded
<1> QED BY <1>1, Invariant, PTL

\* What a supervised call reports of its tool is so: a stream reported complete
\* has been read to an end nobody can write behind, and a result that is not
\* timed out was not influenced by a signal.
THEOREM ReportAlwaysTrue == Spec => []ReportIsTrue
<1>1. IInv => ReportIsTrue
  <2>1. IInv => TypeOK
    BY DEF IInv
  <2>2. IInv => CompleteIsAll
    BY DEF IInv, TypeOK, Placed, Drained, CompleteIsAll
  <2>3. IInv => UntouchedUnlessTimedOut
    BY DEF IInv, Untouched, UntouchedUnlessTimedOut
  <2> QED BY <2>1, <2>2, <2>3 DEF ReportIsTrue
<1> QED BY <1>1, Invariant, PTL

\* The capture of a supervised call holds exactly the first and the last bytes
\* the tool has written, at every moment of the call.
THEOREM CallCaptureExact == Spec => []RetentionExact
<1>1. IInv => RetentionExact
  BY DEF IInv, CaptureInv
<1> QED BY <1>1, Invariant, PTL
=============================================================================
