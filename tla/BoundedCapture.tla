--------------------------- MODULE BoundedCapture ---------------------------
(***************************************************************************)
(* The bounded capture of one output stream (_BoundedCapture of            *)
(* srcmove_runtime/process_supervision.py): of a stream that arrives in    *)
(* blocks of any size it keeps a head and a sliding tail, and it counts    *)
(* the whole.  The n-th byte of the stream is represented by the number n, *)
(* so what is kept says which bytes these are.                             *)
(***************************************************************************)
EXTENDS Naturals, Sequences

CONSTANTS Limit,     \* the limit field: bytes retained at most
          MaxBytes   \* bound on the length of the stream

ASSUME LimitAssumption == Limit \in Nat /\ Limit >= 2   \* run_supervised_process
ASSUME BytesAssumption == MaxBytes \in Nat

VARIABLES head, tail,  \* _head and _tail
          total        \* _total

captureVars == <<head, tail, total>>

HeadLimit == Limit \div 2
TailLimit == Limit - HeadLimit

Lesser(a, b) == IF a <= b THEN a ELSE b

\* The last n elements of s, or all of it.
Suffix(s, n) == SubSeq(s, Len(s) - Lesser(n, Len(s)) + 1, Len(s))

\* The n bytes that follow the ones already counted.
NextBlock(n) == [i \in 1..n |-> total + i]

CaptureInit == head = <<>> /\ tail = <<>> /\ total = 0

\* Faulty, unused: keeps the newest tail without what the block gave the head.
AddTailOnly(block) ==
    LET room == Lesser(HeadLimit - Len(head), Len(block))
    IN /\ total' = total + Len(block)
       /\ head' = head \o SubSeq(block, 1, room)
       /\ tail' = Suffix(tail \o block, TailLimit)

\* Faulty, unused: counts the rest of the block twice.
AddCountedTwice(block) ==
    LET room == Lesser(HeadLimit - Len(head), Len(block))
    IN /\ total' = total + 2 * Len(block) - room
       /\ head' = head \o SubSeq(block, 1, room)
       /\ tail' = Suffix(tail \o SubSeq(block, room + 1, Len(block)), TailLimit)

\* add: the block first fills the head, the rest of it goes through the tail.
Add(block) ==
    LET room == Lesser(HeadLimit - Len(head), Len(block))
    IN /\ total' = total + Len(block)
       /\ head' = head \o SubSeq(block, 1, room)
       /\ tail' = Suffix(tail \o SubSeq(block, room + 1, Len(block)), TailLimit)

CaptureNext == \E n \in 1..MaxBytes : total + n <= MaxBytes /\ Add(NextBlock(n))

CaptureSpec == CaptureInit /\ [][CaptureNext]_captureVars

\* snapshot: the bytes kept and the number of those left out.
Retained == head \o tail
Omitted == total - Len(Retained)

\* However the stream was cut into blocks, the capture holds its first bytes
\* and its last ones, as many of each as the limit allows, in order and without
\* repeating one, and nothing is left out of a stream within the limit.
RetentionExact ==
    /\ Len(head) = Lesser(total, HeadLimit)
    /\ Len(tail) = Lesser(total - Len(head), TailLimit)
    /\ \A i \in 1..Len(head) : head[i] = i
    /\ \A i \in 1..Len(tail) : tail[i] = total - Len(tail) + i
    /\ Omitted = IF total <= Limit THEN 0 ELSE total - Limit
=============================================================================
