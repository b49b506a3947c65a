------------------------------ MODULE GitReader ------------------------------
(***************************************************************************)
(* The reusable `git cat-file --batch` process of a worker (GitBatch of    *)
(* srcmove_history/git.py) as a value: whether the process lives and what  *)
(* it has written to its pipe that nobody has read.  The answer to a       *)
(* request is a header line followed by the body, or one line that says    *)
(* the object is missing.  A body is one element here: what matters is     *)
(* whether it was read, and an unread rest of it reads as a line that is   *)
(* no header.                                                              *)
(***************************************************************************)
EXTENDS Naturals, Sequences

CONSTANTS
    Blobs,       \* the Git blobs the pairs refer to
    LostBlobs    \* those git answers `missing`

ASSUME BlobAssumption == LostBlobs \subseteq Blobs

Token(kind, b) == [kind |-> kind, blob |-> b]
Answer(b) == IF b \in LostBlobs THEN <<Token("missing", b)>>
             ELSE <<Token("header", b), Token("body", b)>>

NewReader == [alive |-> TRUE, pipe |-> << >>]

\* The request written and the header line read.
AfterHeader(r, b) == [r EXCEPT !.pipe = Tail(@ \o Answer(b))]
HeaderLine(r, b) == Head(r.pipe \o Answer(b))
HeaderFits(r, b) == HeaderLine(r, b).kind = "header" /\ HeaderLine(r, b).blob = b

\* What one _write_blob can come to: the reader it leaves, how it ended and
\* the blob whose bytes are in the target.  A target that cannot be created
\* or written leaves the body in the pipe; `parent` is a failing mkdir of the
\* target's directory, which no handler turns into an export failure.
ReadEnd(r, end, b) == [reader |-> r, end |-> end, bytes |-> b]
Reads(r, b) ==
    IF ~r.alive THEN {ReadEnd(r, "exited", b)}
    ELSE LET headed == AfterHeader(r, b)
         IN  IF ~HeaderFits(r, b) THEN {ReadEnd(headed, "malformed", b)}
             ELSE LET body == Head(headed.pipe).blob
                  IN  {ReadEnd([headed EXCEPT !.pipe = Tail(@)], "written", body),
                       ReadEnd(headed, "disk", b),
                       ReadEnd(headed, "parent", b)}

\* The process is killed before the request, under it (the header comes back
\* empty) or as the request is written (a broken pipe).
Killed(r) == [r EXCEPT !.alive = FALSE]
DyingReads(r, b) == {ReadEnd(Killed(r), "malformed", b), ReadEnd(Killed(r), "pipe", b)}
=============================================================================
