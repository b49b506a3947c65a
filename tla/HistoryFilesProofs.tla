------------------------- MODULE HistoryFilesProofs --------------------------
(***************************************************************************)
(* For every number of pairs, threads, operations and troubles: what the   *)
(* files of an analysis hold is whole and from one definition, snapshots   *)
(* repeat the rows, and a run removes a pair's directory neither before    *)
(* the pair is sealed nor never.                                           *)
(*                                                                         *)
(* The argument has four parts: where an operation is tells what it has    *)
(* done to the database; nothing works outside of the pairs; what works or *)
(* has returned is of the definition's tool, and in a run is one of the    *)
(* pairs after the sealed ones, each of them once; and what a comparison   *)
(* records is what it made.                                                *)
(***************************************************************************)
EXTENDS HistoryFiles, FiniteSetTheorems, TLAPS

Statuses == {"none", "no_analyzable_change", "orchestration_failed", "export_failed",
             "srcdiff_failed", "srcmove_failed", "completed"}
Versions == [tool : Nat, commit : Nat]
Cleaning == {"clean", "rmdir", "open"}
InRun == Cleaning \cup Creating \cup {"verify", "finish"}
Saving == {"copy", "record", "write"}
InBoth == {"pairs", "stopping", "aborting"}
Resting == {"idle", "verify"} \cup Cleaning \cup Creating

-----------------------------------------------------------------------------
(* The inductive invariant. *)

\* Of the sessions, directories and outcomes, what the argument needs.
ExecutorTypes ==
    /\ DOMAIN worker = Workers
    /\ \A w \in Workers :
         /\ DOMAIN worker[w] = {"at", "pair", "own", "tool", "reader"}
         /\ worker[w].at \in Stages
         /\ IF worker[w].at \in {"closed", "idle"} THEN worker[w].pair = NoPair
            ELSE worker[w].pair \in Pairs
    /\ DOMAIN pairDir = Pairs
    /\ \A p \in Pairs : DOMAIN pairDir[p] = {"by", "bytes"}
    /\ DOMAIN outcome = Pairs
    /\ \A p \in Pairs : outcome[p].status \in Statuses
    /\ workerDirs \subseteq Workers

FileTypes ==
    /\ temp \in {"none", "empty", "filled"} /\ dbLinks \in 0..2
    /\ definition \in Versions /\ chosen \in Versions
    /\ rows \in Seq([status : Statuses, tool : Nat]) /\ Sealed \subseteq Pairs
    /\ installed \in Nat /\ tip \in {1, 2}

PlaceTypes ==
    /\ op \in {"none", "run", "compare"}
    /\ pc \in {"idle"} \cup InRun \cup Saving \cup InBoth
    /\ op = "none" <=> pc = "idle"
    /\ pc \in InRun => op = "run"
    /\ pc \in Saving => op = "compare"

ComparisonTypes ==
    /\ DOMAIN exported = Pairs /\ DOMAIN record = Pairs /\ DOMAIN matched = Pairs
    /\ op = "compare" => request.pair \in Pairs

TypeInv == ExecutorTypes /\ FileTypes /\ PlaceTypes /\ ComparisonTypes

\* Where an operation is tells what there is of the database.
Whole ==
    /\ dbLinks = 2 => temp = "filled"
    /\ dbLinks > 0 => definition.commit # 0 /\ definition.commit \in objects \cap retained
    /\ dbLinks = 0 => rows = << >>
    /\ pc \in Creating \ {"unlink"} => dbLinks = 0
    /\ pc = "unlink" => dbLinks = 2
    /\ pc \in {"verify", "finish"} \cup Saving \cup InBoth => dbLinks = 1
    /\ pc = "link" => temp = "filled"
    /\ pc \in {"admit", "retain", "temp", "fill", "link"} => chosen.commit # 0
    /\ pc \in {"temp", "fill", "link"} => chosen.commit \in objects \cap retained

\* Nothing works, and nothing is left in memory or known on disk, outside of
\* the pairs.
Rests == pc \in Resting => /\ worker = AllClosed /\ owned = {} /\ outcome = NoOutcomes
                           /\ pairDir = NoDirectories /\ workerDirs = {}
                           /\ unsettled = NoPair

Working(w) == worker[w].at \notin {"closed", "idle"}

OfOneTool ==
    /\ OneTool
    /\ \A p \in Returned : outcome[p].tool = definition.tool
    /\ \A w \in Workers : Working(w) => worker[w].tool = definition.tool

\* A run gives out the pairs after the sealed ones, each of them once.
InSequence ==
    op = "run" /\ pc \in {"pairs", "stopping"} =>
        /\ \E k \in Nat : Given \ {NoPair} = 1..k
        /\ \A w \in Workers : worker[w].pair \notin Sealed \cup Returned
        /\ Sealed \cap Returned = {}
        /\ \A v, w \in Workers : v # w /\ Working(v) => worker[v].pair # worker[w].pair

\* Every directory there is belongs to a pair that is given out and not settled.
Accounted ==
    op = "run" /\ pc \in {"pairs", "stopping"} =>
        /\ \A p \in Pairs : pairDir[p].by # Nobody =>
              p \in owned /\ p \in Busy \cup Returned \cup {unsettled}
        /\ unsettled # NoPair => unsettled \in Sealed
        /\ \A w \in workerDirs : worker[w].at # "closed"

Settled == op = "run" /\ pc = "stopping" => Complete /\ unsettled = NoPair

\* What is recorded of a pair is of one comparison that repeated its row.
Recorded ==
    /\ \A p \in Pairs : record[p] \in {NoFiles, Torn} \/
          \E m \in matched[p] : \A n \in DOMAIN record[p] : record[p][n] = m[n]
    /\ pc \in Saving /\ request.byPair => made \in matched[request.pair]
    /\ pc \in {"record", "write"} => request.byPair

IInv == /\ TypeInv /\ Whole /\ Rests /\ OfOneTool
        /\ InSequence /\ Accounted /\ Settled /\ NothingLeftBehind
        /\ Recorded /\ ExportedFromOneMatch

-----------------------------------------------------------------------------
(* The steps of the executor. *)

\* A session goes on with its pair, and may have made the pair's directory.
Stays(w) ==
    /\ \A v \in Workers : v # w => worker'[v] = worker[v]
    /\ worker'[w].pair = worker[w].pair /\ worker'[w].tool = worker[w].tool
    /\ Working(w)'
    /\ UNCHANGED outcome
    /\ owned \subseteq owned'
    /\ \A p \in Pairs : \/ pairDir'[p].by = pairDir[p].by
                        \/ p = worker[w].pair /\ p \in owned' /\ pairDir'[p].by # Nobody

\* A session returns its pair.
Returns(w) ==
    /\ \A v \in Workers : v # w => worker'[v] = worker[v]
    /\ worker'[w].at = "idle" /\ worker'[w].pair = NoPair
    /\ outcome'[worker[w].pair].status # "none"
    /\ outcome'[worker[w].pair].tool = worker[w].tool
    /\ \A p \in Pairs : p # worker[w].pair => outcome'[p] = outcome[p]
    /\ UNCHANGED <<owned, pairDir>>

LEMMA SessionMoves ==
    ASSUME ExecutorTypes, NEW w \in Workers, NEW s,
           DOMAIN s = {"at", "pair", "own", "tool", "reader"}, s.at \in Stages,
           IF s.at \in {"closed", "idle"} THEN s.pair = NoPair ELSE s.pair \in Pairs,
           worker' = [worker EXCEPT ![w] = s]
    PROVE  /\ DOMAIN worker' = Workers
           /\ worker'[w] = s
           /\ \A v \in Workers : v # w => worker'[v] = worker[v]
           /\ \A v \in Workers :
                /\ DOMAIN worker'[v] = {"at", "pair", "own", "tool", "reader"}
                /\ worker'[v].at \in Stages
                /\ IF worker'[v].at \in {"closed", "idle"} THEN worker'[v].pair = NoPair
                   ELSE worker'[v].pair \in Pairs
  <1>1. DOMAIN worker' = Workers /\ worker'[w] = s
        /\ \A v \in Workers : v # w => worker'[v] = worker[v]
    BY DEF ExecutorTypes
  <1>2. ASSUME NEW v \in Workers
        PROVE  /\ DOMAIN worker'[v] = {"at", "pair", "own", "tool", "reader"}
               /\ worker'[v].at \in Stages
               /\ IF worker'[v].at \in {"closed", "idle"} THEN worker'[v].pair = NoPair
                  ELSE worker'[v].pair \in Pairs
    <2>1. CASE v = w
      BY <2>1, <1>1
    <2>2. CASE v # w
      BY <2>2, <1>1 DEF ExecutorTypes
    <2> QED BY <2>1, <2>2
  <1> QED BY <1>1, <1>2

LEMMA StageMoves ==
    ASSUME ExecutorTypes, NEW w \in Workers, Working(w),
           NEW a \in Stages \ {"closed", "idle"}, UNCHANGED <<pairDir, outcome, owned, workerDirs>>,
           worker' = [worker EXCEPT ![w].at = a]
    PROVE  ExecutorTypes' /\ Stays(w)
  <1> DEFINE s == [worker[w] EXCEPT !.at = a]
  <1>1. /\ DOMAIN s = {"at", "pair", "own", "tool", "reader"} /\ s.at = a
        /\ s.pair = worker[w].pair /\ s.tool = worker[w].tool
    BY DEF ExecutorTypes
  <1>2. worker' = [worker EXCEPT ![w] = s]
    OBVIOUS
  <1>3. s.pair \in Pairs /\ s.at \notin {"closed", "idle"} /\ s.at \in Stages
    BY <1>1 DEF ExecutorTypes, Working
  <1> HIDE DEF s
  <1>4. /\ DOMAIN worker' = Workers
        /\ worker'[w] = s
        /\ \A v \in Workers : v # w => worker'[v] = worker[v]
        /\ \A v \in Workers :
             /\ DOMAIN worker'[v] = {"at", "pair", "own", "tool", "reader"}
             /\ worker'[v].at \in Stages
             /\ IF worker'[v].at \in {"closed", "idle"} THEN worker'[v].pair = NoPair
                ELSE worker'[v].pair \in Pairs
    BY <1>1, <1>2, <1>3, SessionMoves
  <1>5. ExecutorTypes'
    BY <1>4 DEF ExecutorTypes
  <1> QED BY <1>1, <1>3, <1>4, <1>5 DEF Stays, Working

LEMMA ReturnMoves ==
    ASSUME ExecutorTypes, NEW w \in Workers, Working(w),
           NEW reader, NEW status \in Statuses \ {"none"}, NEW valid, NEW own,
           ReturnWith(w, reader, status, valid, own), UNCHANGED <<owned, pairDir, workerDirs>>
    PROVE  ExecutorTypes' /\ Returns(w)
  <1> DEFINE s == [worker[w] EXCEPT !.at = "idle", !.pair = NoPair, !.reader = reader]
             o == [status |-> status, valid |-> valid, own |-> own, tool |-> worker[w].tool]
             q == worker[w].pair
  <1>1. DOMAIN s = {"at", "pair", "own", "tool", "reader"} /\ s.at = "idle" /\ s.pair = NoPair
    BY DEF ExecutorTypes
  <1>2. worker' = [worker EXCEPT ![w] = s]
    BY DEF ReturnWith
  <1>3. s.at \in Stages /\ s.at \in {"closed", "idle"}
    BY <1>1 DEF Stages
  <1>4. q \in Pairs
    BY DEF ExecutorTypes, Working
  <1>5. o.status = status /\ o.tool = worker[w].tool
    OBVIOUS
  <1>6. outcome' = [outcome EXCEPT ![q] = o]
    BY DEF ReturnWith
  <1> HIDE DEF s, o
  <1>7. /\ DOMAIN worker' = Workers
        /\ worker'[w] = s
        /\ \A v \in Workers : v # w => worker'[v] = worker[v]
        /\ \A v \in Workers :
             /\ DOMAIN worker'[v] = {"at", "pair", "own", "tool", "reader"}
             /\ worker'[v].at \in Stages
             /\ IF worker'[v].at \in {"closed", "idle"} THEN worker'[v].pair = NoPair
                ELSE worker'[v].pair \in Pairs
    BY <1>1, <1>2, <1>3, SessionMoves
  <1>8. /\ DOMAIN outcome' = Pairs /\ outcome'[q] = o
        /\ \A p \in Pairs : p # q => outcome'[p] = outcome[p]
    BY <1>4, <1>6 DEF ExecutorTypes
  <1>9. \A p \in Pairs : outcome'[p].status \in Statuses
    BY <1>5, <1>8 DEF ExecutorTypes
  <1>10. ExecutorTypes'
    BY <1>7, <1>8, <1>9 DEF ExecutorTypes
  <1> QED BY <1>1, <1>5, <1>7, <1>8, <1>10 DEF Returns

LEMMA DirectoryMoves ==
    ASSUME ExecutorTypes, NEW w \in Workers, MakePairDirectory(w)
    PROVE  ExecutorTypes' /\ Stays(w)
  <1> DEFINE s == [worker[w] EXCEPT !.at = "export"]
             d == [by |-> w, bytes |-> << >>]
             q == worker[w].pair
  <1>1. /\ DOMAIN s = {"at", "pair", "own", "tool", "reader"} /\ s.at = "export"
        /\ s.pair = q /\ s.tool = worker[w].tool
    BY DEF ExecutorTypes
  <1>2. worker' = [worker EXCEPT ![w] = s] /\ pairDir' = [pairDir EXCEPT ![q] = d]
        /\ owned' = owned \cup {q} /\ UNCHANGED <<workerDirs, outcome>>
    BY DEF MakePairDirectory
  <1>3. q \in Pairs /\ s.at \in Stages /\ s.at \notin {"closed", "idle"}
    BY <1>1 DEF ExecutorTypes, MakePairDirectory, Stages
  <1>4. DOMAIN d = {"by", "bytes"} /\ d.by = w
    OBVIOUS
  <1> HIDE DEF s, d
  <1>5. /\ DOMAIN worker' = Workers
        /\ worker'[w] = s
        /\ \A v \in Workers : v # w => worker'[v] = worker[v]
        /\ \A v \in Workers :
             /\ DOMAIN worker'[v] = {"at", "pair", "own", "tool", "reader"}
             /\ worker'[v].at \in Stages
             /\ IF worker'[v].at \in {"closed", "idle"} THEN worker'[v].pair = NoPair
                ELSE worker'[v].pair \in Pairs
    BY <1>1, <1>2, <1>3, SessionMoves
  <1>6. /\ DOMAIN pairDir' = Pairs /\ pairDir'[q] = d
        /\ \A p \in Pairs : p # q => pairDir'[p] = pairDir[p]
    BY <1>2, <1>3 DEF ExecutorTypes
  <1>7. \A p \in Pairs : DOMAIN pairDir'[p] = {"by", "bytes"}
    BY <1>4, <1>6 DEF ExecutorTypes
  <1>8. ExecutorTypes'
    BY <1>2, <1>5, <1>6, <1>7 DEF ExecutorTypes
  <1>9. d.by # Nobody
    BY <1>4, WorkerAssumption
  <1> QED BY <1>1, <1>2, <1>3, <1>5, <1>6, <1>8, <1>9 DEF Stays, Working

LEMMA BlobMoves ==
    ASSUME ExecutorTypes, NEW w \in Workers, NEW r, NEW bytes, NEW a \in {"srcdiff", "export"},
           worker[w].at = "export", UNCHANGED <<outcome, owned, workerDirs>>,
           pairDir' = [pairDir EXCEPT ![worker[w].pair].bytes = bytes],
           worker' = [worker EXCEPT ![w].reader = r, ![w].at = a]
    PROVE  ExecutorTypes' /\ Stays(w)
  <1> DEFINE s == [worker[w] EXCEPT !.reader = r, !.at = a]
             q == worker[w].pair
             d == [pairDir[q] EXCEPT !.bytes = bytes]
  <1>0. q \in Pairs
    BY DEF ExecutorTypes
  <1>1. /\ DOMAIN s = {"at", "pair", "own", "tool", "reader"} /\ s.at = a
        /\ s.pair = q /\ s.tool = worker[w].tool
    BY DEF ExecutorTypes
  <1>2. worker' = [worker EXCEPT ![w] = s] /\ pairDir' = [pairDir EXCEPT ![q] = d]
    OBVIOUS
  <1>3. s.at \in Stages /\ s.at \notin {"closed", "idle"}
    BY <1>1 DEF Stages
  <1>4. DOMAIN d = {"by", "bytes"} /\ d.by = pairDir[q].by
    BY <1>0 DEF ExecutorTypes
  <1> HIDE DEF s, d
  <1>5. /\ DOMAIN worker' = Workers
        /\ worker'[w] = s
        /\ \A v \in Workers : v # w => worker'[v] = worker[v]
        /\ \A v \in Workers :
             /\ DOMAIN worker'[v] = {"at", "pair", "own", "tool", "reader"}
             /\ worker'[v].at \in Stages
             /\ IF worker'[v].at \in {"closed", "idle"} THEN worker'[v].pair = NoPair
                ELSE worker'[v].pair \in Pairs
    BY <1>0, <1>1, <1>2, <1>3, SessionMoves
  <1>6. /\ DOMAIN pairDir' = Pairs /\ pairDir'[q] = d
        /\ \A p \in Pairs : p # q => pairDir'[p] = pairDir[p]
    BY <1>2, <1>0 DEF ExecutorTypes
  <1>7. \A p \in Pairs : DOMAIN pairDir'[p] = {"by", "bytes"}
    BY <1>4, <1>6 DEF ExecutorTypes
  <1>8. ExecutorTypes'
    BY <1>5, <1>6, <1>7 DEF ExecutorTypes
  <1> QED BY <1>1, <1>3, <1>4, <1>5, <1>6, <1>8 DEF Stays, Working

LEMMA ReadMoves ==
    ASSUME ExecutorTypes, NEW w \in Workers, WriteBlob(w)
    PROVE  ExecutorTypes' /\ (Stays(w) \/ Returns(w))
  <1> DEFINE q == worker[w].pair
             b == BlobsOf[q][Len(pairDir[q].bytes) + 1]
             Failed(r, own) == /\ ReturnWith(w, r.reader, FailedStatus(r.end), {}, own)
                               /\ UNCHANGED pairDir
             Wrote(r) ==
                /\ pairDir' = [pairDir EXCEPT ![q].bytes = Append(@, r.bytes)]
                /\ worker' = [worker EXCEPT ![w].reader = r.reader,
                        ![w].at = IF Len(pairDir'[q].bytes) = Len(BlobsOf[q])
                                  THEN "srcdiff" ELSE "export"]
                /\ UNCHANGED outcome
  <1>1. worker[w].at = "export" /\ UNCHANGED <<owned, workerDirs>>
    BY DEF WriteBlob
  <1>2. Working(w)
    BY <1>1 DEF Working
  <1>3. (\E r : Wrote(r)) \/ (\E r, own : Failed(r, own))
    BY DEF WriteBlob
  <1>4. ASSUME NEW r, Wrote(r) PROVE ExecutorTypes' /\ Stays(w)
    <2>1. PICK bytes : bytes = Append(pairDir[q].bytes, r.bytes)
      OBVIOUS
    <2>2. PICK reader : reader = r.reader
      OBVIOUS
    <2>3. PICK a : /\ a = IF Len(pairDir'[q].bytes) = Len(BlobsOf[q]) THEN "srcdiff" ELSE "export"
      OBVIOUS
    <2>4. a \in {"srcdiff", "export"}
      BY <2>3
    <2>5. pairDir' = [pairDir EXCEPT ![q].bytes = bytes]
      BY <1>4, <2>1
    <2>6. worker' = [worker EXCEPT ![w].reader = reader, ![w].at = a]
      BY <1>4, <2>2, <2>3
    <2>7. UNCHANGED outcome
      BY <1>4
    <2> QED BY <1>1, <2>4, <2>5, <2>6, <2>7, BlobMoves
  <1>5. ASSUME NEW r, NEW own, Failed(r, own) PROVE ExecutorTypes' /\ Returns(w)
    <2>1. FailedStatus(r.end) \in {"orchestration_failed", "export_failed"}
      BY DEF FailedStatus
    <2>2. PICK status \in Statuses \ {"none"} : status = FailedStatus(r.end)
      BY <2>1 DEF Statuses
    <2>3. ReturnWith(w, r.reader, status, {}, own) /\ UNCHANGED pairDir
      BY <1>5, <2>2
    <2> QED BY <1>1, <1>2, <2>3, ReturnMoves
  <1> QED BY <1>3, <1>4, <1>5

LEMMA SessionReturns ==
    ASSUME ExecutorTypes, NEW w \in Workers, Working(w), NEW status \in Statuses \ {"none"},
           NEW valid, Return(w, status, valid)
    PROVE  ExecutorTypes' /\ Returns(w) /\ UNCHANGED workerDirs
  <1>1. PICK reader : reader = worker[w].reader
    OBVIOUS
  <1>2. ReturnWith(w, reader, status, valid, FALSE) /\ UNCHANGED <<owned, pairDir, workerDirs>>
    BY <1>1 DEF Return
  <1> QED BY <1>2, ReturnMoves

LEMMA WorkerEffect ==
    ASSUME ExecutorTypes, NEW w \in Workers, WorkerStep(w)
    PROVE  ExecutorTypes' /\ Working(w) /\ (Stays(w) \/ Returns(w)) /\ UNCHANGED workerDirs
  <1>1. Working(w)
    BY DEF WorkerStep, NothingAnalyzable, InventoryFails, MakePairDirectory, WriteBlob,
           RunSrcdiff, RunSrcmove, AdmitResults, Working
  <1>2. CASE NothingAnalyzable(w)
    <2>1. "no_analyzable_change" \in Statuses \ {"none"}
      BY DEF Statuses
    <2> QED BY <1>1, <1>2, <2>1, SessionReturns DEF NothingAnalyzable
  <1>3. CASE InventoryFails(w)
    <2>1. "orchestration_failed" \in Statuses \ {"none"}
      BY DEF Statuses
    <2> QED BY <1>1, <1>3, <2>1, SessionReturns DEF InventoryFails
  <1>4. CASE MakePairDirectory(w)
    BY <1>1, <1>4, DirectoryMoves DEF MakePairDirectory
  <1>5. CASE WriteBlob(w)
    BY <1>1, <1>5, ReadMoves DEF WriteBlob
  <1>6. ASSUME NEW a \in Stages \ {"closed", "idle"}, worker' = [worker EXCEPT ![w].at = a],
               UNCHANGED <<owned, pairDir, workerDirs, outcome>>
        PROVE  ExecutorTypes' /\ Stays(w) /\ UNCHANGED workerDirs
    BY <1>1, <1>6, StageMoves
  <1>7. ASSUME NEW status \in {"srcdiff_failed", "srcmove_failed", "completed"}, NEW valid,
               Return(w, status, valid)
        PROVE  ExecutorTypes' /\ Returns(w) /\ UNCHANGED workerDirs
    <2>1. status \in Statuses \ {"none"}
      BY DEF Statuses
    <2> QED BY <1>1, <1>7, <2>1, SessionReturns
  <1>8. "srcmove" \in Stages \ {"closed", "idle"} /\ "results" \in Stages \ {"closed", "idle"}
    BY DEF Stages
  <1>9. CASE RunSrcdiff(w)
    <2>1. \/ /\ worker' = [worker EXCEPT ![w].at = "srcmove"]
             /\ UNCHANGED <<owned, pairDir, workerDirs, outcome>>
          \/ \E o \in ToolOutcomes : Return(w, "srcdiff_failed", ValidFile(o, SrcdiffXml))
      BY <1>9 DEF RunSrcdiff
    <2> QED BY <1>1, <2>1, <1>6, <1>7, <1>8
  <1>10. CASE RunSrcmove(w)
    <2>1. \/ /\ worker' = [worker EXCEPT ![w].at = "results"]
             /\ UNCHANGED <<owned, pairDir, workerDirs, outcome>>
          \/ Return(w, "srcmove_failed", {SrcdiffXml})
      BY <1>10 DEF RunSrcmove
    <2> QED BY <1>1, <2>1, <1>6, <1>7, <1>8
  <1>11. CASE AdmitResults(w)
    <2>1. \/ Return(w, "completed", {SrcdiffXml, ResultsJson})
          \/ Return(w, "srcmove_failed", {SrcdiffXml})
      BY <1>11 DEF AdmitResults
    <2> QED BY <1>1, <2>1, <1>7
  <1> QED BY <1>1, <1>2, <1>3, <1>4, <1>5, <1>9, <1>10, <1>11 DEF WorkerStep

LEMMA SessionOpens ==
    ASSUME ExecutorTypes, NEW w \in Workers, OpenWorker(w)
    PROVE  /\ ExecutorTypes'
           /\ \A v \in Workers : v # w => worker'[v] = worker[v]
           /\ worker[w].pair = NoPair /\ worker'[w].pair = NoPair /\ worker'[w].at = "idle"
           /\ UNCHANGED <<owned, pairDir, outcome>> /\ workerDirs' = workerDirs \cup {w}
  <1> DEFINE s == [worker[w] EXCEPT !.at = "idle"]
  <1>0. worker[w].pair = NoPair
    BY DEF ExecutorTypes, OpenWorker
  <1>1. DOMAIN s = {"at", "pair", "own", "tool", "reader"} /\ s.at = "idle" /\ s.pair = NoPair
    BY <1>0 DEF ExecutorTypes
  <1>2. /\ worker' = [worker EXCEPT ![w] = s]
        /\ UNCHANGED <<owned, pairDir, outcome>> /\ workerDirs' = workerDirs \cup {w}
    BY DEF OpenWorker
  <1>3. s.at \in Stages /\ s.at \in {"closed", "idle"}
    BY <1>1 DEF Stages
  <1> HIDE DEF s
  <1>4. /\ DOMAIN worker' = Workers
        /\ worker'[w] = s
        /\ \A v \in Workers : v # w => worker'[v] = worker[v]
        /\ \A v \in Workers :
             /\ DOMAIN worker'[v] = {"at", "pair", "own", "tool", "reader"}
             /\ worker'[v].at \in Stages
             /\ IF worker'[v].at \in {"closed", "idle"} THEN worker'[v].pair = NoPair
                ELSE worker'[v].pair \in Pairs
    BY <1>1, <1>2, <1>3, SessionMoves
  <1>5. ExecutorTypes'
    BY <1>2, <1>4 DEF ExecutorTypes
  <1> QED BY <1>0, <1>1, <1>2, <1>4, <1>5

LEMMA SessionClaims ==
    ASSUME ExecutorTypes, NEW w \in Workers, NEW p \in Pairs, NEW tool, Claim(w, p, tool)
    PROVE  /\ ExecutorTypes'
           /\ \A v \in Workers : v # w => worker'[v] = worker[v]
           /\ worker[w].pair = NoPair /\ ~Working(w)
           /\ worker'[w].pair = p /\ worker'[w].tool = tool /\ Working(w)'
           /\ UNCHANGED <<owned, pairDir, outcome, workerDirs>>
  <1> DEFINE s == [worker[w] EXCEPT !.at = "inventory", !.pair = p, !.own = FALSE, !.tool = tool]
  <1>0. worker[w].at = "idle" /\ worker[w].pair = NoPair
    BY DEF ExecutorTypes, Claim
  <1>1. /\ DOMAIN s = {"at", "pair", "own", "tool", "reader"}
        /\ s.at = "inventory" /\ s.pair = p /\ s.tool = tool
    BY DEF ExecutorTypes
  <1>2. worker' = [worker EXCEPT ![w] = s] /\ UNCHANGED <<owned, pairDir, outcome, workerDirs>>
    BY DEF Claim
  <1>3. s.at \in Stages /\ s.at \notin {"closed", "idle"}
    BY <1>1 DEF Stages
  <1> HIDE DEF s
  <1>4. /\ DOMAIN worker' = Workers
        /\ worker'[w] = s
        /\ \A v \in Workers : v # w => worker'[v] = worker[v]
        /\ \A v \in Workers :
             /\ DOMAIN worker'[v] = {"at", "pair", "own", "tool", "reader"}
             /\ worker'[v].at \in Stages
             /\ IF worker'[v].at \in {"closed", "idle"} THEN worker'[v].pair = NoPair
                ELSE worker'[v].pair \in Pairs
    BY <1>1, <1>2, <1>3, SessionMoves
  <1>5. ExecutorTypes'
    BY <1>2, <1>4 DEF ExecutorTypes
  <1> QED BY <1>0, <1>1, <1>2, <1>3, <1>4, <1>5 DEF Working

LEMMA SessionCloses ==
    ASSUME ExecutorTypes, NEW w \in Workers, CloseWorker(w)
    PROVE  /\ ExecutorTypes'
           /\ \A v \in Workers : v # w => worker'[v] = worker[v]
           /\ worker[w].pair = NoPair /\ worker'[w].pair = NoPair /\ worker'[w].at = "closed"
           /\ UNCHANGED <<owned, pairDir, outcome>>
           /\ workerDirs' \subseteq workerDirs
           /\ (\A p \in Pairs : pairDir[p].by # w) => w \notin workerDirs'
  <1>0. worker[w].pair = NoPair
    BY DEF ExecutorTypes, CloseWorker
  <1>1. /\ DOMAIN Closed = {"at", "pair", "own", "tool", "reader"}
        /\ Closed.at = "closed" /\ Closed.pair = NoPair
    BY DEF Closed
  <1>2. worker' = [worker EXCEPT ![w] = Closed] /\ UNCHANGED <<owned, pairDir, outcome>>
    BY DEF CloseWorker
  <1>3. Closed.at \in Stages /\ Closed.at \in {"closed", "idle"}
    BY <1>1 DEF Stages
  <1>4. /\ DOMAIN worker' = Workers
        /\ worker'[w] = Closed
        /\ \A v \in Workers : v # w => worker'[v] = worker[v]
        /\ \A v \in Workers :
             /\ DOMAIN worker'[v] = {"at", "pair", "own", "tool", "reader"}
             /\ worker'[v].at \in Stages
             /\ IF worker'[v].at \in {"closed", "idle"} THEN worker'[v].pair = NoPair
                ELSE worker'[v].pair \in Pairs
    BY <1>1, <1>2, <1>3, SessionMoves
  <1>5. /\ workerDirs' \subseteq workerDirs
        /\ (\A p \in Pairs : pairDir[p].by # w) => w \notin workerDirs'
    BY DEF CloseWorker
  <1>6. ExecutorTypes'
    BY <1>2, <1>4, <1>5 DEF ExecutorTypes
  <1> QED BY <1>0, <1>1, <1>2, <1>4, <1>5, <1>6

-----------------------------------------------------------------------------
(* The pairs of a run or a comparison. *)

\* What the steps of the executor leave alone.
Around == <<op, pc, unsettled, rows, definition>>

LEMMA Unmoved ==
    ASSUME IInv, pc \in InBoth, UNCHANGED Around
    PROVE  Rests' /\ Settled' /\ NothingLeftBehind' /\ Sealed' = Sealed
  <1>1. pc \notin Resting /\ pc # "finish"
    BY DEF InBoth, Resting, Cleaning, Creating
  <1>2. pc' = pc /\ op' = op /\ unsettled' = unsettled /\ rows' = rows
    BY DEF Around
  <1>3. Sealed' = Sealed
    BY <1>2 DEF Sealed
  <1>4. Settled'
    BY <1>2, <1>3 DEF IInv, Settled, Complete
  <1> QED BY <1>1, <1>2, <1>3, <1>4 DEF Rests, NothingLeftBehind

LEMMA StaysKeeps ==
    ASSUME IInv, pc \in InBoth, UNCHANGED Around, NEW w \in Workers, Working(w), Stays(w),
           UNCHANGED workerDirs
    PROVE  OfOneTool' /\ InSequence' /\ Accounted'
  <1>0. ExecutorTypes /\ OfOneTool /\ InSequence /\ Accounted
    BY DEF IInv, TypeInv
  <1>1. /\ pc' = pc /\ op' = op /\ unsettled' = unsettled /\ rows' = rows
        /\ definition' = definition /\ outcome' = outcome
    BY DEF Around, Stays
  <1>2. Sealed' = Sealed /\ Returned' = Returned
    BY <1>1 DEF Sealed, Returned
  <1>3. \A v \in Workers : /\ worker'[v].pair = worker[v].pair /\ worker'[v].tool = worker[v].tool
                           /\ Working(v)' <=> Working(v)
                           /\ worker[v].at # "closed" => worker'[v].at # "closed"
    BY DEF Stays, Working
  <1>4. Busy' = Busy
    BY <1>3 DEF Busy
  <1>5. Given' = Given
    BY <1>2, <1>4 DEF Given
  <1>6. OfOneTool'
    BY <1>0, <1>1, <1>2, <1>3 DEF OfOneTool, OneTool
  <1>7. InSequence'
    BY <1>0, <1>1, <1>2, <1>3, <1>5 DEF InSequence
  <1>8. Accounted'
    <2> SUFFICES ASSUME op = "run", pc \in {"pairs", "stopping"}
                 PROVE  /\ \A p \in Pairs : pairDir'[p].by # Nobody =>
                             p \in owned' /\ p \in Busy \cup Returned \cup {unsettled}
                        /\ unsettled # NoPair => unsettled \in Sealed
                        /\ \A v \in workerDirs : worker'[v].at # "closed"
      BY <1>1, <1>2, <1>4 DEF Accounted
    <2>1. ASSUME NEW p \in Pairs, pairDir'[p].by # Nobody
          PROVE  p \in owned' /\ p \in Busy \cup Returned \cup {unsettled}
      <3>1. CASE pairDir'[p].by = pairDir[p].by
        BY <2>1, <3>1, <1>0 DEF Accounted, Stays
      <3>2. CASE p = worker[w].pair /\ p \in owned'
        BY <3>2 DEF Busy
      <3> QED BY <3>1, <3>2 DEF Stays
    <2>2. \A v \in workerDirs : worker'[v].at # "closed"
      BY <1>0, <1>3 DEF Accounted, ExecutorTypes
    <2> QED BY <2>1, <2>2, <1>0 DEF Accounted
  <1> QED BY <1>6, <1>7, <1>8

LEMMA ReturnsKeeps ==
    ASSUME IInv, pc \in InBoth, UNCHANGED Around, NEW w \in Workers, Working(w), Returns(w),
           UNCHANGED workerDirs
    PROVE  OfOneTool' /\ InSequence' /\ Accounted'
  <1> DEFINE q == worker[w].pair
  <1>0. ExecutorTypes /\ OfOneTool /\ InSequence /\ Accounted
    BY DEF IInv, TypeInv
  <1>1. /\ pc' = pc /\ op' = op /\ unsettled' = unsettled /\ rows' = rows
        /\ definition' = definition /\ owned' = owned /\ pairDir' = pairDir
    BY DEF Around, Returns
  <1>2. Sealed' = Sealed
    BY <1>1 DEF Sealed
  <1>3. q \in Pairs /\ q # NoPair
    BY <1>0, SequenceAssumption DEF ExecutorTypes, Working
  <1>4. Returned' = Returned \cup {q}
    BY <1>3 DEF Returned, Returns
  <1>5. \A v \in Workers : v # w => worker'[v] = worker[v]
    BY DEF Returns
  <1>6. worker'[w].pair = NoPair /\ worker'[w].at = "idle"
    BY DEF Returns
  <1>7. \A p : p # q => (p \in Busy' \cup {NoPair} <=> p \in Busy \cup {NoPair})
    BY <1>5, <1>6 DEF Busy
  <1>8. q \in Busy
    BY DEF Busy
  <1>9. Given' \ {NoPair} = Given \ {NoPair}
    BY <1>2, <1>3, <1>4, <1>7, <1>8 DEF Given
  <1>10. OfOneTool'
    <2>1. OneTool'
      BY <1>0, <1>1, <1>2 DEF OfOneTool, OneTool
    <2>2. outcome'[q].tool = definition.tool
      BY <1>0 DEF OfOneTool, Returns
    <2>3. \A p \in Returned' : outcome'[p].tool = definition'.tool
      BY <1>0, <1>1, <1>4, <2>2 DEF OfOneTool, Returns, Returned
    <2>4. \A v \in Workers : Working(v)' => worker'[v].tool = definition'.tool
      BY <1>0, <1>1, <1>5, <1>6 DEF OfOneTool, Working
    <2> QED BY <2>1, <2>3, <2>4 DEF OfOneTool
  <1>11. InSequence'
    <2> SUFFICES ASSUME op = "run", pc \in {"pairs", "stopping"}
                 PROVE  /\ \E k \in Nat : Given' \ {NoPair} = 1..k
                        /\ \A v \in Workers : worker'[v].pair \notin Sealed \cup Returned'
                        /\ Sealed \cap Returned' = {}
                        /\ \A u, v \in Workers : u # v /\ Working(u)'
                              => worker'[u].pair # worker'[v].pair
      BY <1>1, <1>2 DEF InSequence
    <2>1. \E k \in Nat : Given' \ {NoPair} = 1..k
      BY <1>0, <1>9 DEF InSequence
    <2>2. q \notin Sealed /\ Sealed \cap Returned = {}
      BY <1>0 DEF InSequence
    <2>3. \A v \in Workers : v # w => worker[v].pair # q
      BY <1>0 DEF InSequence
    <2>4. NoPair \notin Sealed \cup Returned'
      <3>1. NoPair \notin Sealed
        BY DEF NoPair, Sealed
      <3>2. Returned' \subseteq Pairs
        BY <1>3, <1>4 DEF Returned
      <3> QED BY <3>1, <3>2, SequenceAssumption
    <2>5. \A v \in Workers : worker'[v].pair \notin Sealed \cup Returned'
      BY <1>0, <1>4, <1>5, <1>6, <2>3, <2>4 DEF InSequence
    <2>6. ASSUME NEW u \in Workers, NEW v \in Workers, u # v, Working(u)'
          PROVE  worker'[u].pair # worker'[v].pair
      <3>1. u # w /\ Working(u) /\ worker'[u].pair = worker[u].pair
        BY <1>5, <1>6, <2>6 DEF Working
      <3>2. worker[u].pair # NoPair
        BY <3>1, <1>0, SequenceAssumption DEF ExecutorTypes, Working
      <3>3. worker[u].pair # worker[v].pair
        BY <3>1, <2>6, <1>0 DEF InSequence
      <3> QED BY <3>1, <3>2, <3>3, <1>5, <1>6
    <2> QED BY <1>4, <2>1, <2>2, <2>5, <2>6
  <1>12. Accounted'
    <2> SUFFICES ASSUME op = "run", pc \in {"pairs", "stopping"}
                 PROVE  /\ \A p \in Pairs : pairDir[p].by # Nobody =>
                             p \in owned /\ p \in Busy' \cup Returned' \cup {unsettled}
                        /\ unsettled # NoPair => unsettled \in Sealed
                        /\ \A v \in workerDirs : worker'[v].at # "closed"
      BY <1>1, <1>2 DEF Accounted
    <2>1. ASSUME NEW p \in Pairs, pairDir[p].by # Nobody
          PROVE  p \in owned /\ p \in Busy' \cup Returned' \cup {unsettled}
      <3>1. p \in owned /\ p \in Busy \cup Returned \cup {unsettled}
        BY <2>1, <1>0 DEF Accounted
      <3>2. p # NoPair
        BY SequenceAssumption
      <3> QED BY <3>1, <3>2, <1>4, <1>7
    <2>2. \A v \in workerDirs : worker'[v].at # "closed"
      BY <1>0, <1>5, <1>6 DEF Accounted, ExecutorTypes
    <2> QED BY <2>1, <2>2, <1>0 DEF Accounted
  <1> QED BY <1>10, <1>11, <1>12

LEMMA OpensKeeps ==
    ASSUME IInv, pc = "pairs", UNCHANGED Around, NEW w \in Workers, OpenWorker(w)
    PROVE  OfOneTool' /\ InSequence' /\ Accounted'
  <1>0. ExecutorTypes /\ OfOneTool /\ InSequence /\ Accounted
    BY DEF IInv, TypeInv
  <1>1. /\ pc' = pc /\ op' = op /\ unsettled' = unsettled /\ rows' = rows
        /\ definition' = definition
    BY DEF Around
  <1>2. /\ \A v \in Workers : v # w => worker'[v] = worker[v]
        /\ worker[w].pair = NoPair /\ worker'[w].pair = NoPair /\ worker'[w].at = "idle"
        /\ UNCHANGED <<owned, pairDir, outcome>> /\ workerDirs' = workerDirs \cup {w}
    BY <1>0, SessionOpens
  <1>3. Sealed' = Sealed /\ Returned' = Returned
    BY <1>1, <1>2 DEF Sealed, Returned
  <1>4. \A v \in Workers : /\ worker'[v].pair = worker[v].pair
                           /\ Working(v)' => Working(v) /\ worker'[v] = worker[v]
                           /\ worker[v].at # "closed" => worker'[v].at # "closed"
    BY <1>2 DEF Working
  <1>5. Busy' = Busy
    BY <1>4 DEF Busy
  <1>6. Given' = Given
    BY <1>3, <1>5 DEF Given
  <1>7. OfOneTool'
    BY <1>0, <1>1, <1>2, <1>3, <1>4 DEF OfOneTool, OneTool
  <1>8. InSequence'
    BY <1>0, <1>1, <1>3, <1>4, <1>6 DEF InSequence
  <1>9. Accounted'
    <2>1. \A v \in workerDirs' : worker[v].at # "closed" \/ v = w => worker'[v].at # "closed"
      BY <1>0, <1>2 DEF ExecutorTypes
    <2> QED BY <1>0, <1>1, <1>2, <1>3, <1>5, <2>1 DEF Accounted
  <1> QED BY <1>7, <1>8, <1>9

\* A session without a pair ends: nothing that is given out changes.
LEMMA ClosesKeeps ==
    ASSUME IInv, pc \in {"stopping", "aborting"}, UNCHANGED Around, NEW w \in Workers,
           CloseWorker(w)
    PROVE  OfOneTool' /\ InSequence' /\ Accounted'
  <1>0. ExecutorTypes /\ OfOneTool /\ InSequence /\ Accounted /\ Settled
    BY DEF IInv, TypeInv
  <1>1. /\ pc' = pc /\ op' = op /\ unsettled' = unsettled /\ rows' = rows
        /\ definition' = definition
    BY DEF Around
  <1>2. /\ \A v \in Workers : v # w => worker'[v] = worker[v]
        /\ worker[w].pair = NoPair /\ worker'[w].pair = NoPair /\ worker'[w].at = "closed"
        /\ UNCHANGED <<owned, pairDir, outcome>> /\ workerDirs' \subseteq workerDirs
        /\ (\A p \in Pairs : pairDir[p].by # w) => w \notin workerDirs'
    BY <1>0, SessionCloses
  <1>3. Sealed' = Sealed /\ Returned' = Returned
    BY <1>1, <1>2 DEF Sealed, Returned
  <1>4. \A v \in Workers : /\ worker'[v].pair = worker[v].pair
                           /\ Working(v)' => Working(v) /\ worker'[v] = worker[v]
    BY <1>2 DEF Working
  <1>5. Busy' = Busy
    BY <1>4 DEF Busy
  <1>6. Given' = Given
    BY <1>3, <1>5 DEF Given
  <1>7. OfOneTool'
    BY <1>0, <1>1, <1>2, <1>3, <1>4 DEF OfOneTool, OneTool
  <1>8. InSequence'
    BY <1>0, <1>1, <1>3, <1>4, <1>6 DEF InSequence
  <1>9. Accounted'
    <2> SUFFICES ASSUME op = "run", pc \in {"pairs", "stopping"}
                 PROVE  /\ \A p \in Pairs : pairDir[p].by # Nobody =>
                             p \in owned /\ p \in Busy \cup Returned \cup {unsettled}
                        /\ unsettled # NoPair => unsettled \in Sealed
                        /\ \A v \in workerDirs' : worker'[v].at # "closed"
      BY <1>1, <1>2, <1>3, <1>5 DEF Accounted
    <2>1. Sealed = Pairs /\ unsettled = NoPair
      BY <1>0 DEF Settled, Complete
    <2>2. \A v \in Workers : worker[v].pair \notin Pairs
      BY <1>0, <2>1 DEF InSequence
    <2>3. Returned = {}
      BY <1>0, <2>1 DEF InSequence, Returned
    <2>4. \A p \in Pairs : pairDir[p].by = Nobody
      BY <1>0, <2>1, <2>2, <2>3, SequenceAssumption DEF Accounted, Busy
    <2>5. w \notin workerDirs'
      BY <1>2, <2>4, WorkerAssumption
    <2> QED BY <1>0, <1>2, <2>5 DEF Accounted, ExecutorTypes
  <1> QED BY <1>7, <1>8, <1>9

\* The next pair after the ones given out is given out.
LEMMA ClaimsKeeps ==
    ASSUME IInv, op # "none", pc = "pairs", HasItem, UNCHANGED Around, NEW w \in Workers,
           Claim(w, NextItem, definition.tool)
    PROVE  ExecutorTypes' /\ OfOneTool' /\ InSequence' /\ Accounted'
  <1>0. ExecutorTypes /\ OfOneTool /\ InSequence /\ Accounted /\ PlaceTypes /\ ComparisonTypes
    BY DEF IInv, TypeInv
  <1>1. /\ pc' = pc /\ op' = op /\ unsettled' = unsettled /\ rows' = rows
        /\ definition' = definition
    BY DEF Around
  <1>2. NextItem \in Pairs
    BY <1>0 DEF ComparisonTypes, PlaceTypes, HasItem, NextItem
  <1>3. PICK p \in Pairs : p = NextItem
    BY <1>2
  <1>4. PICK tool : tool = definition.tool
    OBVIOUS
  <1>5. /\ ExecutorTypes'
        /\ \A v \in Workers : v # w => worker'[v] = worker[v]
        /\ worker[w].pair = NoPair /\ ~Working(w)
        /\ worker'[w].pair = p /\ worker'[w].tool = tool /\ Working(w)'
        /\ UNCHANGED <<owned, pairDir, outcome, workerDirs>>
    BY <1>0, <1>3, <1>4, SessionClaims
  <1>6. Sealed' = Sealed /\ Returned' = Returned
    BY <1>1, <1>5 DEF Sealed, Returned
  <1>7. p # NoPair
    BY SequenceAssumption
  <1>8. \A r : r # NoPair => (r \in Busy' <=> r \in Busy \cup {p})
    BY <1>5 DEF Busy
  <1>9. OfOneTool'
    <2>1. OneTool' /\ \A r \in Returned' : outcome'[r].tool = definition'.tool
      BY <1>0, <1>1, <1>5, <1>6 DEF OfOneTool, OneTool
    <2>2. \A v \in Workers : Working(v)' => worker'[v].tool = definition'.tool
      BY <1>0, <1>1, <1>4, <1>5 DEF OfOneTool, Working
    <2> QED BY <2>1, <2>2 DEF OfOneTool
  <1>10. InSequence'
    <2> SUFFICES ASSUME op = "run", pc \in {"pairs", "stopping"}
                 PROVE  /\ \E k \in Nat : Given' \ {NoPair} = 1..k
                        /\ \A v \in Workers : worker'[v].pair \notin Sealed \cup Returned
                        /\ Sealed \cap Returned = {}
                        /\ \A u, v \in Workers : u # v /\ Working(u)'
                              => worker'[u].pair # worker'[v].pair
      BY <1>1, <1>6 DEF InSequence
    <2>1. PICK k \in Nat : Given \ {NoPair} = 1..k
      BY <1>0 DEF InSequence
    <2>2. Cardinality(1..k) = k
      <3>1. Cardinality(1..k) = IF 1 > k THEN 0 ELSE k - 1 + 1
        BY FS_Interval
      <3> QED BY <3>1
    <2>3. p = k + 1
      BY <1>3, <2>1, <2>2 DEF NextItem
    <2>4. Given' \ {NoPair} = (Given \ {NoPair}) \cup {p}
      BY <1>6, <1>7, <1>8 DEF Given
    <2>5. Given' \ {NoPair} = 1..(k + 1)
      BY <2>1, <2>3, <2>4
    <2>6. p \notin Given
      BY <1>7, <2>1, <2>3
    <2>7. p \notin Sealed \cup Returned /\ \A v \in Workers : worker[v].pair # p
      BY <2>6 DEF Given, Busy
    <2>8. \A v \in Workers : worker'[v].pair \notin Sealed \cup Returned
      BY <1>0, <1>5, <2>7 DEF InSequence
    <2>9. ASSUME NEW u \in Workers, NEW v \in Workers, u # v, Working(u)'
          PROVE  worker'[u].pair # worker'[v].pair
      <3>1. CASE u = w
        BY <3>1, <1>5, <2>7, <2>9
      <3>2. CASE v = w
        BY <3>2, <1>5, <2>7, <2>9
      <3>3. CASE u # w /\ v # w
        BY <3>3, <1>0, <1>5, <2>9 DEF InSequence, Working
      <3> QED BY <3>1, <3>2, <3>3
    <2> QED BY <1>0, <2>1, <2>5, <2>8, <2>9 DEF InSequence
  <1>11. Accounted'
    <2> SUFFICES ASSUME op = "run", pc \in {"pairs", "stopping"}
                 PROVE  /\ \A r \in Pairs : pairDir[r].by # Nobody =>
                             r \in owned /\ r \in Busy' \cup Returned \cup {unsettled}
                        /\ unsettled # NoPair => unsettled \in Sealed
                        /\ \A v \in workerDirs : worker'[v].at # "closed"
      BY <1>1, <1>5, <1>6 DEF Accounted
    <2>1. \A r \in Pairs : r \in Busy => r \in Busy'
      BY <1>8, SequenceAssumption
    <2>2. \A v \in workerDirs : worker'[v].at # "closed"
      BY <1>0, <1>5 DEF Accounted, ExecutorTypes, Working
    <2> QED BY <1>0, <2>1, <2>2 DEF Accounted
  <1> QED BY <1>5, <1>9, <1>10, <1>11

LEMMA PairStepKeeps ==
    ASSUME IInv, NEW w \in Workers,
           StartThread(w) \/ GiveItem(w) \/ Work(w) \/ StopThread(w)
    PROVE  /\ ExecutorTypes' /\ Rests' /\ OfOneTool' /\ InSequence' /\ Accounted' /\ Settled'
           /\ NothingLeftBehind'
  <1>0. ExecutorTypes
    BY DEF IInv, TypeInv
  <1>1. /\ op # "none" /\ pc \in InBoth /\ UNCHANGED Around
    BY DEF StartThread, GiveItem, Work, StopThread, InPairs, InBoth, Around, localVars, fileVars
  <1>2. Rests' /\ Settled' /\ NothingLeftBehind'
    BY <1>1, Unmoved
  <1>3. CASE StartThread(w)
    <2>1. pc = "pairs" /\ OpenWorker(w)
      BY <1>3 DEF StartThread
    <2> QED BY <1>0, <1>1, <1>2, <2>1, OpensKeeps, SessionOpens
  <1>4. CASE GiveItem(w)
    <2>1. pc = "pairs" /\ HasItem /\ Claim(w, NextItem, definition.tool)
      BY <1>4 DEF GiveItem
    <2> QED BY <1>1, <1>2, <2>1, ClaimsKeeps
  <1>5. CASE Work(w)
    <2>1. WorkerStep(w)
      BY <1>5 DEF Work
    <2>2. ExecutorTypes' /\ Working(w) /\ (Stays(w) \/ Returns(w)) /\ UNCHANGED workerDirs
      BY <1>0, <2>1, WorkerEffect
    <2> QED BY <1>1, <1>2, <2>2, StaysKeeps, ReturnsKeeps
  <1>6. CASE StopThread(w)
    <2>1. pc \in {"stopping", "aborting"} /\ CloseWorker(w)
      BY <1>1, <1>6 DEF StopThread, InBoth
    <2> QED BY <1>0, <1>1, <1>2, <2>1, ClosesKeeps, SessionCloses
  <1> QED BY <1>3, <1>4, <1>5, <1>6

-----------------------------------------------------------------------------
(* The other steps of the executor's operations. *)

\* Outside of the pairs nothing is given out.
Blank == /\ worker = AllClosed /\ owned = {} /\ outcome = NoOutcomes
         /\ pairDir = NoDirectories /\ workerDirs = {} /\ unsettled = NoPair

LEMMA BlankTypes == Blank => /\ ExecutorTypes /\ Returned = {} /\ ~LeftDirectories
                             /\ \A w \in Workers : ~Working(w) /\ worker[w].pair = NoPair
                             /\ Busy = {NoPair}
  <1> SUFFICES ASSUME Blank
               PROVE  /\ ExecutorTypes /\ Returned = {} /\ ~LeftDirectories
                      /\ \A w \in Workers : ~Working(w) /\ worker[w].pair = NoPair
                      /\ Busy = {NoPair}
    OBVIOUS
  <1>1. /\ DOMAIN worker = Workers
        /\ \A w \in Workers : /\ DOMAIN worker[w] = {"at", "pair", "own", "tool", "reader"}
                              /\ worker[w].at = "closed" /\ worker[w].pair = NoPair
    BY DEF Blank, AllClosed, Closed
  <1>2. DOMAIN pairDir = Pairs
        /\ \A p \in Pairs : DOMAIN pairDir[p] = {"by", "bytes"} /\ pairDir[p].by = Nobody
    BY DEF Blank, NoDirectories, NoDirectory
  <1>3. DOMAIN outcome = Pairs /\ \A p \in Pairs : outcome[p].status = "none"
    BY DEF Blank, NoOutcomes, NoOutcome
  <1>4. ExecutorTypes
    <2>1. "closed" \in Stages /\ "none" \in Statuses
      BY DEF Stages, Statuses
    <2> QED BY <1>1, <1>2, <1>3, <2>1 DEF ExecutorTypes, Blank
  <1>5. Returned = {}
    BY <1>3 DEF Returned
  <1>6. ~LeftDirectories
    BY <1>2 DEF LeftDirectories, Blank
  <1>7. \A w \in Workers : ~Working(w) /\ worker[w].pair = NoPair
    BY <1>1 DEF Working
  <1>8. Busy = {NoPair}
    BY <1>7, WorkerAssumption DEF Busy
  <1> QED BY <1>4, <1>5, <1>6, <1>7, <1>8

Executing == /\ ExecutorTypes /\ Rests /\ OfOneTool /\ InSequence /\ Accounted /\ Settled
             /\ NothingLeftBehind

\* A state with nothing given out has what the pairs need, wherever it is.
LEMMA BlankInvariants ==
    Blank /\ OneTool /\ PlaceTypes /\ FileTypes /\ pc # "stopping" => Executing
  <1> SUFFICES ASSUME Blank, OneTool, PlaceTypes, FileTypes, pc # "stopping"
               PROVE  Executing
    OBVIOUS
  <1>1. /\ ExecutorTypes /\ Returned = {} /\ ~LeftDirectories
        /\ \A w \in Workers : ~Working(w) /\ worker[w].pair = NoPair
        /\ Busy = {NoPair}
    BY BlankTypes
  <1>2. Rests
    BY DEF Rests, Blank
  <1>3. OfOneTool
    BY <1>1 DEF OfOneTool
  <1>4. InSequence
    <2>1. Given \ {NoPair} = 1..Len(rows) /\ Len(rows) \in Nat
      BY <1>1 DEF Given, Sealed, NoPair, FileTypes
    <2>2. NoPair \notin Sealed
      BY DEF NoPair, Sealed
    <2> QED BY <1>1, <2>1, <2>2 DEF InSequence
  <1>5. Accounted
    <2>1. \A p \in Pairs : pairDir[p].by = Nobody
      BY <1>1 DEF LeftDirectories
    <2> QED BY <2>1 DEF Accounted, Blank
  <1>6. Settled /\ NothingLeftBehind
    BY <1>1 DEF Settled, NothingLeftBehind
  <1> QED BY <1>1, <1>2, <1>3, <1>4, <1>5, <1>6 DEF Executing

LEMMA BlankFollows ==
    Blank' /\ OneTool' /\ PlaceTypes' /\ FileTypes' /\ (pc # "stopping")' => Executing'
  BY BlankInvariants, PTL

LEMMA OneToolStands ==
    ASSUME OneTool, UNCHANGED rows, definition' = definition \/ rows = << >>
    PROVE  OneTool'
  <1>1. CASE definition' = definition
    BY <1>1 DEF OneTool, Sealed
  <1>2. CASE rows = << >>
    BY <1>2 DEF OneTool, Sealed
  <1> QED BY <1>1, <1>2

LEMMA Parts ==
    ASSUME IInv
    PROVE  /\ Executing /\ FileTypes /\ PlaceTypes /\ ComparisonTypes /\ Whole
           /\ Recorded /\ ExportedFromOneMatch /\ OneTool
           /\ pc \in Resting => Blank
  BY DEF IInv, TypeInv, Executing, OfOneTool, Rests, Blank

LEMMA Together ==
    Executing /\ FileTypes /\ PlaceTypes /\ ComparisonTypes /\ Whole
      /\ Recorded /\ ExportedFromOneMatch => IInv
  BY DEF IInv, TypeInv, Executing

LEMMA TogetherFollows ==
    Executing' /\ FileTypes' /\ PlaceTypes' /\ ComparisonTypes' /\ Whole'
      /\ Recorded' /\ ExportedFromOneMatch' => IInv'
  BY Together, PTL

\* The files, the comparison and the place of a step that leaves them.
LEMMA FilesStand ==
    ASSUME FileTypes, Whole, UNCHANGED <<temp, dbLinks, definition, rows, chosen>>,
           UNCHANGED <<installed, tip, objects, retained>>,
           \/ pc' = pc
           \/ /\ pc' \notin Creating
              /\ pc' \in {"verify", "finish"} \cup Saving \cup InBoth => dbLinks = 1
    PROVE  FileTypes' /\ Whole'
  <1>1. FileTypes'
    BY DEF FileTypes, Sealed
  <1>2. /\ dbLinks' = 2 => temp' = "filled"
        /\ dbLinks' > 0 => definition'.commit # 0 /\ definition'.commit \in objects' \cap retained'
        /\ dbLinks' = 0 => rows' = << >>
    BY DEF Whole
  <1>3. CASE pc' = pc
    BY <1>1, <1>2, <1>3 DEF Whole, Creating
  <1>4. CASE /\ pc' \notin Creating
             /\ pc' \in {"verify", "finish"} \cup Saving \cup InBoth => dbLinks = 1
    BY <1>1, <1>2, <1>4 DEF Whole, Creating
  <1> QED BY <1>1, <1>3, <1>4

LEMMA ComparisonStands ==
    ASSUME ComparisonTypes, Recorded, ExportedFromOneMatch, UNCHANGED <<record, exported, matched>>,
           \/ op' # "compare"
           \/ UNCHANGED <<op, request>>,
           \/ pc' \notin Saving
           \/ UNCHANGED <<pc, request, made>>
    PROVE  ComparisonTypes' /\ Recorded' /\ ExportedFromOneMatch'
  <1>1. ComparisonTypes'
    BY DEF ComparisonTypes
  <1>2. ExportedFromOneMatch'
    BY DEF ExportedFromOneMatch
  <1>3. \A p \in Pairs : record'[p] \in {NoFiles, Torn} \/
          \E m \in matched'[p] : \A n \in DOMAIN record'[p] : record'[p][n] = m[n]
    BY DEF Recorded
  <1>4. Recorded'
    BY <1>3 DEF Recorded, Saving
  <1> QED BY <1>1, <1>2, <1>4

\* An operation that ends leaves nothing behind in memory.
LEMMA LeaveKeeps ==
    ASSUME IInv, ForgetLocals, UNCHANGED <<record, exported, matched, definition, rows>>,
           UNCHANGED <<installed, tip, objects, retained>>,
           temp' \in {"none", "empty", "filled"}, dbLinks' \in 0..2,
           dbLinks' = 2 => temp' = "filled", dbLinks' = 0 <=> dbLinks = 0
    PROVE  IInv'
  <1>0. /\ Executing /\ FileTypes /\ PlaceTypes /\ ComparisonTypes /\ Whole
        /\ Recorded /\ ExportedFromOneMatch /\ OneTool
    BY Parts
  <1>1. op' = "none" /\ pc' = "idle" /\ chosen' = Nothing
    BY DEF ForgetLocals
  <1>2. Blank'
    BY DEF ForgetLocals, Blank, AllClosed, NoOutcomes, NoDirectories
  <1>3. PlaceTypes'
    BY <1>1 DEF PlaceTypes, InRun, Cleaning, Creating, Saving, InBoth
  <1>4. FileTypes'
    BY <1>0, <1>1 DEF FileTypes, Versions, Nothing, Sealed
  <1>5. Whole'
    BY <1>0, <1>1 DEF Whole, Creating, Saving, InBoth, FileTypes
  <1>6. ComparisonTypes' /\ Recorded' /\ ExportedFromOneMatch'
    BY <1>0, <1>1, ComparisonStands DEF Saving
  <1>7. OneTool'
    BY <1>0, OneToolStands
  <1>8. Executing'
    BY <1>1, <1>2, <1>3, <1>4, <1>7, BlankFollows
  <1> QED BY <1>3, <1>4, <1>5, <1>6, <1>8, TogetherFollows

LEMMA LeavingKeeps ==
    ASSUME IInv,
           \/ ScratchRefilled \/ RetainFails \/ CreationFails \/ RefuseInputs \/ FinishRun
           \/ FinishComparison \/ Crash
    PROVE  IInv'
  <1>0. FileTypes /\ Whole
    BY DEF IInv, TypeInv
  <1>1. CASE ScratchRefilled \/ RetainFails \/ RefuseInputs \/ FinishRun \/ FinishComparison
    <2>1. /\ ForgetLocals /\ UNCHANGED <<record, exported, matched, definition, rows>>
          /\ UNCHANGED <<installed, tip, objects, retained>> /\ UNCHANGED <<temp, dbLinks>>
      BY <1>1 DEF ScratchRefilled, RetainFails, RefuseInputs, FinishRun, FinishComparison, Leave,
                  toolVars
    <2>2. /\ temp' \in {"none", "empty", "filled"} /\ dbLinks' \in 0..2
          /\ dbLinks' = 2 => temp' = "filled"
          /\ dbLinks' = 0 <=> dbLinks = 0
      BY <1>0, <2>1 DEF FileTypes, Whole
    <2> QED BY <2>1, <2>2, LeaveKeeps
  <1>2. CASE CreationFails
    <2>1. /\ ForgetLocals /\ UNCHANGED <<record, exported, matched, definition, rows>>
          /\ UNCHANGED <<installed, tip, objects, retained>>
          /\ temp' = "none" /\ dbLinks' = IF dbLinks = 2 THEN 1 ELSE dbLinks
      BY <1>2 DEF CreationFails, Leave, toolVars
    <2>2. /\ temp' \in {"none", "empty", "filled"} /\ dbLinks' \in 0..2
          /\ dbLinks' = 2 => temp' = "filled"
          /\ dbLinks' = 0 <=> dbLinks = 0
      BY <1>0, <2>1 DEF FileTypes
    <2> QED BY <2>1, <2>2, LeaveKeeps
  <1>3. CASE Crash
    <2>1. /\ ForgetLocals /\ UNCHANGED <<record, exported, matched, definition, rows>>
          /\ UNCHANGED <<installed, tip, objects, retained, dbLinks>>
          /\ temp' = IF dbLinks = 2 THEN temp ELSE "none"
      BY <1>3 DEF Crash, toolVars
    <2>2. /\ temp' \in {"none", "empty", "filled"} /\ dbLinks' \in 0..2
          /\ dbLinks' = 2 => temp' = "filled"
          /\ dbLinks' = 0 <=> dbLinks = 0
      BY <1>0, <2>1 DEF FileTypes, Whole
    <2> QED BY <2>1, <2>2, LeaveKeeps
  <1> QED BY <1>1, <1>2, <1>3

\* The way of a run to its pairs.
LEMMA WayKeeps ==
    ASSUME IInv, pc \in Resting, UNCHANGED <<workerVars, comparisonVars, unsettled, rows>>,
           op' = "run", pc' \in InRun \cup {"pairs"},
           definition' = definition \/ rows = << >>,
           FileTypes', Whole'
    PROVE  IInv'
  <1>0. /\ ComparisonTypes /\ Recorded /\ ExportedFromOneMatch /\ OneTool /\ Blank
    BY Parts
  <1>1. /\ pc' # "stopping" /\ pc' \notin Saving
    BY DEF InRun, Cleaning, Creating, Saving
  <1>2. PlaceTypes'
    BY <1>1 DEF PlaceTypes, InRun, Cleaning, Creating, InBoth
  <1>3. Blank'
    BY <1>0 DEF Blank, workerVars
  <1>4. OneTool'
    BY <1>0, OneToolStands
  <1>5. Executing'
    BY <1>1, <1>2, <1>3, <1>4, BlankFollows
  <1>6. UNCHANGED <<record, exported, matched>>
    BY DEF comparisonVars
  <1>7. ComparisonTypes' /\ Recorded' /\ ExportedFromOneMatch'
    BY <1>0, <1>1, <1>6, ComparisonStands
  <1> QED BY <1>2, <1>5, <1>7, TogetherFollows

LEMMA RunWays ==
    ASSUME RunStep, Locally
    PROVE  op = "run" /\ op' = "run" /\ UNCHANGED <<workerVars, comparisonVars, unsettled>>
  BY DEF RunStep, Locally

LEMMA CleaningKeeps ==
    ASSUME IInv, StartRun \/ EmptyScratch \/ RemoveScratch \/ OpenDatabase \/ VerifyInputs
    PROVE  IInv'
  <1>0. FileTypes /\ Whole /\ PlaceTypes
    BY DEF IInv, TypeInv
  <1>1. CASE StartRun
    <2>1. /\ op = "none" /\ op' = "run" /\ pc' = "clean"
          /\ UNCHANGED <<workerVars, comparisonVars, unsettled, rows>>
          /\ UNCHANGED <<temp, dbLinks, definition, rows, chosen>>
          /\ UNCHANGED <<installed, tip, objects, retained>>
      BY <1>1 DEF StartRun, Begin, fileVars, toolVars
    <2>2. pc \in Resting /\ pc' \in InRun
      BY <1>0, <2>1 DEF PlaceTypes, Resting, InRun, Cleaning
    <2>3. pc' \notin Creating /\ pc' \notin {"verify", "finish"} \cup Saving \cup InBoth
      BY <2>1 DEF Creating, Saving, InBoth
    <2>4. FileTypes' /\ Whole'
      BY <1>0, <2>1, <2>3, FilesStand
    <2> QED BY <2>1, <2>2, <2>4, WayKeeps
  <1>2. CASE EmptyScratch \/ RemoveScratch
    <2>1. /\ RunStep /\ Locally
          /\ pc \in {"clean", "rmdir"} /\ pc' \in {"open", "rmdir"}
          /\ UNCHANGED <<temp, dbLinks, definition, rows, chosen>>
          /\ UNCHANGED <<installed, tip, objects, retained>>
      BY <1>2 DEF EmptyScratch, RemoveScratch, Goto, toolVars
    <2>2. pc \in Resting /\ pc' \in InRun
      BY <2>1 DEF Resting, InRun, Cleaning
    <2>3. pc' \notin Creating /\ pc' \notin {"verify", "finish"} \cup Saving \cup InBoth
      BY <2>1 DEF Creating, Saving, InBoth
    <2>4. FileTypes' /\ Whole'
      BY <1>0, <2>1, <2>3, FilesStand
    <2> QED BY <2>1, <2>2, <2>4, RunWays, WayKeeps
  <1>3. CASE OpenDatabase
    <2>1. /\ RunStep /\ Locally /\ pc = "open"
          /\ \/ dbLinks = 0 /\ pc' = "select" /\ UNCHANGED <<dbLinks, temp>>
             \/ dbLinks = 1 /\ pc' = "verify" /\ UNCHANGED <<dbLinks, temp>>
             \/ dbLinks = 2 /\ pc' = "verify" /\ dbLinks' = 1 /\ temp' = "none"
          /\ UNCHANGED <<definition, rows, chosen>>
          /\ UNCHANGED <<installed, tip, objects, retained>>
      BY <1>3 DEF OpenDatabase, toolVars
    <2>2. pc \in Resting /\ pc' \in InRun
      BY <2>1 DEF Resting, InRun, Cleaning, Creating
    <2>3. FileTypes'
      BY <1>0, <2>1 DEF FileTypes, Sealed
    <2>4. Whole'
      BY <1>0, <2>1 DEF Whole, FileTypes, Creating, Saving, InBoth
    <2> QED BY <2>1, <2>2, <2>3, <2>4, RunWays, WayKeeps
  <1>4. CASE VerifyInputs
    <2>1. /\ RunStep /\ Locally /\ pc = "verify" /\ pc' \in {"finish", "pairs"}
          /\ UNCHANGED <<temp, dbLinks, definition, rows, chosen>>
          /\ UNCHANGED <<installed, tip, objects, retained>>
      BY <1>4 DEF VerifyInputs, fileVars, toolVars
    <2>2. pc \in Resting /\ pc' \in InRun \cup {"pairs"}
      BY <2>1 DEF Resting, InRun
    <2>3. pc' \notin Creating /\ dbLinks = 1
      BY <1>0, <2>1 DEF Creating, Whole
    <2>4. FileTypes' /\ Whole'
      BY <1>0, <2>1, <2>3, FilesStand
    <2> QED BY <2>1, <2>2, <2>4, RunWays, WayKeeps
  <1> QED BY <1>1, <1>2, <1>3, <1>4

LEMMA CreatingKeeps ==
    ASSUME IInv,
           \/ SelectHistory \/ AdmitTools \/ RetainHistory \/ MakeTemporary \/ FillTemporary
           \/ LinkDatabase \/ UnlinkTemporary
    PROVE  IInv'
  <1>0. FileTypes /\ Whole
    BY DEF IInv, TypeInv
  <1>1. /\ RunStep /\ Locally /\ pc \in Creating /\ pc' \in Creating \cup {"verify"}
        /\ UNCHANGED rows
    BY DEF SelectHistory, AdmitTools, RetainHistory, MakeTemporary, FillTemporary, LinkDatabase,
           UnlinkTemporary, Goto, Creating, fileVars
  <1>2. /\ op = "run" /\ op' = "run" /\ UNCHANGED <<workerVars, comparisonVars, unsettled>>
    BY <1>1, RunWays
  <1>3. pc \in Resting /\ pc' \in InRun \cup {"pairs"}
    BY <1>1 DEF Resting, InRun
  <1>4. ASSUME FileTypes', Whole', definition' = definition \/ rows = << >> PROVE IInv'
    BY <1>1, <1>2, <1>3, <1>4, WayKeeps
  <1>5. CASE SelectHistory
    <2>1. /\ pc = "select" /\ pc' = "admit" /\ chosen' = [chosen EXCEPT !.commit = tip]
          /\ UNCHANGED <<temp, dbLinks, definition, rows, installed, tip, objects, retained>>
      BY <1>5 DEF SelectHistory, Goto, fileVars, toolVars
    <2>2. chosen' \in Versions /\ chosen'.commit # 0
      BY <1>0, <2>1 DEF FileTypes, Versions
    <2>3. FileTypes'
      BY <1>0, <2>1, <2>2 DEF FileTypes, Sealed
    <2>4. Whole'
      BY <1>0, <2>1, <2>2 DEF Whole, Creating, Saving, InBoth
    <2> QED BY <2>1, <2>3, <2>4, <1>4
  <1>6. CASE AdmitTools
    <2>1. /\ pc = "admit" /\ pc' = "retain" /\ chosen' = [chosen EXCEPT !.tool = installed]
          /\ UNCHANGED <<temp, dbLinks, definition, rows, installed, tip, objects, retained>>
      BY <1>6 DEF AdmitTools, Goto, fileVars
    <2>2. chosen' \in Versions /\ chosen'.commit = chosen.commit
      BY <1>0, <2>1 DEF FileTypes, Versions
    <2>3. FileTypes'
      BY <1>0, <2>1, <2>2 DEF FileTypes, Sealed
    <2>4. Whole'
      BY <1>0, <2>1, <2>2 DEF Whole, Creating, Saving, InBoth
    <2> QED BY <2>1, <2>3, <2>4, <1>4
  <1>7. CASE RetainHistory
    <2>1. /\ pc = "retain" /\ pc' = "temp" /\ chosen.commit \in objects
          /\ retained' = retained \cup {chosen.commit}
          /\ UNCHANGED <<temp, dbLinks, definition, rows, chosen, installed, tip, objects>>
      BY <1>7 DEF RetainHistory, Goto, fileVars
    <2>3. FileTypes'
      BY <1>0, <2>1 DEF FileTypes, Sealed
    <2>4. Whole'
      BY <1>0, <2>1 DEF Whole, Creating, Saving, InBoth
    <2> QED BY <2>1, <2>3, <2>4, <1>4
  <1>8. CASE MakeTemporary \/ FillTemporary
    <2>1. /\ \/ pc = "temp" /\ pc' = "fill" /\ temp' = "empty"
             \/ pc = "fill" /\ pc' = "link" /\ temp' = "filled"
          /\ UNCHANGED <<dbLinks, definition, rows, chosen, installed, tip, objects, retained>>
      BY <1>8 DEF MakeTemporary, FillTemporary, Goto, toolVars
    <2>3. FileTypes'
      BY <1>0, <2>1 DEF FileTypes, Sealed
    <2>4. Whole'
      BY <1>0, <2>1 DEF Whole, Creating, Saving, InBoth
    <2> QED BY <2>1, <2>3, <2>4, <1>4
  <1>9. CASE LinkDatabase
    <2>1. /\ pc = "link" /\ pc' = "unlink" /\ dbLinks = 0 /\ dbLinks' = 2
          /\ definition' = IF temp = "filled" THEN chosen ELSE Nothing
          /\ UNCHANGED <<temp, rows, chosen, installed, tip, objects, retained>>
      BY <1>9 DEF LinkDatabase, Goto, toolVars
    <2>2. /\ rows = << >> /\ temp = "filled" /\ definition' = chosen
          /\ chosen.commit # 0 /\ chosen.commit \in objects \cap retained
      BY <1>0, <2>1 DEF Whole
    <2>3. FileTypes'
      BY <1>0, <2>1, <2>2 DEF FileTypes, Sealed
    <2>4. Whole'
      BY <1>0, <2>1, <2>2 DEF Whole, Creating, Saving, InBoth
    <2> QED BY <2>2, <2>3, <2>4, <1>4
  <1>10. CASE UnlinkTemporary
    <2>1. /\ pc = "unlink" /\ pc' = "verify" /\ temp' = "none" /\ dbLinks' = 1
          /\ UNCHANGED <<definition, rows, chosen, installed, tip, objects, retained>>
      BY <1>10 DEF UnlinkTemporary, Goto, toolVars
    <2>3. FileTypes'
      BY <1>0, <2>1 DEF FileTypes, Sealed
    <2>4. Whole'
      BY <1>0, <2>1 DEF Whole, Creating, Saving, InBoth
    <2> QED BY <2>1, <2>3, <2>4, <1>4
  <1> QED BY <1>5, <1>6, <1>7, <1>8, <1>9, <1>10

\* The world around: tools, branches, objects and orphans.
LEMMA ExecutingStands ==
    ASSUME Executing, UNCHANGED <<workerVars, op, pc, unsettled, rows, definition>>
    PROVE  Executing'
  <1>1. /\ worker' = worker /\ owned' = owned /\ pairDir' = pairDir /\ workerDirs' = workerDirs
        /\ outcome' = outcome /\ op' = op /\ pc' = pc /\ unsettled' = unsettled /\ rows' = rows
        /\ definition' = definition
    BY DEF workerVars
  <1>2. Sealed' = Sealed /\ Returned' = Returned /\ Busy' = Busy /\ Given' = Given
    BY <1>1 DEF Sealed, Returned, Busy, Given
  <1>3. ExecutorTypes' /\ Rests'
    BY <1>1 DEF Executing, ExecutorTypes, Rests
  <1>4. OfOneTool'
    BY <1>1, <1>2 DEF Executing, OfOneTool, OneTool, Working
  <1>5. InSequence'
    BY <1>1, <1>2 DEF Executing, InSequence, Working
  <1>6. Accounted' /\ Settled'
    BY <1>1, <1>2 DEF Executing, Accounted, Settled, Complete
  <1>7. NothingLeftBehind'
    BY <1>1 DEF Executing, NothingLeftBehind, LeftDirectories
  <1> QED BY <1>3, <1>4, <1>5, <1>6, <1>7 DEF Executing

LEMMA AroundKeeps ==
    ASSUME IInv,
           OrphanWrites \/ OrphanEnds \/ UpgradeTool \/ RewriteBranch \/ PruneObjects
             \/ UNCHANGED vars
    PROVE  IInv'
  <1>0. /\ Executing /\ FileTypes /\ PlaceTypes /\ ComparisonTypes /\ Whole
        /\ Recorded /\ ExportedFromOneMatch
    BY Parts
  <1>1. /\ UNCHANGED <<workerVars, comparisonVars, op, pc, unsettled, chosen>>
        /\ UNCHANGED <<temp, dbLinks, definition, rows, retained>>
    BY DEF OrphanWrites, OrphanEnds, UpgradeTool, RewriteBranch, PruneObjects, Outside, localVars,
           fileVars, toolVars, vars
  <1>2. /\ installed' \in Nat /\ tip' \in {1, 2}
        /\ objects \cap retained \subseteq objects'
    BY <1>0 DEF OrphanWrites, OrphanEnds, UpgradeTool, RewriteBranch, PruneObjects, toolVars, vars,
                FileTypes
  <1>3. FileTypes'
    BY <1>0, <1>1, <1>2 DEF FileTypes, Sealed
  <1>4. Whole'
    BY <1>0, <1>1, <1>2 DEF Whole, Creating
  <1>5. PlaceTypes'
    BY <1>0, <1>1 DEF PlaceTypes
  <1>6. UNCHANGED <<record, exported, matched, request, made>>
    BY <1>1 DEF comparisonVars
  <1>7. ComparisonTypes' /\ Recorded' /\ ExportedFromOneMatch'
    BY <1>0, <1>1, <1>6, ComparisonStands
  <1>8. Executing'
    BY <1>0, <1>1, ExecutingStands
  <1> QED BY <1>3, <1>4, <1>5, <1>7, <1>8, TogetherFollows

-----------------------------------------------------------------------------
(* The coordinator's steps of a run. *)

LEMMA RowTaken ==
    ASSUME IInv, PublishRow
    PROVE  OfOneTool' /\ InSequence' /\ Accounted' /\ FileTypes' /\ ExecutorTypes'
  <1> DEFINE p == Len(rows) + 1
             row == [status |-> outcome[p].status, tool |-> outcome[p].tool]
  <1>0. ExecutorTypes /\ OfOneTool /\ InSequence /\ Accounted /\ FileTypes
    BY DEF IInv, TypeInv
  <1>1. /\ op = "run" /\ pc = "pairs" /\ unsettled = NoPair /\ p \in Returned
        /\ rows' = Append(rows, row) /\ outcome' = [outcome EXCEPT ![p] = NoOutcome]
        /\ unsettled' = p /\ op' = op /\ pc' = pc /\ definition' = definition
        /\ UNCHANGED <<worker, owned, pairDir, workerDirs>>
    BY DEF PublishRow
  <1>2. UNCHANGED <<temp, dbLinks, chosen, installed, tip>>
    BY DEF PublishRow, toolVars
  <1>3. p \in Pairs
    BY <1>1 DEF Returned
  <1>4. row.status \in Statuses /\ row.tool = definition.tool /\ row.tool \in Nat
    BY <1>0, <1>1, <1>3 DEF ExecutorTypes, OfOneTool, FileTypes, Versions
  <1>5. row \in [status : Statuses, tool : Nat]
    BY <1>4
  <1> HIDE DEF row
  <1>6. /\ Len(rows) \in Nat /\ Len(rows') = p /\ rows'[p] = row
        /\ \A i \in 1..Len(rows) : rows'[i] = rows[i]
        /\ rows' \in Seq([status : Statuses, tool : Nat])
    BY <1>0, <1>1, <1>5 DEF FileTypes
  <1>7. Sealed' = Sealed \cup {p} /\ p \notin Sealed
    BY <1>6 DEF Sealed
  <1> HIDE DEF p
  <1>8. /\ DOMAIN outcome' = Pairs /\ outcome'[p].status = "none"
        /\ \A r \in Pairs : r # p => outcome'[r] = outcome[r]
    BY <1>0, <1>1, <1>3 DEF ExecutorTypes, NoOutcome
  <1>9. Returned' = Returned \ {p}
    BY <1>8 DEF Returned
  <1>10. Busy' = Busy
    BY <1>1 DEF Busy
  <1>11. Given' = Given
    BY <1>1, <1>7, <1>9, <1>10 DEF Given
  <1>12. FileTypes'
    BY <1>0, <1>1, <1>2, <1>3, <1>6, <1>7 DEF FileTypes
  <1>13. ExecutorTypes'
    <2>1. "none" \in Statuses
      BY DEF Statuses
    <2> QED BY <1>0, <1>1, <1>8, <2>1 DEF ExecutorTypes
  <1>14. OfOneTool'
    <2>1. OneTool'
      BY <1>0, <1>1, <1>4, <1>6, <1>7 DEF OfOneTool, OneTool, Sealed
    <2>2. \A r \in Returned' : outcome'[r].tool = definition'.tool
      BY <1>0, <1>1, <1>8, <1>9 DEF OfOneTool, Returned
    <2>3. \A v \in Workers : Working(v)' => worker'[v].tool = definition'.tool
      BY <1>0, <1>1 DEF OfOneTool, Working
    <2> QED BY <2>1, <2>2, <2>3 DEF OfOneTool
  <1>15. InSequence'
    <2>1. \A v \in Workers : worker[v].pair \notin Sealed' \cup Returned'
      BY <1>0, <1>1, <1>7, <1>9 DEF InSequence
    <2>2. Sealed' \cap Returned' = {}
      BY <1>0, <1>1, <1>7, <1>9 DEF InSequence
    <2> QED BY <1>0, <1>1, <1>11, <2>1, <2>2 DEF InSequence, Working
  <1>16. Accounted'
    <2>1. \A r \in Pairs : pairDir[r].by # Nobody =>
             r \in owned /\ r \in Busy \cup Returned' \cup {p}
      BY <1>0, <1>1, <1>9, SequenceAssumption DEF Accounted
    <2> QED BY <1>0, <1>1, <1>7, <1>10, <2>1 DEF Accounted
  <1> QED BY <1>12, <1>13, <1>14, <1>15, <1>16

LEMMA RowKeeps ==
    ASSUME IInv, PublishRow
    PROVE  IInv'
  <1>0. /\ Executing /\ FileTypes /\ PlaceTypes /\ ComparisonTypes /\ Whole
        /\ Recorded /\ ExportedFromOneMatch
    BY Parts
  <1>1. /\ op = "run" /\ pc = "pairs" /\ op' = op /\ pc' = pc
        /\ UNCHANGED <<temp, dbLinks, definition, chosen, objects, retained>>
        /\ UNCHANGED <<record, exported, matched, request, made>>
    BY DEF PublishRow, toolVars, comparisonVars
  <1>2. OfOneTool' /\ InSequence' /\ Accounted' /\ FileTypes' /\ ExecutorTypes'
    BY RowTaken
  <1>3. Rests' /\ Settled' /\ NothingLeftBehind'
    BY <1>1 DEF Rests, Settled, NothingLeftBehind, Resting, Cleaning, Creating
  <1>4. Executing'
    BY <1>2, <1>3 DEF Executing
  <1>5. dbLinks = 1
    BY <1>0, <1>1 DEF Whole, InBoth
  <1>6. Whole'
    BY <1>0, <1>1, <1>5 DEF Whole, Creating
  <1>7. PlaceTypes'
    BY <1>0, <1>1 DEF PlaceTypes
  <1>8. ComparisonTypes' /\ Recorded' /\ ExportedFromOneMatch'
    BY <1>0, <1>1, ComparisonStands
  <1> QED BY <1>2, <1>4, <1>6, <1>7, <1>8, TogetherFollows

\* The removal of a settled directory.
LEMMA SettledGoes ==
    ASSUME IInv, Acknowledge
    PROVE  /\ unsettled \in Sealed /\ unsettled \in Pairs
           /\ DOMAIN pairDir' = Pairs
           /\ \A p \in Pairs : p # unsettled => pairDir'[p] = pairDir[p]
           /\ pairDir'[unsettled].by = Nobody
           /\ \A p \in Pairs : DOMAIN pairDir'[p] = {"by", "bytes"}
  <1>0. ExecutorTypes /\ Accounted /\ FileTypes
    BY DEF IInv, TypeInv
  <1>1. /\ op = "run" /\ pc = "pairs" /\ unsettled # NoPair /\ Forgotten(unsettled)
    BY DEF Acknowledge
  <1>2. unsettled \in Sealed /\ unsettled \in Pairs
    BY <1>0, <1>1 DEF Accounted, FileTypes
  <1>3. PICK q \in Pairs : q = unsettled
    BY <1>2
  <1>4. pairDir' = [pairDir EXCEPT ![q] = IF q \in owned THEN NoDirectory ELSE pairDir[q]]
    BY <1>1, <1>3 DEF Forgotten
  <1>5. DOMAIN NoDirectory = {"by", "bytes"} /\ NoDirectory.by = Nobody
    BY DEF NoDirectory
  <1>6. q \notin owned => pairDir[q].by = Nobody
    BY <1>0, <1>1 DEF Accounted
  <1>7. /\ DOMAIN pairDir' = Pairs
        /\ \A p \in Pairs : p # q => pairDir'[p] = pairDir[p]
        /\ pairDir'[q] = IF q \in owned THEN NoDirectory ELSE pairDir[q]
    BY <1>0, <1>4 DEF ExecutorTypes
  <1>8. pairDir'[q].by = Nobody /\ \A p \in Pairs : DOMAIN pairDir'[p] = {"by", "bytes"}
    BY <1>0, <1>5, <1>6, <1>7 DEF ExecutorTypes
  <1> QED BY <1>2, <1>3, <1>7, <1>8

LEMMA AcknowledgeKeeps ==
    ASSUME IInv, Acknowledge
    PROVE  IInv'
  <1>0. /\ Executing /\ FileTypes /\ PlaceTypes /\ ComparisonTypes /\ Whole
        /\ Recorded /\ ExportedFromOneMatch
    BY Parts
  <1>1. /\ op = "run" /\ pc = "pairs" /\ op' = op /\ pc' = pc
        /\ UNCHANGED <<temp, dbLinks, definition, rows, chosen>>
        /\ UNCHANGED <<installed, tip, objects, retained>>
        /\ UNCHANGED <<record, exported, matched, request, made>>
    BY DEF Acknowledge, toolVars, fileVars, comparisonVars
  <1>2. unsettled' = NoPair /\ owned' = owned \ {unsettled}
        /\ worker' = worker /\ workerDirs' = workerDirs /\ outcome' = outcome
    BY DEF Acknowledge, Forgotten
  <1>3. /\ unsettled \in Sealed /\ unsettled \in Pairs
        /\ DOMAIN pairDir' = Pairs
        /\ \A p \in Pairs : p # unsettled => pairDir'[p] = pairDir[p]
        /\ pairDir'[unsettled].by = Nobody
        /\ \A p \in Pairs : DOMAIN pairDir'[p] = {"by", "bytes"}
    BY SettledGoes
  <1>4. Sealed' = Sealed /\ Returned' = Returned /\ Busy' = Busy /\ Given' = Given
    BY <1>1, <1>2 DEF Sealed, Returned, Busy, Given
  <1>5. ExecutorTypes'
    BY <1>0, <1>2, <1>3 DEF Executing, ExecutorTypes
  <1>6. OfOneTool'
    BY <1>0, <1>1, <1>2, <1>4 DEF Executing, OfOneTool, OneTool, Working
  <1>7. InSequence'
    BY <1>0, <1>1, <1>2, <1>4 DEF Executing, InSequence, Working
  <1>8. Accounted'
    <2>1. ASSUME NEW p \in Pairs, pairDir'[p].by # Nobody
          PROVE  p \in owned' /\ p \in Busy \cup Returned \cup {NoPair}
      <3>1. p # unsettled
        BY <2>1, <1>3
      <3>2. pairDir[p].by # Nobody
        BY <2>1, <3>1, <1>3
      <3> QED BY <1>0, <1>1, <1>2, <3>1, <3>2 DEF Executing, Accounted
    <2>2. \A v \in workerDirs' : worker'[v].at # "closed"
      BY <1>0, <1>1, <1>2 DEF Executing, Accounted
    <2> QED BY <1>2, <1>4, <2>1, <2>2 DEF Accounted
  <1>9. Rests' /\ Settled' /\ NothingLeftBehind'
    BY <1>1 DEF Rests, Settled, NothingLeftBehind, Resting, Cleaning, Creating
  <1>10. Executing'
    BY <1>5, <1>6, <1>7, <1>8, <1>9 DEF Executing
  <1>11. FileTypes' /\ Whole'
    BY <1>0, <1>1, FilesStand
  <1>12. PlaceTypes'
    BY <1>0, <1>1 DEF PlaceTypes
  <1>13. ComparisonTypes' /\ Recorded' /\ ExportedFromOneMatch'
    BY <1>0, <1>1, ComparisonStands
  <1> QED BY <1>10, <1>11, <1>12, <1>13, TogetherFollows

LEMMA EndingKeeps ==
    ASSUME IInv, StopRun \/ AbortPairs \/ CommitRun
    PROVE  IInv'
  <1>0. /\ Executing /\ FileTypes /\ PlaceTypes /\ ComparisonTypes /\ Whole
        /\ Recorded /\ ExportedFromOneMatch
    BY Parts
  <1>1. /\ op # "none" /\ op' = op /\ unsettled' = unsettled
        /\ worker' = worker /\ owned' = owned /\ pairDir' = pairDir /\ workerDirs' = workerDirs
        /\ outcome' = outcome
        /\ UNCHANGED <<temp, dbLinks, definition, rows, chosen>>
        /\ UNCHANGED <<installed, tip, objects, retained>>
        /\ UNCHANGED <<record, exported, matched, request, made>>
    BY <1>0 DEF StopRun, AbortPairs, CommitRun, RunStep, Locally, workerVars, fileVars, toolVars,
                comparisonVars
  <1>2. /\ \/ op = "run" /\ pc = "pairs" /\ pc' = "stopping" /\ Complete /\ unsettled = NoPair
           \/ pc \in {"pairs", "copy", "record", "write"} /\ pc' = "aborting"
           \/ op = "run" /\ pc = "stopping" /\ pc' = "finish" /\ ThreadsGone
    BY DEF StopRun, AbortPairs, CommitRun, RunStep, Goto
  <1>3. pc' \notin Creating /\ pc' \notin Saving /\ pc' \notin Resting /\ dbLinks = 1
    BY <1>0, <1>2 DEF Creating, Saving, Resting, Cleaning, Whole, InBoth
  <1>4. FileTypes' /\ Whole'
    BY <1>0, <1>1, <1>3, FilesStand
  <1>5. PlaceTypes'
    BY <1>0, <1>1, <1>2 DEF PlaceTypes, InBoth, InRun, Saving, Cleaning, Creating
  <1>6. ComparisonTypes' /\ Recorded' /\ ExportedFromOneMatch'
    BY <1>0, <1>1, <1>3, ComparisonStands
  <1>7. Sealed' = Sealed /\ Returned' = Returned /\ Busy' = Busy /\ Given' = Given
    BY <1>1 DEF Sealed, Returned, Busy, Given
  <1>8. ExecutorTypes' /\ OfOneTool' /\ Rests'
    BY <1>0, <1>1, <1>3, <1>7 DEF Executing, ExecutorTypes, OfOneTool, OneTool, Working, Rests
  <1>9. pc' \in {"pairs", "stopping"}
          => op = "run" /\ pc = "pairs" /\ Complete /\ unsettled = NoPair
    BY <1>2
  <1>10. InSequence'
    BY <1>0, <1>1, <1>7, <1>9 DEF Executing, InSequence, Working
  <1>11. Accounted' /\ Settled'
    BY <1>0, <1>1, <1>7, <1>9 DEF Executing, Accounted, Settled, Complete
  <1>12. NothingLeftBehind'
    <2> SUFFICES ASSUME pc' = "finish" PROVE ~LeftDirectories
      BY <1>1 DEF NothingLeftBehind, LeftDirectories
    <2>1. op = "run" /\ pc = "stopping" /\ ThreadsGone
      BY <1>2
    <2>2. Sealed = Pairs /\ unsettled = NoPair
      BY <1>0, <2>1 DEF Executing, Settled, Complete
    <2>3. workerDirs = {}
      BY <1>0, <2>1 DEF Executing, ExecutorTypes, Accounted, ThreadsGone
    <2>4. \A w \in Workers : worker[w].pair \notin Pairs
      BY <1>0, <2>1, <2>2 DEF Executing, InSequence
    <2>5. Returned = {}
      BY <1>0, <2>1, <2>2 DEF Executing, InSequence, Returned
    <2>6. \A p \in Pairs : pairDir[p].by = Nobody
      BY <1>0, <2>1, <2>2, <2>4, <2>5, SequenceAssumption DEF Executing, Accounted, Busy
    <2> QED BY <2>3, <2>6 DEF LeftDirectories
  <1>13. Executing'
    BY <1>8, <1>10, <1>11, <1>12 DEF Executing
  <1> QED BY <1>4, <1>5, <1>6, <1>13, TogetherFollows

LEMMA PairsKeep ==
    ASSUME IInv, NEW w \in Workers,
           StartThread(w) \/ GiveItem(w) \/ Work(w) \/ StopThread(w)
    PROVE  IInv'
  <1>0. /\ Executing /\ FileTypes /\ PlaceTypes /\ ComparisonTypes /\ Whole
        /\ Recorded /\ ExportedFromOneMatch
    BY Parts
  <1>1. InPairs
    BY DEF StartThread, GiveItem, Work, StopThread
  <1>2. /\ UNCHANGED <<op, pc, temp, dbLinks, definition, rows, chosen>>
        /\ UNCHANGED <<installed, tip, objects, retained>>
        /\ UNCHANGED <<record, exported, matched, request, made>>
    BY <1>1 DEF InPairs, localVars, fileVars, toolVars, comparisonVars
  <1>3. Executing'
    BY PairStepKeeps DEF Executing
  <1>4. FileTypes' /\ Whole'
    BY <1>0, <1>2, FilesStand
  <1>5. PlaceTypes'
    BY <1>0, <1>2 DEF PlaceTypes
  <1>6. ComparisonTypes' /\ Recorded' /\ ExportedFromOneMatch'
    BY <1>0, <1>2, ComparisonStands
  <1> QED BY <1>3, <1>4, <1>5, <1>6, TogetherFollows

-----------------------------------------------------------------------------
(* compare and snapshot. *)

LEMMA RequestKeeps ==
    ASSUME IInv, StartComparison
    PROVE  IInv'
  <1>0. /\ Executing /\ FileTypes /\ PlaceTypes /\ ComparisonTypes /\ Whole
        /\ Recorded /\ ExportedFromOneMatch /\ OneTool /\ (pc \in Resting => Blank)
    BY Parts
  <1>1. /\ op = "none" /\ op' = "compare" /\ pc' = "pairs" /\ dbLinks = 1
        /\ UNCHANGED <<workerVars, unsettled>>
        /\ UNCHANGED <<temp, dbLinks, definition, rows, chosen>>
        /\ UNCHANGED <<installed, tip, objects, retained>>
        /\ UNCHANGED <<record, exported, matched>>
    BY DEF StartComparison, Begin, fileVars, toolVars
  <1>2. PICK p \in Compared, numbered \in BOOLEAN, s \in Selections :
            request' = [pair |-> p, byPair |-> numbered, select |-> s]
    BY DEF StartComparison
  <1>3. request'.pair \in Pairs
    BY <1>2, OperationAssumption
  <1>4. pc \in Resting
    BY <1>0, <1>1 DEF PlaceTypes, Resting
  <1>5. Blank'
    BY <1>0, <1>1, <1>4 DEF Blank, workerVars
  <1>6. PlaceTypes'
    BY <1>1 DEF PlaceTypes, InBoth, InRun, Saving, Cleaning, Creating
  <1>7. pc' \notin Creating /\ pc' \notin Saving
    BY <1>1 DEF Creating, Saving
  <1>8. FileTypes' /\ Whole'
    BY <1>0, <1>1, <1>7, FilesStand
  <1>9. OneTool'
    BY <1>0, <1>1, OneToolStands
  <1>10. Executing'
    BY <1>1, <1>5, <1>6, <1>8, <1>9, BlankFollows
  <1>11. ComparisonTypes'
    BY <1>0, <1>1, <1>3 DEF ComparisonTypes
  <1>12. Recorded' /\ ExportedFromOneMatch'
    BY <1>0, <1>1, <1>7 DEF Recorded, ExportedFromOneMatch, Saving
  <1> QED BY <1>6, <1>8, <1>10, <1>11, <1>12, TogetherFollows

\* What a comparison keeps whatever it does to its own record.
LEMMA ComparingKeeps ==
    ASSUME IInv, op = "compare", op' = op, pc \in Saving \cup {"pairs"},
           pc' \in Saving \cup {"stopping", "aborting"},
           UNCHANGED <<worker, owned, pairDir, workerDirs>>,
           UNCHANGED <<temp, dbLinks, definition, rows, chosen>>,
           UNCHANGED <<installed, tip, objects, retained>>,
           outcome' = outcome \/ outcome' = [outcome EXCEPT ![request.pair] = NoOutcome]
    PROVE  Executing' /\ FileTypes' /\ Whole' /\ PlaceTypes'
  <1>0. Executing /\ FileTypes /\ PlaceTypes /\ ComparisonTypes /\ Whole
    BY Parts
  <1>1. request.pair \in Pairs
    BY <1>0 DEF ComparisonTypes
  <1>2. /\ DOMAIN outcome' = Pairs
        /\ \A p \in Pairs : outcome'[p] = outcome[p] \/ outcome'[p].status = "none"
    BY <1>0, <1>1 DEF Executing, ExecutorTypes, NoOutcome
  <1>3. pc' \notin Creating /\ pc' \notin Resting /\ pc' # "finish" /\ dbLinks = 1
    BY <1>0 DEF Creating, Saving, Resting, Cleaning, Whole, InBoth
  <1>4. FileTypes' /\ Whole'
    BY <1>0, <1>3, FilesStand
  <1>5. PlaceTypes'
    BY <1>0 DEF PlaceTypes, InBoth, InRun, Saving, Cleaning, Creating
  <1>6. ExecutorTypes'
    <2>1. "none" \in Statuses
      BY DEF Statuses
    <2> QED BY <1>0, <1>2, <2>1 DEF Executing, ExecutorTypes
  <1>7. OfOneTool'
    BY <1>0, <1>2 DEF Executing, OfOneTool, OneTool, Working, Returned, Sealed
  <1>8. Rests' /\ InSequence' /\ Accounted' /\ Settled' /\ NothingLeftBehind'
    BY <1>3 DEF Rests, InSequence, Accounted, Settled, NothingLeftBehind
  <1> QED BY <1>4, <1>5, <1>6, <1>7, <1>8 DEF Executing

LEMMA PublishComparisonKeeps ==
    ASSUME IInv, PublishComparison
    PROVE  IInv'
  <1> DEFINE p == request.pair
             Accept(c) == /\ made' = c /\ pc' = "copy"
                          /\ matched' = IF request.byPair
                                        THEN [matched EXCEPT ![p] = matched[p] \cup {c}]
                                        ELSE matched
  <1>0. /\ ComparisonTypes /\ Recorded /\ ExportedFromOneMatch
    BY Parts
  <1>1. /\ op = "compare" /\ op' = op /\ pc = "pairs"
        /\ UNCHANGED <<worker, owned, pairDir, workerDirs>>
        /\ UNCHANGED <<temp, dbLinks, definition, rows, chosen>>
        /\ UNCHANGED <<installed, tip, objects, retained>>
        /\ UNCHANGED <<record, exported, request>>
        /\ outcome' = [outcome EXCEPT ![p] = NoOutcome]
    BY DEF PublishComparison, fileVars, toolVars
  <1>2. (\E c : Accept(c)) \/ (pc' = "aborting" /\ UNCHANGED <<made, matched>>)
    BY DEF PublishComparison
  <1>3. pc' \in {"copy", "aborting"}
    BY <1>2
  <1>4. Executing' /\ FileTypes' /\ Whole' /\ PlaceTypes'
    BY <1>1, <1>3, ComparingKeeps DEF Saving
  <1>5. CASE pc' = "aborting" /\ UNCHANGED <<made, matched>>
    <2>1. ComparisonTypes' /\ Recorded' /\ ExportedFromOneMatch'
      BY <1>0, <1>1, <1>5, ComparisonStands DEF Saving
    <2> QED BY <1>4, <2>1, TogetherFollows
  <1>6. CASE \E c : Accept(c)
    <2>1. PICK c : Accept(c)
      BY <1>6
    <2>2. p \in Pairs
      BY <1>0, <1>1 DEF ComparisonTypes
    <2>3. /\ DOMAIN matched' = Pairs
          /\ \A q \in Pairs : matched[q] \subseteq matched'[q]
          /\ request.byPair => c \in matched'[p]
      <3>1. CASE request.byPair
        <4>1. matched' = [matched EXCEPT ![p] = matched[p] \cup {c}]
          BY <2>1, <3>1
        <4> QED BY <1>0, <2>2, <4>1 DEF ComparisonTypes
      <3>2. CASE ~request.byPair
        BY <1>0, <2>1, <3>2 DEF ComparisonTypes
      <3> QED BY <3>1, <3>2
    <2>4. made' = c /\ pc' = "copy"
      BY <2>1
    <2>5. ComparisonTypes'
      BY <1>0, <1>1, <2>2, <2>3 DEF ComparisonTypes
    <2>6. Recorded'
      <3>1. \A q \in Pairs : record'[q] \in {NoFiles, Torn} \/
              \E m \in matched'[q] : \A n \in DOMAIN record'[q] : record'[q][n] = m[n]
        BY <1>0, <1>1, <2>3 DEF Recorded
      <3> QED BY <1>1, <2>3, <2>4, <3>1 DEF Recorded
    <2>7. ExportedFromOneMatch'
      BY <1>0, <1>1, <2>3 DEF ExportedFromOneMatch
    <2> QED BY <1>4, <2>5, <2>6, <2>7, TogetherFollows
  <1> QED BY <1>2, <1>5, <1>6

LEMMA SavingKeeps ==
    ASSUME IInv, SaveArtifact \/ EndSaving \/ TruncateRecord \/ SaveRecord
    PROVE  IInv'
  <1> DEFINE p == request.pair
             evidence == [n \in Selected |-> made[n]]
  <1>0. /\ ComparisonTypes /\ Recorded /\ ExportedFromOneMatch
    BY Parts
  <1>1. CompareStep
    BY DEF SaveArtifact, EndSaving, TruncateRecord, SaveRecord
  <1>2. /\ op = "compare" /\ op' = op
        /\ UNCHANGED <<worker, owned, pairDir, workerDirs, outcome>>
        /\ UNCHANGED <<temp, dbLinks, definition, rows, chosen>>
        /\ UNCHANGED <<installed, tip, objects, retained>>
        /\ UNCHANGED <<exported, request, made, matched>>
    BY <1>1 DEF CompareStep, workerVars, fileVars, toolVars
  <1>3. /\ \/ pc = "copy" /\ pc' = "copy" /\ record' = record
           \/ pc = "copy" /\ pc' \in {"record", "stopping"} /\ record' = record
              /\ (pc' = "record" => request.byPair)
           \/ pc = "record" /\ pc' = "write" /\ record' = [record EXCEPT ![p] = Torn]
           \/ pc = "write" /\ pc' = "stopping" /\ record' = [record EXCEPT ![p] = evidence]
    BY DEF SaveArtifact, EndSaving, TruncateRecord, SaveRecord, Goto, EmptyRecord, WriteRecord
  <1> HIDE DEF evidence
  <1>4. Executing' /\ FileTypes' /\ Whole' /\ PlaceTypes'
    BY <1>2, <1>3, ComparingKeeps DEF Saving
  <1>5. p \in Pairs
    BY <1>0, <1>2 DEF ComparisonTypes
  <1>6. DOMAIN record' = Pairs /\ \A q \in Pairs : q # p => record'[q] = record[q]
    BY <1>0, <1>3, <1>5 DEF ComparisonTypes
  <1>7. ComparisonTypes'
    BY <1>0, <1>2, <1>6 DEF ComparisonTypes
  <1>8. \/ record' = record
        \/ record'[p] = Torn
        \/ \E m \in matched[p] : \A n \in DOMAIN record'[p] : record'[p][n] = m[n]
    <2>1. CASE pc = "copy"
      BY <1>3, <2>1
    <2>2. CASE pc = "record"
      BY <1>0, <1>3, <1>5, <2>2 DEF ComparisonTypes
    <2>3. CASE pc = "write"
      <3>1. record'[p] = evidence
        BY <1>0, <1>3, <1>5, <2>3 DEF ComparisonTypes
      <3>2. made \in matched[p]
        BY <1>0, <2>3 DEF Recorded, Saving
      <3>3. \A n \in DOMAIN evidence : evidence[n] = made[n]
        BY DEF evidence
      <3> QED BY <3>1, <3>2, <3>3
    <2> QED BY <1>3, <2>1, <2>2, <2>3
  <1>9. Recorded'
    <2>1. \A q \in Pairs : record'[q] \in {NoFiles, Torn} \/
            \E m \in matched'[q] : \A n \in DOMAIN record'[q] : record'[q][n] = m[n]
      BY <1>0, <1>2, <1>5, <1>6, <1>8 DEF Recorded
    <2>2. pc' \in Saving /\ request'.byPair => made' \in matched'[request'.pair]
      BY <1>0, <1>2, <1>3 DEF Recorded, Saving
    <2>3. pc' \in {"record", "write"} => request'.byPair
      BY <1>0, <1>2, <1>3 DEF Recorded
    <2> QED BY <2>1, <2>2, <2>3 DEF Recorded
  <1>10. ExportedFromOneMatch'
    BY <1>0, <1>2 DEF ExportedFromOneMatch
  <1> QED BY <1>4, <1>7, <1>9, <1>10, TogetherFollows

\* What is exported is what is recorded, as far as it is still on disk.
LEMMA SnapshotKeeps ==
    ASSUME IInv, Snapshot
    PROVE  IInv'
  <1> DEFINE copied(p) == [n \in DOMAIN record[p] |-> saved[p][n]]
  <1>0. /\ Executing /\ FileTypes /\ PlaceTypes /\ ComparisonTypes /\ Whole
        /\ Recorded /\ ExportedFromOneMatch
    BY Parts
  <1>1. /\ UNCHANGED <<workerVars, op, pc, unsettled>>
        /\ UNCHANGED <<temp, dbLinks, definition, rows, chosen>>
        /\ UNCHANGED <<installed, tip, objects, retained>>
        /\ UNCHANGED <<record, request, made, matched>>
    BY DEF Snapshot, localVars, fileVars, toolVars
  <1>2. /\ \A p \in Sealed : Verified(p)
        /\ exported' = [p \in Pairs |-> IF p \in Sealed THEN copied(p) ELSE NoFiles]
    BY DEF Snapshot, ExportComparisons
  <1>3. Executing'
    BY <1>0, <1>1, ExecutingStands
  <1>4. FileTypes' /\ Whole'
    BY <1>0, <1>1, FilesStand
  <1>5. PlaceTypes'
    BY <1>0, <1>1 DEF PlaceTypes
  <1>6. DOMAIN exported' = Pairs
    BY <1>2
  <1>7. ComparisonTypes'
    BY <1>0, <1>1, <1>6 DEF ComparisonTypes
  <1>8. Recorded'
    BY <1>0, <1>1 DEF Recorded
  <1>9. ExportedFromOneMatch'
    <2>1. ASSUME NEW p \in Pairs
          PROVE  exported'[p] = NoFiles \/
                   \E m \in matched[p] : \A n \in DOMAIN exported'[p] : exported'[p][n] = m[n]
      <3>1. CASE p \notin Sealed
        BY <1>2, <3>1
      <3>2. CASE p \in Sealed
        <4>1. exported'[p] = copied(p) /\ Verified(p)
          BY <1>2, <3>2
        <4>2. record[p] # Torn /\ \A n \in DOMAIN record[p] : saved[p][n] = record[p][n]
          BY <4>1 DEF Verified
        <4>3. CASE record[p] = NoFiles
          <5>1. DOMAIN record[p] = {}
            BY <4>3 DEF NoFiles
          <5>2. copied(p) = << >>
            BY <5>1
          <5> QED BY <4>1, <5>2 DEF NoFiles
        <4>4. CASE \E m \in matched[p] : \A n \in DOMAIN record[p] : record[p][n] = m[n]
          <5>1. /\ DOMAIN exported'[p] = DOMAIN record[p]
                /\ \A n \in DOMAIN record[p] : exported'[p][n] = record[p][n]
            BY <4>1, <4>2
          <5> QED BY <4>4, <5>1
        <4> QED BY <1>0, <4>2, <4>3, <4>4 DEF Recorded
      <3> QED BY <3>1, <3>2
    <2> QED BY <1>1, <2>1 DEF ExportedFromOneMatch
  <1> QED BY <1>3, <1>4, <1>5, <1>7, <1>8, <1>9, TogetherFollows

-----------------------------------------------------------------------------
(* The specification. *)

LEMMA InitIInv == Init => IInv
  <1> SUFFICES ASSUME Init PROVE IInv
    OBVIOUS
  <1>1. Blank
    BY DEF Init, ExecutorInit, Blank
  <1>2. /\ op = "none" /\ pc = "idle" /\ chosen = Nothing /\ definition = Nothing
        /\ temp = "none" /\ dbLinks = 0 /\ rows = << >> /\ installed = 1 /\ tip = 1
    BY DEF Init
  <1>3. PlaceTypes
    BY <1>2 DEF PlaceTypes, InRun, Cleaning, Creating, Saving, InBoth
  <1>4. FileTypes
    BY <1>2 DEF FileTypes, Versions, Nothing, Sealed
  <1>5. OneTool
    BY <1>2 DEF OneTool, Sealed
  <1>6. Executing
    BY <1>1, <1>2, <1>3, <1>4, <1>5, BlankInvariants
  <1>7. Whole
    BY <1>2 DEF Whole, Creating, Saving, InBoth
  <1>8. /\ record = [p \in Pairs |-> NoFiles] /\ exported = [p \in Pairs |-> NoFiles]
        /\ matched = [p \in Pairs |-> {}]
    BY DEF Init, ComparisonInit
  <1>9. ComparisonTypes
    BY <1>2, <1>8 DEF ComparisonTypes
  <1>10. Recorded /\ ExportedFromOneMatch
    BY <1>2, <1>8 DEF Recorded, ExportedFromOneMatch, Saving
  <1> QED BY <1>3, <1>4, <1>6, <1>7, <1>9, <1>10, Together

LEMMA StepIInv == IInv /\ [Next]_vars => IInv'
  <1> SUFFICES ASSUME IInv, [Next]_vars PROVE IInv'
    OBVIOUS
  <1>1. CASE \/ StartRun \/ EmptyScratch \/ RemoveScratch \/ OpenDatabase \/ VerifyInputs
    BY <1>1, CleaningKeeps
  <1>2. CASE \/ ScratchRefilled \/ RetainFails \/ CreationFails \/ RefuseInputs \/ FinishRun
             \/ FinishComparison \/ Crash
    BY <1>2, LeavingKeeps
  <1>3. CASE \/ SelectHistory \/ AdmitTools \/ RetainHistory \/ MakeTemporary \/ FillTemporary
             \/ LinkDatabase \/ UnlinkTemporary
    BY <1>3, CreatingKeeps
  <1>4. CASE \/ OrphanWrites \/ OrphanEnds \/ UpgradeTool \/ RewriteBranch \/ PruneObjects
             \/ UNCHANGED vars
    BY <1>4, AroundKeeps
  <1>5. ASSUME NEW w \in Workers, StartThread(w) \/ GiveItem(w) \/ Work(w) \/ StopThread(w)
        PROVE  IInv'
    BY <1>5, PairsKeep
  <1>6. CASE PublishRow \/ Acknowledge
    BY <1>6, RowKeeps, AcknowledgeKeeps
  <1>7. CASE StopRun \/ AbortPairs \/ CommitRun
    BY <1>7, EndingKeeps
  <1>8. CASE StartComparison \/ PublishComparison \/ Snapshot
    BY <1>8, RequestKeeps, PublishComparisonKeeps, SnapshotKeeps
  <1>9. CASE SaveArtifact \/ EndSaving \/ TruncateRecord \/ SaveRecord
    BY <1>9, SavingKeeps
  <1> QED BY <1>1, <1>2, <1>3, <1>4, <1>5, <1>6, <1>7, <1>8, <1>9 DEF Next

LEMMA Invariant == Spec => []IInv
  BY InitIInv, StepIInv, PTL DEF Spec

\* Whoever opens the database, after whatever crash, finds a frozen definition
\* in it and no second link but the one the next run takes away.
THEOREM DatabaseAlwaysWhole == Spec => []DatabaseIsWhole
  <1>1. IInv => DatabaseIsWhole
    BY DEF IInv, TypeInv, Whole, DatabaseIsWhole, Nothing, FileTypes
  <1> QED BY <1>1, Invariant, PTL

\* Every row is of the definition's tool, whatever became of the one on the
\* PATH.
THEOREM AlwaysOneTool == Spec => []OneTool
  <1>1. IInv => OneTool
    BY DEF IInv, OfOneTool
  <1> QED BY <1>1, Invariant, PTL

\* The history of a published definition is never pruned, and a snapshot holds
\* the files of one comparison that repeated the row.
THEOREM KeptAlwaysTrue == Spec => []WhatIsKeptIsTrue
  <1>1. IInv => WhatIsKeptIsTrue
    BY DEF IInv, TypeInv, Whole, WhatIsKeptIsTrue, HistoryIsKept, FileTypes
  <1> QED BY <1>1, Invariant, PTL

-----------------------------------------------------------------------------
(* Directories end with their pairs. *)

\* Only the acknowledgement of a sealed pair takes a directory away while the
\* run goes on.
LEMMA DirectoriesStand ==
    ASSUME IInv, [Next]_vars, op = "run", op' = "run", ~Acknowledge, NEW p \in Pairs
    PROVE  pairDir'[p].by = pairDir[p].by \/ pairDir'[p].by # Nobody
  <1>0. ExecutorTypes
    BY DEF IInv, TypeInv
  <1>1. ASSUME NEW w \in Workers, StartThread(w) \/ GiveItem(w) \/ Work(w) \/ StopThread(w)
        PROVE  pairDir'[p].by = pairDir[p].by \/ pairDir'[p].by # Nobody
    <2>1. CASE StartThread(w) \/ GiveItem(w) \/ StopThread(w)
      BY <2>1 DEF StartThread, GiveItem, StopThread, OpenWorker, Claim, CloseWorker
    <2>2. CASE Work(w)
      <3>1. Stays(w) \/ Returns(w)
        BY <1>0, <2>2, WorkerEffect DEF Work
      <3> QED BY <3>1 DEF Stays, Returns
    <2> QED BY <1>1, <2>1, <2>2
  <1>2. CASE \/ StartRun \/ EmptyScratch \/ RemoveScratch \/ OpenDatabase \/ VerifyInputs
             \/ SelectHistory \/ AdmitTools \/ RetainHistory \/ MakeTemporary \/ FillTemporary
             \/ LinkDatabase \/ UnlinkTemporary \/ StopRun \/ AbortPairs \/ CommitRun
    <2>1. UNCHANGED workerVars
      BY <1>2 DEF StartRun, EmptyScratch, RemoveScratch, OpenDatabase, VerifyInputs, SelectHistory,
                  AdmitTools, RetainHistory, MakeTemporary, FillTemporary, LinkDatabase,
                  UnlinkTemporary, StopRun, AbortPairs, CommitRun, RunStep
    <2> QED BY <2>1 DEF workerVars
  <1>3. CASE \/ OrphanWrites \/ OrphanEnds \/ UpgradeTool \/ RewriteBranch \/ PruneObjects
             \/ UNCHANGED vars
    BY <1>3 DEF OrphanWrites, OrphanEnds, UpgradeTool, RewriteBranch, PruneObjects, Outside, vars,
                workerVars
  <1>4. ~(\/ ScratchRefilled \/ RetainFails \/ CreationFails \/ RefuseInputs \/ FinishRun
          \/ FinishComparison \/ Crash)
    BY DEF ScratchRefilled, RetainFails, CreationFails, RefuseInputs, FinishRun, FinishComparison,
           Crash, Leave, ForgetLocals
  <1>5. ~(\/ StartComparison \/ PublishComparison \/ Snapshot \/ SaveArtifact \/ EndSaving
          \/ TruncateRecord \/ SaveRecord)
    BY DEF StartComparison, PublishComparison, Snapshot, SaveArtifact, EndSaving, TruncateRecord,
           SaveRecord, CompareStep, Begin
  <1>6. CASE PublishRow
    BY <1>6 DEF PublishRow
  <1> QED BY <1>1, <1>2, <1>3, <1>4, <1>5, <1>6 DEF Next

\* A run takes a pair's directory away only when the pair is durable, and has
\* taken every one away when it reaches its target.
THEOREM FilesAlwaysSettled == Spec => FilesAreSettled
  <1> DEFINE Sound == \A p \in Pairs :
                         /\ op = "run" /\ op' = "run"
                         /\ pairDir[p].by # Nobody /\ pairDir'[p].by = Nobody
                         => p \in Sealed
  <1>1. IInv /\ [Next]_vars => Sound
    <2> SUFFICES ASSUME IInv, [Next]_vars, NEW p \in Pairs, op = "run", op' = "run",
                        pairDir[p].by # Nobody, pairDir'[p].by = Nobody
                 PROVE  p \in Sealed
      OBVIOUS
    <2>1. Acknowledge
      BY DirectoriesStand
    <2>2. unsettled \in Sealed /\ \A q \in Pairs : q # unsettled => pairDir'[q] = pairDir[q]
      BY <2>1, SettledGoes
    <2> QED BY <2>2
  <1> HIDE DEF Sound
  <1>2. Spec => [][Sound]_vars
    BY <1>1, Invariant, PTL DEF Spec
  <1>3. SealedBeforeRemoved <=> [][Sound]_vars
    BY DEF SealedBeforeRemoved, Sound
  <1>4. Spec => []NothingLeftBehind
    <2>1. IInv => NothingLeftBehind
      BY DEF IInv
    <2> QED BY <2>1, Invariant, PTL
  <1> QED BY <1>2, <1>3, <1>4 DEF FilesAreSettled
=============================================================================
