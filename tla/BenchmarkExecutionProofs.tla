---------------------- MODULE BenchmarkExecutionProofs -----------------------
(***************************************************************************)
(* For every number of cases, launches and troubles: the journal of a run  *)
(* directory is right about the disk and about the work under way, the     *)
(* reports are right about the journal, evidence is never touched, and the *)
(* whole implements CaseResults.  The last part is about CaseScoring: what *)
(* is scored, and what a verdict says, for every set of cases and reports. *)
(***************************************************************************)
EXTENDS BenchmarkExecution, CaseScoring, FiniteSetTheorems, SequenceTheorems, TLAPS

-----------------------------------------------------------------------------
(* Types. *)

Labels == {"down", "create", "recover", "rows", "reopen", "case", "srcdiff", "hit",
           "semantic", "srcmove", "finish", "csv", "summary"}
Exits == {"none", "refused", "failed", "returned"}
Seals == {"open", "admitted", "rejected", "interrupted"}

DirectoryRecords ==
    [stage : Stages, key : CaseNumbers \X Nat, build : {0, 1},
     process : {"none", "alive", "gone"}, started : BOOLEAN, seal : Seals]
RowRecords ==
    [status : {"running", "interrupted", "terminal"}, outcome : Outcomes \cup {NoOutcome},
     srcdiff : Nat, srcmove : Nat, hit : BOOLEAN, completed : {0, 1}, annotated : Annotations]
ModeRecords ==
    [retry : BOOLEAN, cache : BOOLEAN, refresh : BOOLEAN, capture : Captures]
RunnerRecords ==
    [at : Labels, exit : Exits, mode : ModeRecords,
     build : {Unbuilt, 0, 1}, case : Nat, dir : Nat, pending : SUBSET Nat,
     record : RowRecords \cup {NoOutcome}]

Kinds ==
    /\ tools \in Seq(DirectoryRecords)
    /\ journal \in Journals
    /\ attempts \in [CaseNumbers -> Seq(RowRecords)]
    /\ cache \in [CaseNumbers -> {Unbuilt, Mangled, 0, 1}]
    /\ csv \in [CaseNumbers -> Outcomes \cup {NoOutcome}]
    /\ installed \in {0, 1}
    /\ runner \in RunnerRecords

-----------------------------------------------------------------------------
(* The inductive invariant. *)

Working == {"srcdiff", "hit", "semantic", "srcmove", "finish"}

\* An attempt directory that was made for a row, and what became of it.
Made(d, tool, key, mark) ==
    /\ d \in Directories
    /\ tools[d].key = key /\ tools[d].stage = tool /\ tools[d].seal = mark

\* An admitted attempt of srcMove whose annotated XML a review did not get.
Unannotated(row) == journal.diagnostics /\ row.annotated # "whole"

\* An outcome rests on attempts of its own row and of the build of the run.
Backed(row, key) ==
    /\ row.outcome \in Outcomes
    /\ row.outcome = "upstream_failure" => Made(row.srcdiff, "srcdiff", key, "rejected")
    /\ row.outcome # "upstream_failure" => Made(row.srcdiff, "srcdiff", key, "admitted")
    /\ row.outcome \in {"upstream_failure", "srcdiff_semantic_ineligible"} => row.srcmove = 0
    /\ row.outcome = "srcmove_tool_failure" =>
          \/ Made(row.srcmove, "srcmove", key, "rejected")
          \/ Made(row.srcmove, "srcmove", key, "admitted") /\ Unannotated(row)
    /\ row.outcome \in ScoringOutcomes => Made(row.srcmove, "srcmove", key, "admitted")
    /\ row.completed = IF row.outcome \in ScoringOutcomes THEN 1 ELSE 0
    /\ row.hit \/ tools[row.srcdiff].build = journal.build
    /\ row.srcmove # 0 => tools[row.srcmove].build = journal.build

RowsBacked ==
    \A c \in CaseNumbers : \A i \in DOMAIN attempts[c] :
        IF attempts[c][i].status = "terminal" THEN Backed(attempts[c][i], <<c, i>>)
        ELSE attempts[c][i].srcdiff = 0 /\ attempts[c][i].srcmove = 0

\* Which row is the latest can be told.
HasLatest ==
    \A c \in CaseNumbers : TerminalRows(c) # {} =>
        \E i \in TerminalRows(c) : \A j \in TerminalRows(c) : i >= j

\* What the place of the process says of the journal.
Placed ==
    /\ runner.at # "down" => runner.exit = "none" /\ runner.build \in {0, 1}
    /\ runner.at \notin {"down", "create"} =>
          /\ journal.made = "ready" /\ journal.build = runner.build
          /\ Reviewing => journal.diagnostics
    /\ journal.made # "ready" => /\ \A c \in CaseNumbers : attempts[c] = << >>
                                 /\ journal.status = "running"
    /\ runner.at \in {"case"} \cup Working => journal.status = "running" /\ runner.case # 0
    /\ runner.at \in {"csv", "summary"} => journal.status = "completed"
    /\ runner.at = "summary" => csv = LatestOutcomes

\* Recovery seals what was open when it looked; nobody has sealed it since.
ToRecover ==
    runner.at \in {"create", "recover"} =>
        \A d \in runner.pending : d \in Directories /\ Abandoned(d)

\* The row under way is open and due, and the directory under way is its own.
Ours(d, tool) ==
    /\ d \in Directories
    /\ tools[d].key = Key /\ tools[d].stage = tool
    /\ tools[d].build = journal.build /\ tools[d].seal # "interrupted"

SrcdiffDone ==
    /\ Made(runner.record.srcdiff, "srcdiff", Key, "admitted")
    /\ runner.record.hit \/ tools[runner.record.srcdiff].build = journal.build

CaseOpen ==
    /\ runner.case \in CaseNumbers
    /\ Len(attempts[runner.case]) > 0
    /\ attempts[runner.case][Len(attempts[runner.case])] = Row
    /\ LatestOutcome(runner.case) \in RetryableFailures \cup {NoOutcome}

AtPlace ==
    /\ runner.at = "srcdiff" =>
          /\ runner.record = [Row EXCEPT !.srcdiff = runner.dir]
          /\ runner.dir # 0 => Ours(runner.dir, "srcdiff")
    /\ runner.at = "hit" =>
          /\ runner.record = [Row EXCEPT !.srcdiff = runner.dir, !.hit = TRUE]
          /\ Made(runner.dir, "srcdiff", Key, "open")
    /\ runner.at = "semantic" => SrcdiffDone /\ runner.record.srcmove = 0
    /\ runner.at = "srcmove" =>
          /\ SrcdiffDone /\ runner.record.srcmove = runner.dir
          /\ runner.dir # 0 => Ours(runner.dir, "srcmove")
    /\ runner.at = "finish" => Backed(runner.record, Key)

AtWork ==
    runner.at \in Working => CaseOpen /\ runner.record \in RowRecords /\ AtPlace

IInv == /\ Kinds /\ RowsBacked /\ HasLatest /\ Placed /\ ToRecover /\ AtWork
        /\ OpenRowIsWorkedOn /\ CompletedIsWhole /\ ReportsAddUp

-----------------------------------------------------------------------------
(* The attempt directories. *)

LEMMA Dirs ==
    ASSUME tools \in Seq(DirectoryRecords)
    PROVE  /\ Len(tools) \in Nat /\ Directories = 1..Len(tools)
           /\ \A d \in Directories : tools[d] \in DirectoryRecords /\ d \in Nat /\ d # 0
  BY DEF Directories

LEMMA DirsFollow ==
    (tools \in Seq(DirectoryRecords))'
      => /\ (Len(tools) \in Nat)' /\ (Directories = 1..Len(tools))'
         /\ (\A d \in Directories : tools[d] \in DirectoryRecords /\ d \in Nat /\ d # 0)'
  <1>1. tools \in Seq(DirectoryRecords)
          => /\ Len(tools) \in Nat /\ Directories = 1..Len(tools)
             /\ \A d \in Directories : tools[d] \in DirectoryRecords /\ d \in Nat /\ d # 0
    BY Dirs
  <1> QED BY <1>1, PTL

\* What no step of anybody does to a directory.
ToolsKept ==
    /\ tools' \in Seq(DirectoryRecords)
    /\ \A d \in Directories :
          /\ d \in Directories'
          /\ tools'[d].key = tools[d].key /\ tools'[d].stage = tools[d].stage
          /\ tools'[d].build = tools[d].build
          /\ tools[d].seal # "open" => tools'[d].seal = tools[d].seal

LEMMA Untouched ==
    ASSUME tools \in Seq(DirectoryRecords), UNCHANGED tools
    PROVE  ToolsKept /\ Directories' = Directories
  BY DEF ToolsKept, Directories

LEMMA Updated ==
    ASSUME tools \in Seq(DirectoryRecords), NEW d \in Directories, NEW r \in DirectoryRecords,
           tools' = [tools EXCEPT ![d] = r],
           r.key = tools[d].key, r.stage = tools[d].stage, r.build = tools[d].build,
           tools[d].seal # "open" => r.seal = tools[d].seal
    PROVE  /\ ToolsKept /\ Directories' = Directories /\ tools'[d] = r
           /\ \A e \in Directories : e # d => tools'[e] = tools[e]
  <1>1. d \in 1..Len(tools) /\ Directories = 1..Len(tools)
    BY Dirs
  <1>2. /\ tools' \in Seq(DirectoryRecords) /\ Len(tools') = Len(tools)
        /\ \A e \in 1..Len(tools) : tools'[e] = IF e = d THEN r ELSE tools[e]
    BY <1>1, ExceptSeq
  <1>3. Directories' = Directories
    BY <1>1, <1>2, DirsFollow
  <1> QED BY <1>1, <1>2, <1>3 DEF ToolsKept

LEMMA Added ==
    ASSUME tools \in Seq(DirectoryRecords), NEW r \in DirectoryRecords, MakeDirectory(r)
    PROVE  /\ ToolsKept /\ NextDirectory \in Directories' /\ tools'[NextDirectory] = r
           /\ \A e \in Directories : tools'[e] = tools[e]
           /\ NextDirectory \in Nat /\ NextDirectory # 0
  <1>1. Len(tools) \in Nat /\ Directories = 1..Len(tools)
    BY Dirs
  <1>2. /\ tools' \in Seq(DirectoryRecords) /\ Len(tools') = Len(tools) + 1
        /\ \A e \in 1..Len(tools) : tools'[e] = tools[e]
        /\ tools'[Len(tools) + 1] = r
    BY AppendProperties DEF MakeDirectory
  <1>3. Directories' = 1..(Len(tools) + 1)
    BY <1>1, <1>2, DirsFollow
  <1> QED BY <1>1, <1>2, <1>3 DEF ToolsKept, NextDirectory

LEMMA MadeStands ==
    ASSUME ToolsKept, NEW d, NEW tool, NEW key, NEW mark, mark # "open",
           Made(d, tool, key, mark)
    PROVE  Made(d, tool, key, mark)' /\ tools'[d].build = tools[d].build
  BY DEF ToolsKept, Made

LEMMA BackedStands ==
    ASSUME ToolsKept, journal'.build = journal.build,
           journal'.diagnostics = journal.diagnostics, NEW row, NEW key, Backed(row, key)
    PROVE  Backed(row, key)'
  <1>1. row.outcome = "upstream_failure" => Made(row.srcdiff, "srcdiff", key, "rejected")'
    BY MadeStands DEF Backed
  <1>2. row.outcome # "upstream_failure" => Made(row.srcdiff, "srcdiff", key, "admitted")'
    BY MadeStands DEF Backed
  <1>3. row.outcome = "srcmove_tool_failure" =>
           \/ Made(row.srcmove, "srcmove", key, "rejected")'
           \/ Made(row.srcmove, "srcmove", key, "admitted")' /\ Unannotated(row)'
    <2>1. Unannotated(row) => Unannotated(row)'
      BY DEF Unannotated
    <2> QED BY <2>1, MadeStands DEF Backed
  <1>4. row.outcome \in ScoringOutcomes => Made(row.srcmove, "srcmove", key, "admitted")'
    BY MadeStands DEF Backed
  <1>5. tools'[row.srcdiff].build = tools[row.srcdiff].build
    BY DEF Backed, Made, ToolsKept
  <1>6. row.srcmove # 0 => tools'[row.srcmove].build = tools[row.srcmove].build
    <2>1. row.srcmove # 0 => row.outcome = "srcmove_tool_failure" \/ row.outcome \in ScoringOutcomes
      BY DEF Backed, Outcomes
    <2> QED BY <2>1 DEF Backed, Made, ToolsKept
  <1> QED BY <1>1, <1>2, <1>3, <1>4, <1>5, <1>6 DEF Backed

LEMMA RowsStand ==
    ASSUME RowsBacked, ToolsKept, UNCHANGED attempts, journal'.build = journal.build,
           journal'.diagnostics = journal.diagnostics
    PROVE  RowsBacked'
  <1> SUFFICES ASSUME NEW c \in CaseNumbers, NEW i \in DOMAIN attempts[c]
               PROVE  IF attempts[c][i].status = "terminal"
                      THEN Backed(attempts[c][i], <<c, i>>)'
                      ELSE attempts[c][i].srcdiff = 0 /\ attempts[c][i].srcmove = 0
    BY DEF RowsBacked
  <1>1. PICK row : row = attempts[c][i]
    OBVIOUS
  <1>2. row.status = "terminal" => Backed(row, <<c, i>>)
    BY <1>1 DEF RowsBacked
  <1>3. row.status = "terminal" => Backed(row, <<c, i>>)'
    BY <1>2, BackedStands
  <1>4. attempts'[c][i] = row
    BY <1>1
  <1>5. Backed(attempts[c][i], <<c, i>>)' <=> Backed(row, <<c, i>>)'
    BY <1>4 DEF Backed, Made, Unannotated
  <1> QED BY <1>1, <1>3, <1>5 DEF RowsBacked

-----------------------------------------------------------------------------
(* The latest row of a case. *)

IsLatest(c) ==
    IF TerminalRows(c) = {} THEN LatestTerminal(c) = 0
    ELSE /\ LatestTerminal(c) \in TerminalRows(c)
         /\ \A j \in TerminalRows(c) : LatestTerminal(c) >= j

LEMMA LatestIs == HasLatest => \A c \in CaseNumbers : IsLatest(c)
  <1> SUFFICES ASSUME HasLatest, NEW c \in CaseNumbers
               PROVE  IsLatest(c)
    OBVIOUS
  <1>1. CASE TerminalRows(c) = {}
    BY <1>1 DEF IsLatest, LatestTerminal
  <1>2. CASE TerminalRows(c) # {}
    <2>1. \E i \in TerminalRows(c) : \A j \in TerminalRows(c) : i >= j
      BY <1>2 DEF HasLatest
    <2>2. LatestTerminal(c) = CHOOSE i \in TerminalRows(c) : \A j \in TerminalRows(c) : i >= j
      BY <1>2 DEF LatestTerminal
    <2> QED BY <1>2, <2>1, <2>2 DEF IsLatest
  <1> QED BY <1>1, <1>2

LEMMA LatestFollows == HasLatest' => (\A c \in CaseNumbers : IsLatest(c))'
  BY LatestIs, PTL

LEMMA RowsOf ==
    attempts \in [CaseNumbers -> Seq(RowRecords)] =>
        \A c \in CaseNumbers :
            /\ attempts[c] \in Seq(RowRecords) /\ Len(attempts[c]) \in Nat
            /\ DOMAIN attempts[c] = 1..Len(attempts[c])
            /\ \A i \in DOMAIN attempts[c] : attempts[c][i] \in RowRecords
            /\ TerminalRows(c) \subseteq Nat \ {0}
            /\ \A i \in TerminalRows(c) : i <= Len(attempts[c])
  <1> SUFFICES ASSUME attempts \in [CaseNumbers -> Seq(RowRecords)], NEW c \in CaseNumbers
               PROVE  /\ attempts[c] \in Seq(RowRecords) /\ Len(attempts[c]) \in Nat
                      /\ DOMAIN attempts[c] = 1..Len(attempts[c])
                      /\ \A i \in DOMAIN attempts[c] : attempts[c][i] \in RowRecords
                      /\ TerminalRows(c) \subseteq Nat \ {0}
                      /\ \A i \in TerminalRows(c) : i <= Len(attempts[c])
    OBVIOUS
  <1>1. attempts[c] \in Seq(RowRecords)
    OBVIOUS
  <1>2. /\ Len(attempts[c]) \in Nat /\ DOMAIN attempts[c] = 1..Len(attempts[c])
        /\ \A i \in DOMAIN attempts[c] : attempts[c][i] \in RowRecords
    BY <1>1
  <1>3. TerminalRows(c) \subseteq 1..Len(attempts[c])
    BY <1>2 DEF TerminalRows
  <1> QED BY <1>1, <1>2, <1>3

LEMMA RowsOfFollow ==
    (attempts \in [CaseNumbers -> Seq(RowRecords)])' =>
        (\A c \in CaseNumbers :
            /\ attempts[c] \in Seq(RowRecords) /\ Len(attempts[c]) \in Nat
            /\ DOMAIN attempts[c] = 1..Len(attempts[c])
            /\ \A i \in DOMAIN attempts[c] : attempts[c][i] \in RowRecords
            /\ TerminalRows(c) \subseteq Nat \ {0}
            /\ \A i \in TerminalRows(c) : i <= Len(attempts[c]))'
  BY RowsOf, PTL

\* A case whose terminal rows stay as they are keeps its latest row.
LEMMA SameLatest ==
    ASSUME HasLatest, HasLatest', attempts \in [CaseNumbers -> Seq(RowRecords)],
           NEW c \in CaseNumbers, TerminalRows(c)' = TerminalRows(c),
           \A i \in TerminalRows(c) : attempts'[c][i] = attempts[c][i]
    PROVE  /\ LatestTerminal(c)' = LatestTerminal(c) /\ LatestOutcome(c)' = LatestOutcome(c)
           /\ TerminalRows(c) # {} => LatestRow(c)' = LatestRow(c)
  <1>1. IsLatest(c) /\ IsLatest(c)' /\ TerminalRows(c) \subseteq Nat \ {0}
    BY LatestIs, LatestFollows, RowsOf
  <1>2. CASE TerminalRows(c) = {}
    <2>1. LatestTerminal(c) = 0 /\ LatestTerminal(c)' = 0
      BY <1>1, <1>2 DEF IsLatest
    <2> QED BY <1>2, <2>1 DEF LatestOutcome
  <1>3. CASE TerminalRows(c) # {}
    <2>1. LatestTerminal(c) \in TerminalRows(c) /\ LatestTerminal(c)' \in TerminalRows(c)
          /\ LatestTerminal(c) >= LatestTerminal(c)' /\ LatestTerminal(c)' >= LatestTerminal(c)
      BY <1>1, <1>3 DEF IsLatest
    <2>2. LatestTerminal(c)' = LatestTerminal(c)
      BY <1>1, <2>1
    <2>3. LatestRow(c)' = LatestRow(c)
      BY <2>1, <2>2 DEF LatestRow
    <2> QED BY <2>2, <2>3 DEF LatestOutcome
  <1> QED BY <1>2, <1>3

LEMMA LatestStands ==
    ASSUME HasLatest, attempts \in [CaseNumbers -> Seq(RowRecords)],
           \A c \in CaseNumbers : /\ TerminalRows(c)' = TerminalRows(c)
                                  /\ \A i \in TerminalRows(c) : attempts'[c][i] = attempts[c][i]
    PROVE  /\ HasLatest'
           /\ \A c \in CaseNumbers :
                 /\ LatestTerminal(c)' = LatestTerminal(c) /\ LatestOutcome(c)' = LatestOutcome(c)
                 /\ TerminalRows(c) # {} => LatestRow(c)' = LatestRow(c)
           /\ LatestOutcomes' = LatestOutcomes
  <1>1. HasLatest'
    BY DEF HasLatest
  <1>2. \A c \in CaseNumbers :
           /\ LatestTerminal(c)' = LatestTerminal(c) /\ LatestOutcome(c)' = LatestOutcome(c)
           /\ TerminalRows(c) # {} => LatestRow(c)' = LatestRow(c)
    BY <1>1, SameLatest
  <1> QED BY <1>1, <1>2 DEF LatestOutcomes

\* In particular where no row changes at all.
LEMMA RowsUnchanged ==
    ASSUME UNCHANGED attempts
    PROVE  \A c \in CaseNumbers :
              /\ TerminalRows(c)' = TerminalRows(c)
              /\ \A i \in TerminalRows(c) : attempts'[c][i] = attempts[c][i]
              /\ \A status : Rows(c, status)' = Rows(c, status)
  BY DEF TerminalRows, Rows

LEMMA LatestBacked ==
    ASSUME HasLatest, RowsBacked, attempts \in [CaseNumbers -> Seq(RowRecords)],
           NEW c \in CaseNumbers, TerminalRows(c) # {}
    PROVE  /\ LatestTerminal(c) \in TerminalRows(c) /\ LatestTerminal(c) # 0
           /\ LatestRow(c) \in RowRecords
           /\ LatestOutcome(c) = LatestRow(c).outcome /\ LatestOutcome(c) \in Outcomes
           /\ Backed(LatestRow(c), <<c, LatestTerminal(c)>>)
  <1>1. LatestTerminal(c) \in TerminalRows(c) /\ LatestTerminal(c) # 0
    BY LatestIs, RowsOf DEF IsLatest
  <1>2. PICK i : i = LatestTerminal(c)
    OBVIOUS
  <1>3. i \in DOMAIN attempts[c] /\ attempts[c][i].status = "terminal"
    BY <1>1, <1>2 DEF TerminalRows
  <1>4. LatestRow(c) = attempts[c][i] /\ attempts[c][i] \in RowRecords
    BY <1>2, <1>3, RowsOf DEF LatestRow
  <1>5. Backed(attempts[c][i], <<c, i>>)
    BY <1>3 DEF RowsBacked
  <1>6. LatestOutcome(c) = LatestRow(c).outcome
    BY <1>1 DEF LatestOutcome
  <1> QED BY <1>1, <1>2, <1>4, <1>5, <1>6 DEF Backed

-----------------------------------------------------------------------------
(* What stands while the rows and the journal do. *)

LEMMA Parts ==
    ASSUME IInv
    PROVE  /\ Kinds /\ RowsBacked /\ HasLatest /\ Placed /\ ToRecover /\ AtWork
           /\ OpenRowIsWorkedOn /\ CompletedIsWhole /\ ReportsAddUp
           /\ tools \in Seq(DirectoryRecords) /\ attempts \in [CaseNumbers -> Seq(RowRecords)]
           /\ runner \in RunnerRecords /\ journal \in Journals
  BY DEF IInv, Kinds

LEMMA Together ==
    ASSUME Kinds', RowsBacked', HasLatest', Placed', ToRecover', AtWork',
           OpenRowIsWorkedOn', CompletedIsWhole', ReportsAddUp'
    PROVE  IInv'
  BY DEF IInv

LEMMA Still ==
    ASSUME IInv, ToolsKept, UNCHANGED <<journal, attempts>>
    PROVE  /\ RowsBacked' /\ HasLatest' /\ CompletedIsWhole'
           /\ LatestOutcomes' = LatestOutcomes
           /\ \A c \in CaseNumbers :
                 /\ LatestOutcome(c)' = LatestOutcome(c) /\ LatestRow(c)' = LatestRow(c)
                 /\ TerminalRows(c)' = TerminalRows(c)
                 /\ Rows(c, "running")' = Rows(c, "running")
  <1>0. Kinds /\ RowsBacked /\ HasLatest /\ CompletedIsWhole
        /\ attempts \in [CaseNumbers -> Seq(RowRecords)]
    BY Parts
  <1>1. \A c \in CaseNumbers :
              /\ TerminalRows(c)' = TerminalRows(c)
              /\ \A i \in TerminalRows(c) : attempts'[c][i] = attempts[c][i]
              /\ \A status : Rows(c, status)' = Rows(c, status)
    BY RowsUnchanged
  <1>2. /\ HasLatest' /\ LatestOutcomes' = LatestOutcomes
        /\ \A c \in CaseNumbers : /\ LatestTerminal(c)' = LatestTerminal(c)
                                  /\ LatestOutcome(c)' = LatestOutcome(c)
    BY <1>0, <1>1, LatestStands
  <1>3. \A c \in CaseNumbers : LatestRow(c)' = LatestRow(c)
    BY <1>2 DEF LatestRow
  <1>4. RowsBacked'
    BY <1>0, RowsStand
  <1>5. CompletedIsWhole'
    BY <1>0, <1>1 DEF CompletedIsWhole
  <1> QED BY <1>1, <1>2, <1>3, <1>4, <1>5

LEMMA ReportsStand ==
    ASSUME IInv, ToolsKept, UNCHANGED <<journal, attempts, csv, summary>>,
           runner'.exit = "returned" => runner.exit = "returned"
    PROVE  ReportsAddUp'
  <1>1. /\ LatestOutcomes' = LatestOutcomes
        /\ \A c \in CaseNumbers : LatestRow(c)' = LatestRow(c)
    BY Still
  <1>2. {c \in CaseNumbers : LatestRow(c).srcmove # 0}'
           = {c \in CaseNumbers : LatestRow(c).srcmove # 0}
    BY <1>1
  <1>3. ReportsAddUp
    BY Parts
  <1> QED BY <1>1, <1>2, <1>3 DEF ReportsAddUp

\* The case under way, where its rows and its number stay.
LEMMA CaseStands ==
    ASSUME IInv, ToolsKept, UNCHANGED <<journal, attempts>>, CaseOpen,
           runner'.case = runner.case
    PROVE  CaseOpen' /\ Key' = Key
  <1>1. \A c \in CaseNumbers : LatestOutcome(c)' = LatestOutcome(c)
    BY Still
  <1> QED BY <1>1 DEF CaseOpen, Key

LEMMA SrcdiffStands ==
    ASSUME ToolsKept, UNCHANGED journal, Key' = Key, SrcdiffDone,
           runner'.record.srcdiff = runner.record.srcdiff,
           runner'.record.hit = runner.record.hit
    PROVE  SrcdiffDone'
  <1>1. PICK key, d : key = Key /\ d = runner.record.srcdiff
    OBVIOUS
  <1>2. Made(d, "srcdiff", key, "admitted")' /\ tools'[d].build = tools[d].build
    BY <1>1, MadeStands DEF SrcdiffDone
  <1>3. Made(runner.record.srcdiff, "srcdiff", Key, "admitted")'
    BY <1>1, <1>2 DEF Made
  <1> QED BY <1>1, <1>2, <1>3 DEF SrcdiffDone

LEMMA OursStands ==
    ASSUME ToolsKept, UNCHANGED journal, Key' = Key, NEW d, NEW tool, Ours(d, tool),
           tools'[d].seal # "interrupted"
    PROVE  Ours(d, tool)'
  BY DEF ToolsKept, Ours

LEMMA DownIs ==
    ASSUME NEW exit \in Exits
    PROVE  /\ Down(exit) \in RunnerRecords /\ Down(exit).at = "down" /\ Down(exit).exit = exit
           /\ Down(exit).mode = Idle /\ Down(exit).build = Unbuilt /\ Down(exit).case = 0
           /\ Down(exit).dir = 0 /\ Down(exit).pending = {} /\ Down(exit).record = NoOutcome
  <1>1. Idle \in ModeRecords
    BY DEF Idle, ModeRecords, Captures
  <1> QED BY <1>1 DEF Down, RunnerRecords, Labels

\* The process goes down with nothing to show.
LEMMA GoneDown ==
    ASSUME IInv, ToolsKept, UNCHANGED <<durable, installed>>, NEW exit \in {"failed", "refused"},
           runner' = Down(exit)
    PROVE  IInv'
  <1>0. /\ Kinds /\ Placed /\ runner' \in RunnerRecords
        /\ runner'.at = "down" /\ runner'.exit = exit
        /\ UNCHANGED <<journal, attempts, cache, csv, summary>>
    BY Parts, DownIs DEF Exits, durable
  <1>1. RowsBacked' /\ HasLatest' /\ CompletedIsWhole' /\ ReportsAddUp'
    BY <1>0, Still, ReportsStand
  <1>2. Kinds'
    BY <1>0 DEF Kinds, ToolsKept
  <1>3. Placed'
    BY <1>0 DEF Placed, Working, Reviewing
  <1>4. ToRecover' /\ AtWork' /\ OpenRowIsWorkedOn'
    BY <1>0 DEF ToRecover, AtWork, OpenRowIsWorkedOn, Working
  <1> QED BY <1>1, <1>2, <1>3, <1>4, Together

\* A tool, or the supervision of one, goes on.
LEMMA ToolGoesOn ==
    ASSUME IInv, ToolsKept, UNCHANGED <<durable, installed, runner>>, NEW d \in Directories,
           Directories' = Directories, \A e \in Directories : e # d => tools'[e] = tools[e],
           \/ tools'[d].seal = tools[d].seal /\ tools'[d].started = tools[d].started
           \/ runner.at \in Stages /\ tools'[d].seal = tools[d].seal
           \/ runner.at \in Stages /\ tools'[d].seal # "interrupted"
    PROVE  IInv'
  <1>0. /\ Kinds /\ Placed /\ ToRecover /\ AtWork /\ OpenRowIsWorkedOn
        /\ UNCHANGED <<journal, attempts, cache, csv, summary>>
    BY Parts DEF durable
  <1>1. /\ RowsBacked' /\ HasLatest' /\ CompletedIsWhole' /\ ReportsAddUp'
        /\ LatestOutcomes' = LatestOutcomes
        /\ \A c \in CaseNumbers : Rows(c, "running")' = Rows(c, "running")
    BY <1>0, Still, ReportsStand
  <1>2. Kinds'
    BY <1>0 DEF Kinds, ToolsKept
  <1>3. Placed'
    BY <1>0, <1>1 DEF Placed, Reviewing
  <1>4. ToRecover'
    BY <1>0 DEF ToRecover, Abandoned, Stages
  <1>5. AtWork'
    <2> SUFFICES ASSUME runner.at \in Working
                 PROVE  AtWork'
      BY DEF AtWork, AtPlace
    <2>1. CaseOpen' /\ Key' = Key
      BY <1>0, CaseStands DEF AtWork, AtPlace
    <2>2. CASE runner.at = "srcdiff"
      <3>1. /\ runner.record = [Row EXCEPT !.srcdiff = runner.dir]
            /\ runner.dir # 0 => Ours(runner.dir, "srcdiff")
        BY <1>0, <2>2 DEF AtWork, AtPlace
      <3>2. runner.dir # 0 => tools'[runner.dir].seal # "interrupted"
        BY <3>1 DEF Ours
      <3>3. PICK w : w = runner.dir
        OBVIOUS
      <3>4. w # 0 => Ours(w, "srcdiff")'
        BY <1>0, <2>1, <3>1, <3>2, <3>3, OursStands
      <3>5. runner'.dir # 0 => Ours(runner.dir, "srcdiff")'
        BY <3>3, <3>4 DEF Ours
      <3> QED BY <1>0, <2>1, <2>2, <3>1, <3>5 DEF AtWork, AtPlace
    <2>3. CASE runner.at = "hit"
      <3>1. /\ runner.record = [Row EXCEPT !.srcdiff = runner.dir, !.hit = TRUE]
            /\ Made(runner.dir, "srcdiff", Key, "open")
        BY <1>0, <2>3 DEF AtWork, AtPlace
      <3>2. tools'[runner.dir].seal = "open"
        BY <2>3, <3>1 DEF Made, Stages
      <3>3. Made(runner.dir, "srcdiff", Key, "open")'
        BY <2>1, <3>1, <3>2 DEF Made, ToolsKept
      <3> QED BY <1>0, <2>1, <2>3, <3>1, <3>3 DEF AtWork, AtPlace
    <2>4. CASE runner.at = "semantic"
      <3>1. SrcdiffDone'
        BY <1>0, <2>1, <2>4, SrcdiffStands DEF AtWork, AtPlace
      <3> QED BY <1>0, <2>1, <2>4, <3>1 DEF AtWork, AtPlace
    <2>5. CASE runner.at = "srcmove"
      <3>1. SrcdiffDone'
        BY <1>0, <2>1, <2>5, SrcdiffStands DEF AtWork, AtPlace
      <3>2. runner.dir # 0 => Ours(runner.dir, "srcmove")
        BY <1>0, <2>5 DEF AtWork, AtPlace
      <3>3. runner.dir # 0 => tools'[runner.dir].seal # "interrupted"
        BY <3>2 DEF Ours
      <3>4. PICK w : w = runner.dir
        OBVIOUS
      <3>5. w # 0 => Ours(w, "srcmove")'
        BY <1>0, <2>1, <3>2, <3>3, <3>4, OursStands
      <3>6. runner'.dir # 0 => Ours(runner.dir, "srcmove")'
        BY <3>4, <3>5 DEF Ours
      <3> QED BY <1>0, <2>1, <2>5, <3>1, <3>6 DEF AtWork, AtPlace
    <2>6. CASE runner.at = "finish"
      <3>1. PICK row, key : row = runner.record /\ key = Key
        OBVIOUS
      <3>2. Backed(row, key)'
        BY <1>0, <2>6, <3>1, BackedStands DEF AtWork, AtPlace
      <3>3. Backed(runner.record, Key)'
        BY <2>1, <3>1, <3>2 DEF Backed, Made, Unannotated
      <3> QED BY <1>0, <2>1, <2>6, <3>3 DEF AtWork, AtPlace
    <2> QED BY <2>2, <2>3, <2>4, <2>5, <2>6 DEF Working
  <1>6. OpenRowIsWorkedOn'
    BY <1>0, <1>1 DEF OpenRowIsWorkedOn
  <1> QED BY <1>1, <1>2, <1>3, <1>4, <1>5, <1>6, Together

-----------------------------------------------------------------------------
(* The tools. *)

\* What is sealed was open, and what is admitted is the directory at work.
OnlyOpenSealed ==
    \A d \in Directories : tools'[d].seal # tools[d].seal =>
        tools[d].seal = "open" /\ (tools'[d].seal = "admitted" => d = runner.dir)

LEMMA UnderWay ==
    ASSUME IInv, runner.at \in Stages, runner.dir # 0
    PROVE  runner.dir \in Directories /\ Ours(runner.dir, runner.at)
  <1>1. AtWork
    BY Parts
  <1>2. CASE runner.at = "srcdiff"
    BY <1>1, <1>2 DEF AtWork, AtPlace, Working, Ours
  <1>3. CASE runner.at = "srcmove"
    BY <1>1, <1>3 DEF AtWork, AtPlace, Working, Ours
  <1> QED BY <1>2, <1>3 DEF Stages

LEMMA StartToolKeeps ==
    ASSUME IInv, StartTool
    PROVE  IInv' /\ ToolsKept /\ OnlyOpenSealed
  <1>1. /\ runner.at \in Stages /\ runner.dir # 0 /\ Spawn(runner.dir)
        /\ UNCHANGED <<durable, installed, runner>>
    BY DEF StartTool, Supervised, Stays
  <1>2. runner.dir \in Directories /\ tools \in Seq(DirectoryRecords)
    BY <1>1, UnderWay, Parts
  <1>3. PICK d \in Directories : d = runner.dir
    BY <1>2
  <1> DEFINE r == [tools[d] EXCEPT !.process = "alive"]
  <1>4. tools' = [tools EXCEPT ![d] = r]
    BY <1>1, <1>3 DEF Spawn
  <1>5. tools[d] \in DirectoryRecords
    BY <1>2, Dirs
  <1>6. /\ r \in DirectoryRecords /\ r.key = tools[d].key /\ r.stage = tools[d].stage
        /\ r.build = tools[d].build /\ r.seal = tools[d].seal /\ r.started = tools[d].started
    BY <1>5 DEF DirectoryRecords
  <1> HIDE DEF r
  <1>7. /\ ToolsKept /\ Directories' = Directories /\ tools'[d] = r
        /\ \A e \in Directories : e # d => tools'[e] = tools[e]
    BY <1>2, <1>4, <1>6, Updated
  <1>8. OnlyOpenSealed
    BY <1>6, <1>7 DEF OnlyOpenSealed
  <1> QED BY <1>1, <1>6, <1>7, <1>8, ToolGoesOn

LEMMA NoteStartedKeeps ==
    ASSUME IInv, NoteStarted
    PROVE  IInv' /\ ToolsKept /\ OnlyOpenSealed
  <1>1. /\ runner.at \in Stages /\ runner.dir # 0 /\ RecordStarted(runner.dir)
        /\ UNCHANGED <<durable, installed, runner>>
    BY DEF NoteStarted, Supervised, Stays
  <1>2. runner.dir \in Directories /\ tools \in Seq(DirectoryRecords)
    BY <1>1, UnderWay, Parts
  <1>3. PICK d \in Directories : d = runner.dir
    BY <1>2
  <1> DEFINE r == [tools[d] EXCEPT !.started = TRUE]
  <1>4. tools' = [tools EXCEPT ![d] = r]
    BY <1>1, <1>3 DEF RecordStarted
  <1>5. tools[d] \in DirectoryRecords
    BY <1>2, Dirs
  <1>6. /\ r \in DirectoryRecords /\ r.key = tools[d].key /\ r.stage = tools[d].stage
        /\ r.build = tools[d].build /\ r.seal = tools[d].seal
    BY <1>5 DEF DirectoryRecords
  <1> HIDE DEF r
  <1>7. /\ ToolsKept /\ Directories' = Directories /\ tools'[d] = r
        /\ \A e \in Directories : e # d => tools'[e] = tools[e]
    BY <1>2, <1>4, <1>6, Updated
  <1>8. OnlyOpenSealed
    BY <1>6, <1>7 DEF OnlyOpenSealed
  <1> QED BY <1>1, <1>6, <1>7, <1>8, ToolGoesOn

LEMMA UnlinkStartedKeeps ==
    ASSUME IInv, UnlinkStarted
    PROVE  IInv' /\ ToolsKept /\ OnlyOpenSealed
  <1>1. /\ runner.at \in Stages /\ runner.dir # 0 /\ ForgetStarted(runner.dir)
        /\ UNCHANGED <<durable, installed, runner>>
    BY DEF UnlinkStarted, Stays
  <1>2. runner.dir \in Directories /\ tools \in Seq(DirectoryRecords)
    BY <1>1, UnderWay, Parts
  <1>3. PICK d \in Directories : d = runner.dir
    BY <1>2
  <1> DEFINE r == [tools[d] EXCEPT !.started = FALSE]
  <1>4. tools' = [tools EXCEPT ![d] = r]
    BY <1>1, <1>3 DEF ForgetStarted
  <1>5. tools[d] \in DirectoryRecords
    BY <1>2, Dirs
  <1>6. /\ r \in DirectoryRecords /\ r.key = tools[d].key /\ r.stage = tools[d].stage
        /\ r.build = tools[d].build /\ r.seal = tools[d].seal
    BY <1>5 DEF DirectoryRecords
  <1> HIDE DEF r
  <1>7. /\ ToolsKept /\ Directories' = Directories /\ tools'[d] = r
        /\ \A e \in Directories : e # d => tools'[e] = tools[e]
    BY <1>2, <1>4, <1>6, Updated
  <1>8. OnlyOpenSealed
    BY <1>6, <1>7 DEF OnlyOpenSealed
  <1> QED BY <1>1, <1>6, <1>7, <1>8, ToolGoesOn

LEMMA SomeToolEndsKeeps ==
    ASSUME IInv, SomeToolEnds
    PROVE  IInv' /\ ToolsKept /\ OnlyOpenSealed
  <1>1. UNCHANGED <<durable, installed, runner>>
    BY DEF SomeToolEnds, Stays
  <1>2. PICK d \in Directories : ToolEnds(d)
    BY DEF SomeToolEnds
  <1>3. tools \in Seq(DirectoryRecords)
    BY Parts
  <1> DEFINE r == [tools[d] EXCEPT !.process = "gone"]
  <1>4. tools' = [tools EXCEPT ![d] = r]
    BY <1>2 DEF ToolEnds
  <1>5. tools[d] \in DirectoryRecords
    BY <1>3, Dirs
  <1>6. /\ r \in DirectoryRecords /\ r.key = tools[d].key /\ r.stage = tools[d].stage
        /\ r.build = tools[d].build /\ r.seal = tools[d].seal /\ r.started = tools[d].started
    BY <1>5 DEF DirectoryRecords
  <1> HIDE DEF r
  <1>7. /\ ToolsKept /\ Directories' = Directories /\ tools'[d] = r
        /\ \A e \in Directories : e # d => tools'[e] = tools[e]
    BY <1>3, <1>4, <1>6, Updated
  <1>8. OnlyOpenSealed
    BY <1>6, <1>7 DEF OnlyOpenSealed
  <1> QED BY <1>1, <1>6, <1>7, <1>8, ToolGoesOn

\* What a seal does to the directory it is put on.
LEMMA SealedAs ==
    ASSUME IInv, NEW d \in Directories, NEW mark \in Seals, tools[d].seal = "open",
           \/ tools' = [tools EXCEPT ![d].process = "gone", ![d].seal = mark]
           \/ tools' = [tools EXCEPT ![d].process = "gone", ![d].seal = mark,
                                     ![d].started = FALSE]
           \/ tools' = [tools EXCEPT ![d].seal = mark, ![d].started = FALSE]
           \/ tools' = [tools EXCEPT ![d].seal = mark]
    PROVE  /\ ToolsKept /\ Directories' = Directories /\ tools'[d].seal = mark
           /\ \A e \in Directories : e # d => tools'[e] = tools[e]
  <1>1. tools \in Seq(DirectoryRecords)
    BY Parts
  <1>2. tools[d] \in DirectoryRecords
    BY <1>1, Dirs
  <1>3. CASE tools' = [tools EXCEPT ![d].process = "gone", ![d].seal = mark]
    <2> DEFINE r == [tools[d] EXCEPT !.process = "gone", !.seal = mark]
    <2>1. tools' = [tools EXCEPT ![d] = r]
      BY <1>1, <1>3
    <2>2. /\ r \in DirectoryRecords /\ r.key = tools[d].key /\ r.stage = tools[d].stage
          /\ r.build = tools[d].build /\ r.seal = mark
      BY <1>2 DEF DirectoryRecords
    <2> HIDE DEF r
    <2> QED BY <1>1, <2>1, <2>2, Updated
  <1>4. CASE tools' = [tools EXCEPT ![d].process = "gone", ![d].seal = mark,
                                    ![d].started = FALSE]
    <2> DEFINE r == [tools[d] EXCEPT !.process = "gone", !.seal = mark, !.started = FALSE]
    <2>1. tools' = [tools EXCEPT ![d] = r]
      BY <1>1, <1>4
    <2>2. /\ r \in DirectoryRecords /\ r.key = tools[d].key /\ r.stage = tools[d].stage
          /\ r.build = tools[d].build /\ r.seal = mark
      BY <1>2 DEF DirectoryRecords
    <2> HIDE DEF r
    <2> QED BY <1>1, <2>1, <2>2, Updated
  <1>5. CASE tools' = [tools EXCEPT ![d].seal = mark, ![d].started = FALSE]
    <2> DEFINE r == [tools[d] EXCEPT !.seal = mark, !.started = FALSE]
    <2>1. tools' = [tools EXCEPT ![d] = r]
      BY <1>1, <1>5
    <2>2. /\ r \in DirectoryRecords /\ r.key = tools[d].key /\ r.stage = tools[d].stage
          /\ r.build = tools[d].build /\ r.seal = mark
      BY <1>2 DEF DirectoryRecords
    <2> HIDE DEF r
    <2> QED BY <1>1, <2>1, <2>2, Updated
  <1>6. CASE tools' = [tools EXCEPT ![d].seal = mark]
    <2> DEFINE r == [tools[d] EXCEPT !.seal = mark]
    <2>1. tools' = [tools EXCEPT ![d] = r]
      BY <1>1, <1>6
    <2>2. /\ r \in DirectoryRecords /\ r.key = tools[d].key /\ r.stage = tools[d].stage
          /\ r.build = tools[d].build /\ r.seal = mark
      BY <1>2 DEF DirectoryRecords
    <2> HIDE DEF r
    <2> QED BY <1>1, <2>1, <2>2, Updated
  <1> QED BY <1>3, <1>4, <1>5, <1>6

LEMMA SealKeeps ==
    ASSUME IInv, Seal
    PROVE  IInv' /\ ToolsKept /\ OnlyOpenSealed
  <1>1. /\ runner.at \in Stages /\ runner.dir # 0 /\ tools[runner.dir].seal = "open"
        /\ UNCHANGED <<durable, installed, runner>>
    BY DEF Seal, Supervised, Stays
  <1>2. PICK mark \in {"admitted", "rejected"} : SealAttempt(runner.dir, mark)
    BY DEF Seal
  <1>3. runner.dir \in Directories /\ mark \in Seals
    BY <1>1, UnderWay DEF Seals
  <1>4. PICK d \in Directories : d = runner.dir
    BY <1>3
  <1>5. tools' = [tools EXCEPT ![d].process = "gone", ![d].seal = mark]
    BY <1>2, <1>4 DEF SealAttempt
  <1>6. tools[d].seal = "open"
    BY <1>1, <1>4
  <1>7. /\ ToolsKept /\ Directories' = Directories /\ tools'[d].seal = mark
        /\ \A e \in Directories : e # d => tools'[e] = tools[e]
    BY <1>3, <1>5, <1>6, SealedAs
  <1>8. mark # "interrupted"
    BY <1>2
  <1>9. IInv'
    BY <1>1, <1>7, <1>8, ToolGoesOn
  <1> QED BY <1>4, <1>6, <1>7, <1>9 DEF OnlyOpenSealed

LEMMA InterruptKeeps ==
    ASSUME IInv, Interrupt
    PROVE  IInv' /\ ToolsKept /\ OnlyOpenSealed
  <1>1. runner' = Down("failed") /\ UNCHANGED <<durable, installed>>
    BY DEF Interrupt
  <1>2. tools \in Seq(DirectoryRecords)
    BY Parts
  <1>3. ToolsKept /\ OnlyOpenSealed
    <2>1. CASE Supervised /\ Interrupted(runner.dir)
      <3>1. /\ runner.at \in Stages /\ runner.dir # 0 /\ tools[runner.dir].seal = "open"
        BY <2>1 DEF Supervised
      <3>2. PICK d \in Directories : d = runner.dir
        BY <3>1, UnderWay
      <3>3. tools' = [tools EXCEPT ![d].process = "gone", ![d].seal = "interrupted",
                                   ![d].started = FALSE]
        BY <2>1, <3>2 DEF Interrupted
      <3>4. "interrupted" \in Seals /\ tools[d].seal = "open"
        BY <3>1, <3>2 DEF Seals
      <3>5. /\ ToolsKept /\ tools'[d].seal = "interrupted"
            /\ \A e \in Directories : e # d => tools'[e] = tools[e]
        BY <3>3, <3>4, SealedAs
      <3> QED BY <3>4, <3>5 DEF OnlyOpenSealed
    <2>2. CASE UNCHANGED tools
      BY <1>2, <2>2, Untouched DEF OnlyOpenSealed
    <2> QED BY <2>1, <2>2 DEF Interrupt
  <1>4. IInv'
    BY <1>1, <1>3, GoneDown
  <1> QED BY <1>3, <1>4

LEMMA CrashKeeps ==
    ASSUME IInv, Crash
    PROVE  IInv' /\ ToolsKept
  <1>1. runner' = Down("failed") /\ UNCHANGED <<durable, installed, tools>>
    BY DEF Crash
  <1>2. ToolsKept
    BY <1>1, Parts, Untouched
  <1>3. IInv'
    BY <1>1, <1>2, GoneDown
  <1> QED BY <1>2, <1>3

\* What happens to the installation and to the cache.
LEMMA AroundKeeps ==
    ASSUME IInv, Upgrade \/ MangleEntry \/ UNCHANGED vars
    PROVE  IInv' /\ ToolsKept
  <1>1. UNCHANGED <<tools, journal, attempts, csv, summary, runner>>
    BY DEF Upgrade, MangleEntry, vars, durable
  <1>2. ToolsKept /\ Directories' = Directories
    BY <1>1, Parts, Untouched
  <1>3. Kinds /\ Placed /\ ToRecover /\ AtWork /\ OpenRowIsWorkedOn
    BY Parts
  <1>4. /\ RowsBacked' /\ HasLatest' /\ CompletedIsWhole' /\ ReportsAddUp'
        /\ LatestOutcomes' = LatestOutcomes
        /\ \A c \in CaseNumbers : LatestOutcome(c)' = LatestOutcome(c)
        /\ \A c \in CaseNumbers : Rows(c, "running")' = Rows(c, "running")
    BY <1>1, <1>2, Still, ReportsStand
  <1>5. Kinds'
    <2>1. installed' \in {0, 1}
      BY <1>3 DEF Kinds, Upgrade, MangleEntry, vars
    <2>2. cache' \in [CaseNumbers -> {Unbuilt, Mangled, 0, 1}]
      BY <1>3 DEF Kinds, Upgrade, MangleEntry, vars, durable
    <2> QED BY <1>1, <1>3, <2>1, <2>2 DEF Kinds
  <1>6. Placed'
    BY <1>1, <1>3, <1>4 DEF Placed, Reviewing
  <1>8. ToRecover'
    BY <1>1, <1>2, <1>3 DEF ToRecover, Abandoned
  <1>9. OpenRowIsWorkedOn'
    BY <1>1, <1>3, <1>4 DEF OpenRowIsWorkedOn
  <1>7. AtWork'
    <2>1. CaseOpen => CaseOpen' /\ Key' = Key
      BY <1>1, <1>2, CaseStands
    <2> QED BY <1>1, <1>2, <1>3, <2>1 DEF AtWork, AtPlace, Made, Ours, SrcdiffDone, Backed,
             Unannotated
  <1> QED BY <1>2, <1>4, <1>5, <1>6, <1>7, <1>8, <1>9, Together

-----------------------------------------------------------------------------
(* The work on a case. *)

JournalRests == UNCHANGED <<journal, attempts, csv, summary, installed>>

LEMMA WorkMoves ==
    ASSUME IInv, ToolsKept, JournalRests, cache' \in [CaseNumbers -> {Unbuilt, Mangled, 0, 1}],
           runner.at \in Working, runner'.at \in Working, runner' \in RunnerRecords,
           runner'.case = runner.case, runner'.exit = runner.exit, runner'.build = runner.build,
           runner'.mode = runner.mode,
           runner'.record \in RowRecords
    PROVE  /\ Key' = Key /\ Key \in CaseNumbers \X Nat
           /\ AtPlace' => IInv'
  <1>0. /\ Kinds /\ Placed /\ AtWork /\ OpenRowIsWorkedOn
        /\ UNCHANGED <<journal, attempts, csv, summary, installed>>
        /\ attempts \in [CaseNumbers -> Seq(RowRecords)]
    BY Parts DEF JournalRests
  <1>1. /\ RowsBacked' /\ HasLatest' /\ CompletedIsWhole' /\ ReportsAddUp'
        /\ \A c \in CaseNumbers : Rows(c, "running")' = Rows(c, "running")
    BY <1>0, Still, ReportsStand
  <1>2. Kinds'
    BY <1>0 DEF Kinds, ToolsKept
  <1>3. Placed'
    BY <1>0 DEF Placed, Working, Reviewing
  <1>4. ToRecover'
    BY DEF ToRecover, Working
  <1>5. OpenRowIsWorkedOn'
    BY <1>0, <1>1 DEF OpenRowIsWorkedOn, Working
  <1>6. CaseOpen /\ CaseOpen' /\ Key' = Key
    BY <1>0, CaseStands DEF AtWork
  <1>7. Key \in CaseNumbers \X Nat
    <2>1. runner.case \in CaseNumbers
      BY <1>6 DEF CaseOpen
    <2>2. Len(attempts[runner.case]) \in Nat
      BY <1>0, <2>1, RowsOf
    <2> QED BY <2>1, <2>2 DEF Key
  <1>8. AtPlace' => AtWork'
    BY <1>6 DEF AtWork
  <1> QED BY <1>1, <1>2, <1>3, <1>4, <1>5, <1>6, <1>7, <1>8, Together

LEMMA RowIs ==
    /\ Row \in RowRecords /\ Row.status = "running" /\ Row.outcome = NoOutcome
    /\ Row.srcdiff = 0 /\ Row.srcmove = 0 /\ Row.hit = FALSE
    /\ Row.completed = 0 /\ Row.annotated = "none"
  BY DEF Row, RowRecords, Annotations

\* A fresh directory for the row under way.
LEMMA Fresh ==
    ASSUME IInv, runner.at \in Working, NEW tool \in Stages, NEW build \in {0, 1},
           MakeDirectory(Directory(tool, Key, build))
    PROVE  /\ ToolsKept /\ NextDirectory \in Nat /\ NextDirectory # 0
           /\ NextDirectory \in Directories'
           /\ tools'[NextDirectory] = Directory(tool, Key, build)
           /\ \A e \in Directories : tools'[e] = tools[e]
  <1>1. Key \in CaseNumbers \X Nat
    <2>1. runner.case \in CaseNumbers
      BY Parts DEF AtWork, CaseOpen
    <2>2. Len(attempts[runner.case]) \in Nat
      BY <2>1, RowsOf, Parts
    <2> QED BY <2>1, <2>2 DEF Key
  <1>2. Directory(tool, Key, build) \in DirectoryRecords
    BY <1>1 DEF Directory, DirectoryRecords, Seals
  <1> QED BY <1>2, Added, Parts

LEMMA MakeAttemptKeeps ==
    ASSUME IInv, NEW tool \in Stages, MakeAttempt(tool)
    PROVE  /\ IInv' /\ ToolsKept
           /\ \A e \in Directories : tools'[e] = tools[e]
  <1>1. /\ runner.at = tool /\ runner.at \in Working /\ runner.dir = 0
        /\ MakeDirectory(Directory(tool, Key, runner.build))
        /\ UNCHANGED <<journal, attempts, cache, csv, summary, installed>>
        /\ runner' = IF tool = "srcdiff"
                 THEN [runner EXCEPT !.dir = NextDirectory, !.record.srcdiff = NextDirectory]
                 ELSE [runner EXCEPT !.dir = NextDirectory, !.record.srcmove = NextDirectory]
    BY DEF MakeAttempt, Stages, Working, durable, Stays
  <1>2. Kinds /\ Placed /\ AtWork /\ runner \in RunnerRecords /\ runner.record \in RowRecords
    BY <1>1, Parts DEF AtWork
  <1>3. runner.build \in {0, 1} /\ runner.build = journal.build
    BY <1>1, <1>2 DEF Placed, Working, Reviewing
  <1>4. /\ ToolsKept /\ NextDirectory \in Nat /\ NextDirectory # 0
        /\ NextDirectory \in Directories'
        /\ tools'[NextDirectory] = Directory(tool, Key, runner.build)
        /\ \A e \in Directories : tools'[e] = tools[e]
    BY <1>1, <1>3, Fresh
  <1>5. PICK n \in Nat : n = NextDirectory
    BY <1>4
  <1> DEFINE r == IF tool = "srcdiff" THEN [runner.record EXCEPT !.srcdiff = n]
                  ELSE [runner.record EXCEPT !.srcmove = n]
  <1>6. /\ r \in RowRecords /\ r.hit = runner.record.hit
        /\ r.srcmove = IF tool = "srcdiff" THEN runner.record.srcmove ELSE n
        /\ r.srcdiff = IF tool = "srcdiff" THEN n ELSE runner.record.srcdiff
    <2>1. CASE tool = "srcdiff"
      BY <1>2, <2>1 DEF RowRecords
    <2>2. CASE tool # "srcdiff"
      BY <1>2, <2>2 DEF RowRecords
    <2> QED BY <2>1, <2>2
  <1>7. runner' = [runner EXCEPT !.dir = n, !.record = r]
    BY <1>1, <1>2, <1>5 DEF RunnerRecords
  <1>8. tool = "srcdiff" => r = [Row EXCEPT !.srcdiff = n]
    BY <1>1, <1>2 DEF AtWork, AtPlace, Working, Row
  <1> HIDE DEF r
  <1>9. /\ runner' \in RunnerRecords /\ runner'.at = tool /\ runner'.case = runner.case
        /\ runner'.exit = runner.exit /\ runner'.build = runner.build
        /\ runner'.mode = runner.mode /\ runner'.dir = n
        /\ runner'.record = r
    BY <1>1, <1>2, <1>6, <1>7 DEF RunnerRecords
  <1>10. Key' = Key /\ (AtPlace' => IInv')
    <2>1. runner'.at \in Working /\ runner'.record \in RowRecords
      BY <1>1, <1>6, <1>9
    <2>2. JournalRests /\ cache' \in [CaseNumbers -> {Unbuilt, Mangled, 0, 1}]
      BY <1>1, <1>2 DEF JournalRests, Kinds
    <2> QED BY <1>1, <1>4, <1>9, <2>1, <2>2, WorkMoves
  <1>11. AtPlace'
    <2>1. /\ tools'[n].key = Key /\ tools'[n].stage = tool /\ tools'[n].build = journal.build
          /\ tools'[n].seal = "open" /\ n \in Directories'
      BY <1>3, <1>4, <1>5 DEF Directory
    <2>2. Ours(runner.dir, tool)'
      BY <1>1, <1>9, <1>10, <2>1 DEF Ours
    <2>3. CASE tool = "srcdiff"
      BY <1>8, <1>9, <2>2, <2>3 DEF AtPlace
    <2>4. CASE tool = "srcmove"
      <3>1. SrcdiffDone
        BY <1>1, <1>2, <2>4 DEF AtWork, AtPlace
      <3>2. /\ runner'.record.srcdiff = runner.record.srcdiff
            /\ runner'.record.hit = runner.record.hit /\ runner'.record.srcmove = n
        BY <1>6, <1>9, <2>4
      <3>3. SrcdiffDone'
        BY <1>1, <1>4, <1>10, <3>1, <3>2, SrcdiffStands
      <3>4. Ours(runner.dir, "srcmove")'
        BY <2>2, <2>4
      <3>5. runner'.at = "srcmove" /\ runner'.dir = n
        BY <1>9, <2>4
      <3> QED BY <3>2, <3>3, <3>4, <3>5 DEF AtPlace
    <2> QED BY <2>3, <2>4 DEF Stages
  <1> QED BY <1>4, <1>10, <1>11

LEMMA RestoreCachedKeeps ==
    ASSUME IInv, RestoreCached
    PROVE  /\ IInv' /\ ToolsKept
           /\ \A e \in Directories : tools'[e] = tools[e]
  <1>1. /\ runner.at = "srcdiff" /\ runner.at \in Working /\ runner.dir = 0
        /\ UNCHANGED <<journal, attempts, cache, csv, summary, installed>> /\ UNCHANGED durable
        /\ cache[runner.case] # Unbuilt
    BY DEF RestoreCached, MayRestore, Working, durable, Stays
  <1>2. /\ Kinds /\ Placed /\ AtWork /\ runner \in RunnerRecords /\ runner.record \in RowRecords
        /\ runner.case \in CaseNumbers
    BY <1>1, Parts DEF AtWork, CaseOpen
  <1>3. CASE cache[runner.case] = Mangled
    <2>1. runner' = Down("failed") /\ UNCHANGED tools
      BY <1>3 DEF RestoreCached
    <2>2. ToolsKept
      BY <2>1, Parts, Untouched
    <2> QED BY <1>1, <2>1, <2>2, GoneDown
  <1>4. CASE cache[runner.case] # Mangled
    <2>1. PICK build \in {0, 1} : build = cache[runner.case]
      BY <1>1, <1>2, <1>4 DEF Kinds
    <2>2. /\ MakeDirectory(Directory("srcdiff", Key, build))
          /\ runner' = [runner EXCEPT !.at = "hit", !.dir = NextDirectory,
                                      !.record.srcdiff = NextDirectory, !.record.hit = TRUE]
      BY <1>4, <2>1 DEF RestoreCached
    <2>3. /\ ToolsKept /\ NextDirectory \in Nat /\ NextDirectory \in Directories'
          /\ tools'[NextDirectory] = Directory("srcdiff", Key, build)
          /\ \A e \in Directories : tools'[e] = tools[e]
      BY <1>1, <2>2, Fresh DEF Stages
    <2>4. PICK n \in Nat : n = NextDirectory
      BY <2>3
    <2> DEFINE r == [runner.record EXCEPT !.srcdiff = n, !.hit = TRUE]
    <2>5. r \in RowRecords
      BY <1>2 DEF RowRecords
    <2>6. runner' = [runner EXCEPT !.at = "hit", !.dir = n, !.record = r]
      BY <1>2, <2>2, <2>4 DEF RunnerRecords
    <2>7. r = [Row EXCEPT !.srcdiff = n, !.hit = TRUE]
      BY <1>1, <1>2 DEF AtWork, AtPlace, Row
    <2> HIDE DEF r
    <2>8. /\ runner' \in RunnerRecords /\ runner'.at = "hit" /\ runner'.case = runner.case
          /\ runner'.exit = runner.exit /\ runner'.build = runner.build
          /\ runner'.mode = runner.mode /\ runner'.dir = n
          /\ runner'.record = r
      BY <1>2, <2>5, <2>6 DEF RunnerRecords, Labels
    <2>9. Key' = Key /\ (AtPlace' => IInv')
      <3>1. runner'.at \in Working /\ runner'.record \in RowRecords
        BY <2>5, <2>8 DEF Working
      <3>2. JournalRests /\ cache' \in [CaseNumbers -> {Unbuilt, Mangled, 0, 1}]
        BY <1>1, <1>2 DEF JournalRests, Kinds
      <3> QED BY <1>1, <2>3, <2>8, <3>1, <3>2, WorkMoves
    <2>10. AtPlace'
      <3>1. /\ tools'[n].key = Key /\ tools'[n].stage = "srcdiff" /\ tools'[n].seal = "open"
            /\ n \in Directories'
        BY <2>3, <2>4 DEF Directory
      <3>2. Made(runner.dir, "srcdiff", Key, "open")'
        BY <2>8, <2>9, <3>1 DEF Made
      <3> QED BY <2>7, <2>8, <3>2 DEF AtPlace
    <2> QED BY <2>3, <2>9, <2>10
  <1> QED BY <1>3, <1>4

LEMMA SealHitKeeps ==
    ASSUME IInv, SealHit
    PROVE  IInv' /\ ToolsKept /\ OnlyOpenSealed
  <1>1. /\ runner.at = "hit" /\ runner.at \in Working
        /\ tools' = [tools EXCEPT ![runner.dir].seal = "admitted"]
        /\ runner' = [runner EXCEPT !.at = "semantic"]
        /\ UNCHANGED <<journal, attempts, cache, csv, summary, installed>>
    BY DEF SealHit, Goto, Working, durable, Stays
  <1>2. Kinds /\ AtWork /\ runner \in RunnerRecords /\ runner.record \in RowRecords
    BY <1>1, Parts DEF AtWork
  <1>3. /\ runner.record = [Row EXCEPT !.srcdiff = runner.dir, !.hit = TRUE]
        /\ Made(runner.dir, "srcdiff", Key, "open")
    BY <1>1, <1>2 DEF AtWork, AtPlace
  <1>4. PICK d \in Directories : d = runner.dir
    BY <1>3 DEF Made
  <1>5. /\ ToolsKept /\ tools'[d].seal = "admitted" /\ Directories' = Directories
        /\ \A e \in Directories : e # d => tools'[e] = tools[e]
    <2>1. tools[d].seal = "open" /\ "admitted" \in Seals
      BY <1>3, <1>4 DEF Made, Seals
    <2>2. tools' = [tools EXCEPT ![d].seal = "admitted"]
      BY <1>1, <1>4
    <2> QED BY <2>1, <2>2, SealedAs
  <1>6. /\ runner' \in RunnerRecords /\ runner'.at = "semantic" /\ runner'.case = runner.case
        /\ runner'.exit = runner.exit /\ runner'.build = runner.build
        /\ runner'.mode = runner.mode
        /\ runner'.record = runner.record
    BY <1>1, <1>2 DEF RunnerRecords, Labels
  <1>7. Key' = Key /\ (AtPlace' => IInv')
    <2>1. runner'.at \in Working /\ runner'.record \in RowRecords
      BY <1>2, <1>6 DEF Working
    <2>2. JournalRests /\ cache' \in [CaseNumbers -> {Unbuilt, Mangled, 0, 1}]
      BY <1>1, <1>2 DEF JournalRests, Kinds
    <2> QED BY <1>1, <1>5, <1>6, <2>1, <2>2, WorkMoves
  <1>8. AtPlace'
    <2>1. runner.record.srcdiff = d /\ runner.record.hit /\ runner.record.srcmove = 0
      BY <1>3, <1>4 DEF Row
    <2>2. SrcdiffDone'
      BY <1>3, <1>4, <1>5, <1>6, <1>7, <2>1 DEF SrcdiffDone, Made, ToolsKept
    <2> QED BY <1>6, <2>1, <2>2 DEF AtPlace
  <1>9. OnlyOpenSealed
    BY <1>3, <1>4, <1>5 DEF OnlyOpenSealed, Made
  <1> QED BY <1>5, <1>7, <1>8, <1>9

\* The record with its outcome, ready to be written.
LEMMA ConcludedIs ==
    ASSUME runner \in RunnerRecords, runner.record \in RowRecords, NEW outcome \in Outcomes,
           NEW completed \in {0, 1}, NEW xml \in Annotations,
           runner' = Concluded(outcome, completed, xml)
    PROVE  /\ runner' \in RunnerRecords /\ runner'.at = "finish" /\ runner'.case = runner.case
           /\ runner'.exit = runner.exit /\ runner'.build = runner.build
           /\ runner'.mode = runner.mode
           /\ runner'.record \in RowRecords /\ runner'.record.outcome = outcome
           /\ runner'.record.completed = completed /\ runner'.record.annotated = xml
           /\ runner'.record.srcdiff = runner.record.srcdiff
           /\ runner'.record.srcmove = runner.record.srcmove
           /\ runner'.record.hit = runner.record.hit
  <1> DEFINE r == [runner.record EXCEPT !.outcome = outcome, !.completed = completed,
                                        !.annotated = xml]
  <1>1. /\ r \in RowRecords /\ r.outcome = outcome /\ r.srcdiff = runner.record.srcdiff
        /\ r.srcmove = runner.record.srcmove /\ r.hit = runner.record.hit
        /\ r.completed = completed /\ r.annotated = xml
    BY DEF RowRecords
  <1>2. runner' = [runner EXCEPT !.at = "finish", !.dir = 0, !.record = r]
    BY DEF Concluded, RunnerRecords
  <1> HIDE DEF r
  <1>3. runner'.at = "finish" /\ runner'.case = runner.case /\ runner'.exit = runner.exit
        /\ runner'.build = runner.build /\ runner'.mode = runner.mode /\ runner'.record = r
    BY <1>2 DEF RunnerRecords
  <1>4. runner' \in RunnerRecords
    <2>1. "finish" \in Labels /\ 0 \in Nat /\ r \in RowRecords \cup {NoOutcome}
      BY <1>1 DEF Labels
    <2> QED BY <1>2, <2>1 DEF RunnerRecords
  <1> QED BY <1>1, <1>3, <1>4

LEMMA AfterSrcdiffKeeps ==
    ASSUME IInv, AfterSrcdiff
    PROVE  IInv' /\ ToolsKept
  <1>1. /\ runner.at = "srcdiff" /\ runner.at \in Working /\ runner.dir # 0
        /\ tools[runner.dir].seal # "open"
        /\ UNCHANGED <<tools, journal, attempts, csv, summary, installed>>
        /\ runner' = IF Admitted THEN [runner EXCEPT !.at = "semantic"]
                     ELSE Concluded("upstream_failure", 0, "none")
    BY DEF AfterSrcdiff, AttemptOver, Working
  <1>2. Kinds /\ AtWork /\ runner \in RunnerRecords /\ runner.record \in RowRecords
        /\ tools \in Seq(DirectoryRecords)
    BY <1>1, Parts DEF AtWork
  <1>3. /\ runner.record = [Row EXCEPT !.srcdiff = runner.dir] /\ Ours(runner.dir, "srcdiff")
    BY <1>1, <1>2 DEF AtWork, AtPlace
  <1>4. ToolsKept /\ Directories' = Directories
    BY <1>1, <1>2, Untouched
  <1>5. cache' \in [CaseNumbers -> {Unbuilt, Mangled, 0, 1}]
    <2>1. cache \in [CaseNumbers -> {Unbuilt, Mangled, 0, 1}]
      BY <1>2 DEF Kinds
    <2>2. tools[runner.dir].build \in {0, 1}
      BY <1>2, <1>3, Dirs DEF Ours, DirectoryRecords
    <2>3. \/ cache' = cache
          \/ cache' = [cache EXCEPT ![runner.case] = tools[runner.dir].build]
      BY DEF AfterSrcdiff
    <2> QED BY <2>1, <2>2, <2>3
  <1>6. /\ runner.record.srcdiff = runner.dir /\ ~runner.record.hit /\ runner.record.srcmove = 0
    BY <1>3 DEF Row
  <1>7. CASE Admitted
    <2>1. /\ runner' \in RunnerRecords /\ runner'.at = "semantic" /\ runner'.case = runner.case
          /\ runner'.exit = runner.exit /\ runner'.build = runner.build
          /\ runner'.mode = runner.mode
          /\ runner'.record = runner.record
      BY <1>1, <1>2, <1>7 DEF RunnerRecords, Labels
    <2>2. Key' = Key /\ (AtPlace' => IInv')
      <3>1. runner'.at \in Working /\ runner'.record \in RowRecords
        BY <1>2, <2>1 DEF Working
      <3>2. JournalRests
        BY <1>1 DEF JournalRests
      <3> QED BY <1>1, <1>4, <1>5, <2>1, <3>1, <3>2, WorkMoves
    <2>3. SrcdiffDone
      BY <1>3, <1>6, <1>7 DEF SrcdiffDone, Made, Ours, Admitted
    <2>4. SrcdiffDone'
      BY <1>1, <1>4, <2>1, <2>2, <2>3, SrcdiffStands
    <2>5. AtPlace'
      BY <1>6, <2>1, <2>4 DEF AtPlace
    <2> QED BY <1>4, <2>2, <2>5
  <1>8. CASE ~Admitted
    <2>1. /\ runner' = Concluded("upstream_failure", 0, "none")
          /\ "upstream_failure" \in Outcomes /\ 0 \in {0, 1} /\ "none" \in Annotations
      BY <1>1, <1>8 DEF Outcomes, Annotations
    <2>2. /\ runner' \in RunnerRecords /\ runner'.at = "finish" /\ runner'.case = runner.case
          /\ runner'.exit = runner.exit /\ runner'.build = runner.build
          /\ runner'.mode = runner.mode
          /\ runner'.record \in RowRecords /\ runner'.record.outcome = "upstream_failure"
          /\ runner'.record.completed = 0
          /\ runner'.record.srcdiff = runner.record.srcdiff
          /\ runner'.record.srcmove = runner.record.srcmove
      BY <1>2, <2>1, ConcludedIs
    <2>3. Key' = Key /\ (AtPlace' => IInv')
      <3>1. runner'.at \in Working
        BY <2>2 DEF Working
      <3>2. JournalRests
        BY <1>1 DEF JournalRests
      <3> QED BY <1>1, <1>4, <1>5, <2>2, <3>1, <3>2, WorkMoves
    <2>4. tools[runner.dir].seal = "rejected"
      <3>1. tools[runner.dir].seal \in Seals
        BY <1>2, <1>3, Dirs DEF Ours, DirectoryRecords
      <3> QED BY <1>1, <1>3, <1>8, <3>1 DEF Ours, Seals, Admitted
    <2>5. PICK row, key, d : row = runner'.record /\ key = Key /\ d = runner.dir
      OBVIOUS
    <2>6. /\ Made(d, "srcdiff", key, "rejected")' /\ tools'[d].build = journal'.build
          /\ row.srcdiff = d /\ row.srcmove = 0 /\ row.outcome = "upstream_failure"
          /\ row.completed = 0
      BY <1>1, <1>3, <1>4, <1>6, <2>2, <2>4, <2>5 DEF Made, Ours
    <2>7. Backed(row, key)'
      BY <2>1, <2>6 DEF Backed, ScoringOutcomes
    <2>8. Backed(runner.record, Key)'
      BY <2>3, <2>5, <2>7 DEF Backed, Made, Unannotated
    <2>9. AtPlace'
      BY <2>2, <2>8 DEF AtPlace
    <2> QED BY <1>4, <2>3, <2>9
  <1> QED BY <1>7, <1>8

LEMMA CheckSemanticsKeeps ==
    ASSUME IInv, CheckSemantics
    PROVE  IInv' /\ ToolsKept
  <1>1. /\ runner.at = "semantic" /\ runner.at \in Working
        /\ UNCHANGED <<tools, journal, attempts, cache, csv, summary, installed>>
        /\ \/ runner' = Concluded("srcdiff_semantic_ineligible", 0, "none")
           \/ runner' = [runner EXCEPT !.at = "srcmove", !.dir = 0]
    BY DEF CheckSemantics, Working, durable, Stays
  <1>2. Kinds /\ AtWork /\ runner \in RunnerRecords /\ runner.record \in RowRecords
        /\ tools \in Seq(DirectoryRecords)
    BY <1>1, Parts DEF AtWork
  <1>3. SrcdiffDone /\ runner.record.srcmove = 0
    BY <1>1, <1>2 DEF AtWork, AtPlace
  <1>4. ToolsKept /\ JournalRests /\ cache' \in [CaseNumbers -> {Unbuilt, Mangled, 0, 1}]
    BY <1>1, <1>2, Untouched DEF JournalRests, Kinds
  <1>5. CASE runner' = [runner EXCEPT !.at = "srcmove", !.dir = 0]
    <2>1. /\ runner'.at = "srcmove" /\ runner'.case = runner.case /\ runner'.dir = 0
          /\ runner'.exit = runner.exit /\ runner'.build = runner.build
          /\ runner'.mode = runner.mode
          /\ runner'.record = runner.record
      BY <1>2, <1>5 DEF RunnerRecords
    <2>2. runner' \in RunnerRecords /\ runner'.at \in Working
      BY <1>2, <1>5 DEF RunnerRecords, Labels, Working
    <2>3. Key' = Key /\ (AtPlace' => IInv')
      BY <1>1, <1>2, <1>4, <2>1, <2>2, WorkMoves
    <2>4. SrcdiffDone'
      BY <1>1, <1>3, <1>4, <2>1, <2>3, SrcdiffStands
    <2>5. AtPlace'
      BY <1>3, <2>1, <2>4 DEF AtPlace
    <2> QED BY <1>4, <2>3, <2>5
  <1>6. CASE runner' = Concluded("srcdiff_semantic_ineligible", 0, "none")
    <2>1. /\ "srcdiff_semantic_ineligible" \in Outcomes
          /\ 0 \in {0, 1} /\ "none" \in Annotations
      BY DEF Outcomes, Annotations
    <2>2. /\ runner' \in RunnerRecords /\ runner'.at = "finish" /\ runner'.case = runner.case
          /\ runner'.exit = runner.exit /\ runner'.build = runner.build
          /\ runner'.mode = runner.mode
          /\ runner'.record \in RowRecords
          /\ runner'.record.outcome = "srcdiff_semantic_ineligible"
          /\ runner'.record.completed = 0
          /\ runner'.record.srcdiff = runner.record.srcdiff
          /\ runner'.record.srcmove = runner.record.srcmove
          /\ runner'.record.hit = runner.record.hit
      BY <1>2, <1>6, <2>1, ConcludedIs
    <2>3. Key' = Key /\ (AtPlace' => IInv')
      <3>1. runner'.at \in Working
        BY <2>2 DEF Working
      <3> QED BY <1>1, <1>4, <2>2, <3>1, WorkMoves
    <2>4. SrcdiffDone'
      BY <1>1, <1>3, <1>4, <2>2, <2>3, SrcdiffStands
    <2>5. PICK row, key : row = runner'.record /\ key = Key
      OBVIOUS
    <2>6. /\ Made(row.srcdiff, "srcdiff", key, "admitted")'
          /\ row.hit \/ tools'[row.srcdiff].build = journal'.build
          /\ row.srcmove = 0 /\ row.outcome = "srcdiff_semantic_ineligible"
          /\ row.completed = 0
      BY <1>3, <2>2, <2>3, <2>4, <2>5 DEF SrcdiffDone, Made
    <2>7. Backed(row, key)'
      BY <2>1, <2>6 DEF Backed, ScoringOutcomes
    <2>8. Backed(runner.record, Key)'
      BY <2>3, <2>5, <2>7 DEF Backed, Made, Unannotated
    <2>9. AtPlace'
      BY <2>2, <2>8 DEF AtPlace
    <2> QED BY <1>4, <2>3, <2>9
  <1> QED BY <1>1, <1>5, <1>6

LEMMA ScoreKeeps ==
    ASSUME IInv, Score
    PROVE  IInv' /\ ToolsKept
  <1>1. /\ runner.at = "srcmove" /\ runner.at \in Working /\ runner.dir # 0
        /\ tools[runner.dir].seal # "open"
        /\ UNCHANGED <<tools, journal, attempts, cache, csv, summary, installed>>
    BY DEF Score, AttemptOver, Working, durable, Stays
  <1>2. Kinds /\ AtWork /\ runner \in RunnerRecords /\ runner.record \in RowRecords
        /\ tools \in Seq(DirectoryRecords)
    BY <1>1, Parts DEF AtWork
  <1>3. SrcdiffDone /\ runner.record.srcmove = runner.dir /\ Ours(runner.dir, "srcmove")
    BY <1>1, <1>2 DEF AtWork, AtPlace
  <1>4. ToolsKept /\ JournalRests /\ cache' \in [CaseNumbers -> {Unbuilt, Mangled, 0, 1}]
    BY <1>1, <1>2, Untouched DEF JournalRests, Kinds
  <1>5. PICK outcome \in Outcomes, completed \in {0, 1}, xml \in Annotations :
           /\ runner' = Concluded(outcome, completed, xml)
           /\ \/ /\ outcome \in ScoringOutcomes /\ completed = 1
                 /\ tools[runner.dir].seal = "admitted"
              \/ /\ outcome = "srcmove_tool_failure" /\ completed = 0
                 /\ tools[runner.dir].seal = "rejected"
              \/ /\ outcome = "srcmove_tool_failure" /\ completed = 0
                 /\ tools[runner.dir].seal = "admitted" /\ Reviewing /\ xml # "whole"
    <2>1. tools[runner.dir].seal \in {"admitted", "rejected"}
      <3>1. tools[runner.dir].seal \in Seals
        BY <1>2, <1>3, Dirs DEF Ours, DirectoryRecords
      <3> QED BY <1>1, <1>3, <3>1 DEF Ours, Seals
    <2>2. PICK xml \in Annotations :
             IF Admitted /\ (Reviewing => xml = "whole")
             THEN \E score \in Scores : runner' = Concluded(score, 1, xml)
             ELSE runner' = Concluded("srcmove_tool_failure", 0, xml)
      BY DEF Score, Annotations
    <2>3. CASE Admitted /\ (Reviewing => xml = "whole")
      <3>1. PICK score \in Scores : runner' = Concluded(score, 1, xml)
        BY <2>2, <2>3
      <3>2. score \in ScoringOutcomes /\ score \in Outcomes
        BY ExecutionAssumption DEF Outcomes
      <3> QED BY <2>3, <3>1, <3>2 DEF Admitted
    <2>4. CASE ~(Admitted /\ (Reviewing => xml = "whole"))
      <3>1. /\ runner' = Concluded("srcmove_tool_failure", 0, xml)
            /\ "srcmove_tool_failure" \in Outcomes
        BY <2>2, <2>4 DEF Outcomes
      <3> QED BY <2>1, <2>4, <3>1 DEF Admitted
    <2> QED BY <2>3, <2>4
  <1>6. /\ runner' \in RunnerRecords /\ runner'.at = "finish" /\ runner'.case = runner.case
        /\ runner'.exit = runner.exit /\ runner'.build = runner.build
        /\ runner'.mode = runner.mode
        /\ runner'.record \in RowRecords /\ runner'.record.outcome = outcome
        /\ runner'.record.completed = completed /\ runner'.record.annotated = xml
        /\ runner'.record.srcdiff = runner.record.srcdiff
        /\ runner'.record.srcmove = runner.record.srcmove
        /\ runner'.record.hit = runner.record.hit
    BY <1>2, <1>5, ConcludedIs
  <1>7. Key' = Key /\ (AtPlace' => IInv')
    <2>1. runner'.at \in Working
      BY <1>6 DEF Working
    <2> QED BY <1>1, <1>4, <1>6, <2>1, WorkMoves
  <1>8. SrcdiffDone'
    BY <1>1, <1>3, <1>4, <1>6, <1>7, SrcdiffStands
  <1>9. PICK row, key, d : row = runner'.record /\ key = Key /\ d = runner.dir
    OBVIOUS
  <1>10. /\ Made(row.srcdiff, "srcdiff", key, "admitted")'
         /\ row.hit \/ tools'[row.srcdiff].build = journal'.build
         /\ row.srcmove = d /\ row.outcome = outcome /\ tools'[d].build = journal'.build
         /\ row.completed = completed /\ row.annotated = xml
    BY <1>1, <1>3, <1>6, <1>7, <1>8, <1>9 DEF SrcdiffDone, Made, Ours
  <1>11. /\ outcome \in ScoringOutcomes => Made(d, "srcmove", key, "admitted")'
         /\ outcome = "srcmove_tool_failure" =>
               \/ Made(d, "srcmove", key, "rejected")'
               \/ Made(d, "srcmove", key, "admitted")' /\ Reviewing /\ xml # "whole"
         /\ outcome \in ScoringOutcomes \cup {"srcmove_tool_failure"}
         /\ completed = IF outcome \in ScoringOutcomes THEN 1 ELSE 0
    BY <1>1, <1>3, <1>5, <1>9 DEF Made, Ours, ScoringOutcomes, Directories
  <1>12. outcome = "srcmove_tool_failure" =>
            \/ Made(row.srcmove, "srcmove", key, "rejected")'
            \/ Made(row.srcmove, "srcmove", key, "admitted")' /\ Unannotated(row)'
    <2>1. Reviewing => journal'.diagnostics
      BY <1>1, Parts DEF Placed, Working
    <2>2. Reviewing /\ xml # "whole" => Unannotated(row)'
      BY <1>10, <2>1 DEF Unannotated
    <2> QED BY <1>10, <1>11, <2>2 DEF Made
  <1>13. Backed(runner.record, Key)'
    <2>1. Backed(row, key)'
      BY <1>10, <1>11, <1>12 DEF Backed, ScoringOutcomes
    <2> QED BY <1>7, <1>9, <2>1 DEF Backed, Made, Unannotated
  <1>14. AtPlace'
    BY <1>6, <1>13 DEF AtPlace
  <1> QED BY <1>4, <1>7, <1>14

LEMMA ReuseKeeps ==
    ASSUME IInv, Reuse
    PROVE  IInv' /\ ToolsKept
  <1>1. /\ runner.at = "case" /\ runner' = NextCase
        /\ UNCHANGED <<tools, journal, attempts, cache, csv, summary, installed>>
    BY DEF Reuse, durable, Stays
  <1>2. /\ Kinds /\ Placed /\ OpenRowIsWorkedOn /\ runner \in RunnerRecords
        /\ tools \in Seq(DirectoryRecords)
    BY Parts
  <1>3. ToolsKept
    BY <1>1, <1>2, Untouched
  <1>4. /\ runner' \in RunnerRecords /\ runner'.at = "case" /\ runner'.case = runner.case + 1
        /\ runner'.exit = runner.exit /\ runner'.build = runner.build
        /\ runner'.mode = runner.mode /\ runner.case \in Nat
    <2>1. /\ runner' = [runner EXCEPT !.at = "case", !.case = runner.case + 1, !.dir = 0,
                                      !.record = NoOutcome]
          /\ runner.case \in Nat
      BY <1>1, <1>2 DEF NextCase, RunnerRecords
    <2>2. "case" \in Labels /\ runner.case + 1 \in Nat /\ NoOutcome \in RowRecords \cup {NoOutcome}
      BY <2>1 DEF Labels
    <2> QED BY <1>2, <2>1, <2>2 DEF RunnerRecords
  <1>5. runner.exit = "none"
    BY <1>1, <1>2 DEF Placed
  <1>6. /\ RowsBacked' /\ HasLatest' /\ CompletedIsWhole' /\ ReportsAddUp'
        /\ \A c \in CaseNumbers : Rows(c, "running")' = Rows(c, "running")
    BY <1>1, <1>3, <1>4, <1>5, Still, ReportsStand
  <1>7. Kinds'
    BY <1>1, <1>2, <1>4 DEF Kinds
  <1>8. Placed'
    BY <1>1, <1>2, <1>4 DEF Placed, Working, Reviewing
  <1>9. ToRecover' /\ AtWork'
    BY <1>4 DEF ToRecover, AtWork, Working
  <1>10. OpenRowIsWorkedOn'
    BY <1>1, <1>2, <1>4, <1>6 DEF OpenRowIsWorkedOn
  <1> QED BY <1>3, <1>6, <1>7, <1>8, <1>9, <1>10, Together

-----------------------------------------------------------------------------
(* From the launch to the first case. *)

\* The rows stay, whatever becomes of the journal's status.
LEMMA RowsStay ==
    ASSUME IInv, ToolsKept, UNCHANGED attempts,
           \/ journal'.build = journal.build /\ journal'.diagnostics = journal.diagnostics
           \/ \A c \in CaseNumbers : attempts[c] = << >>
    PROVE  /\ RowsBacked' /\ HasLatest' /\ LatestOutcomes' = LatestOutcomes
           /\ \A c \in CaseNumbers :
                 /\ TerminalRows(c)' = TerminalRows(c)
                 /\ Rows(c, "running")' = Rows(c, "running")
  <1>0. RowsBacked /\ HasLatest /\ attempts \in [CaseNumbers -> Seq(RowRecords)]
    BY Parts
  <1>1. \A c \in CaseNumbers :
              /\ TerminalRows(c)' = TerminalRows(c)
              /\ \A i \in TerminalRows(c) : attempts'[c][i] = attempts[c][i]
              /\ \A status : Rows(c, status)' = Rows(c, status)
    BY RowsUnchanged
  <1>2. HasLatest' /\ LatestOutcomes' = LatestOutcomes
    BY <1>0, <1>1, LatestStands
  <1>3. RowsBacked'
    <2>1. CASE journal'.build = journal.build /\ journal'.diagnostics = journal.diagnostics
      BY <1>0, <2>1, RowsStand
    <2>2. CASE \A c \in CaseNumbers : attempts[c] = << >>
      BY <2>2 DEF RowsBacked
    <2> QED BY <2>1, <2>2
  <1> QED BY <1>1, <1>2, <1>3

LEMMA LaunchKeeps ==
    ASSUME IInv, NEW mode \in Modes, Launch(mode)
    PROVE  IInv' /\ ToolsKept
  <1>1. /\ UNCHANGED <<tools, journal, attempts, cache, csv, summary, installed>>
        /\ runner' = [Down("none") EXCEPT
               !.at = IF journal.made = "none" THEN "create"
                      ELSE IF JournalAccepts(mode) THEN "recover" ELSE "down",
               !.exit = IF journal.made = "none" \/ JournalAccepts(mode) THEN "none"
                        ELSE "refused",
               !.mode = mode, !.build = installed,
               !.pending = {d \in Directories : Abandoned(d)}]
    BY DEF Launch, durable
  <1>2. Kinds /\ Placed /\ tools \in Seq(DirectoryRecords)
    BY Parts
  <1>3. ToolsKept /\ Directories' = Directories
    BY <1>1, <1>2, Untouched
  <1>4. PICK step, exit, pending :
           /\ step = IF journal.made = "none" THEN "create"
                   ELSE IF JournalAccepts(mode) THEN "recover" ELSE "down"
           /\ exit = IF journal.made = "none" \/ JournalAccepts(mode) THEN "none" ELSE "refused"
           /\ pending = {d \in Directories : Abandoned(d)}
    OBVIOUS
  <1>5. /\ runner' = [Down("none") EXCEPT !.at = step, !.exit = exit, !.mode = mode,
                                          !.build = installed, !.pending = pending]
    BY <1>1, <1>4
  <1>6. /\ Down("none") \in RunnerRecords
    BY DownIs DEF Exits
  <1>7. /\ step \in {"create", "recover", "down"} /\ exit \in {"none", "refused"}
        /\ step # "down" => exit = "none"
        /\ step = "recover" => /\ journal.made = "ready" /\ journal.build = installed
                              /\ journal.diagnostics = Diagnoses(mode)
    BY <1>4 DEF JournalAccepts
  <1>8. /\ mode \in ModeRecords
        /\ installed \in {0, 1} /\ pending \in SUBSET Nat
    <2>1. mode \in ModeRecords
      BY ExecutionAssumption DEF ModeRecords
    <2>2. pending \in SUBSET Nat
      BY <1>2, <1>4, Dirs
    <2> QED BY <1>2, <2>1, <2>2 DEF Kinds
  <1>9. /\ runner'.at = step /\ runner'.exit = exit /\ runner'.build = installed
        /\ runner'.pending = pending /\ runner'.mode = mode
    BY <1>5, <1>6 DEF RunnerRecords
  <1>10. runner' \in RunnerRecords
    <2>1. step \in Labels /\ exit \in Exits
      BY <1>7 DEF Labels, Exits
    <2> QED BY <1>5, <1>6, <1>8, <2>1 DEF RunnerRecords
  <1>11. /\ RowsBacked' /\ HasLatest' /\ CompletedIsWhole' /\ ReportsAddUp'
    <2>1. runner'.exit # "returned"
      BY <1>7, <1>9
    <2> QED BY <1>1, <1>3, <2>1, Still, ReportsStand
  <1>12. Kinds'
    BY <1>1, <1>2, <1>10 DEF Kinds
  <1>13. Placed'
    <2>1. step = "recover" => (Reviewing' => journal'.diagnostics)
      BY <1>1, <1>7, <1>9 DEF Reviewing, Diagnoses
    <2> QED BY <1>1, <1>2, <1>7, <1>8, <1>9, <2>1 DEF Placed, Working
  <1>14. ToRecover'
    BY <1>1, <1>3, <1>4, <1>9 DEF ToRecover, Abandoned
  <1>15. AtWork' /\ OpenRowIsWorkedOn'
    BY <1>7, <1>9 DEF AtWork, OpenRowIsWorkedOn, Working
  <1> QED BY <1>3, <1>11, <1>12, <1>13, <1>14, <1>15, Together

LEMMA CreateJournalKeeps ==
    ASSUME IInv, CreateJournal
    PROVE  IInv' /\ ToolsKept
  <1>1. /\ runner.at = "create" /\ journal.made = "none"
        /\ journal' = [journal EXCEPT !.made = "incomplete"]
        /\ UNCHANGED <<tools, runner, attempts, cache, csv, summary, installed>>
    BY DEF CreateJournal, Stays
  <1>2. /\ Kinds /\ Placed /\ ToRecover /\ tools \in Seq(DirectoryRecords)
        /\ journal \in Journals
    BY Parts
  <1>3. ToolsKept /\ Directories' = Directories
    BY <1>1, <1>2, Untouched
  <1>4. /\ journal' \in Journals /\ journal'.made = "incomplete" /\ journal'.build = journal.build
        /\ journal'.status = journal.status
    BY <1>1, <1>2 DEF Journals
  <1>5. /\ journal.status = "running" /\ \A c \in CaseNumbers : attempts[c] = << >>
    BY <1>1, <1>2 DEF Placed
  <1>6. RowsBacked' /\ HasLatest'
    BY <1>1, <1>3, <1>4, RowsStay
  <1>7. Kinds'
    BY <1>1, <1>2, <1>4 DEF Kinds
  <1>8. Placed'
    BY <1>1, <1>2, <1>4, <1>5 DEF Placed, Working, Reviewing
  <1>9. ToRecover'
    BY <1>1, <1>2, <1>3 DEF ToRecover, Abandoned
  <1>10. AtWork' /\ OpenRowIsWorkedOn'
    BY <1>1 DEF AtWork, OpenRowIsWorkedOn, Working
  <1>11. CompletedIsWhole'
    BY <1>4, <1>5 DEF CompletedIsWhole
  <1>12. ReportsAddUp'
    BY <1>1, <1>2 DEF ReportsAddUp, Placed
  <1> QED BY <1>3, <1>6, <1>7, <1>8, <1>9, <1>10, <1>11, <1>12, Together

LEMMA InsertMetadataKeeps ==
    ASSUME IInv, InsertMetadata
    PROVE  IInv' /\ ToolsKept
  <1>1. /\ runner.at = "create" /\ journal.made = "incomplete"
        /\ journal' = [made |-> "ready", status |-> "running", build |-> runner.build,
                       cache |-> runner.mode.cache, diagnostics |-> Diagnoses(runner.mode)]
        /\ runner' = [runner EXCEPT !.at = "recover"]
        /\ UNCHANGED <<tools, attempts, cache, csv, summary, installed>>
    BY DEF InsertMetadata, Goto, Stays
  <1>2. /\ Kinds /\ Placed /\ ToRecover /\ tools \in Seq(DirectoryRecords)
        /\ runner \in RunnerRecords
    BY Parts
  <1>3. ToolsKept /\ Directories' = Directories
    BY <1>1, <1>2, Untouched
  <1>4. /\ runner' \in RunnerRecords /\ runner'.at = "recover" /\ runner'.exit = runner.exit
        /\ runner'.build = runner.build
        /\ runner'.mode = runner.mode /\ runner'.pending = runner.pending
    BY <1>1, <1>2 DEF RunnerRecords, Labels
  <1>5. /\ runner.build \in {0, 1} /\ runner.exit = "none"
        /\ \A c \in CaseNumbers : attempts[c] = << >>
    BY <1>1, <1>2 DEF Placed
  <1>6. /\ journal' \in Journals /\ journal'.made = "ready" /\ journal'.status = "running"
        /\ journal'.build = runner.build /\ journal'.diagnostics = Diagnoses(runner.mode)
    <2>1. PICK kept \in BOOLEAN, wanted \in BOOLEAN :
             kept = runner.mode.cache /\ wanted = Diagnoses(runner.mode)
      BY <1>2 DEF RunnerRecords, ModeRecords, Diagnoses
    <2>2. journal' = [made |-> "ready", status |-> "running", build |-> runner.build,
                      cache |-> kept, diagnostics |-> wanted]
      BY <1>1, <2>1
    <2> QED BY <1>5, <2>1, <2>2 DEF Journals
  <1>7. RowsBacked' /\ HasLatest'
    BY <1>1, <1>3, <1>5, RowsStay
  <1>8. Kinds'
    BY <1>1, <1>2, <1>4, <1>6 DEF Kinds
  <1>9. Placed'
    <2>1. Reviewing' => journal'.diagnostics
      BY <1>4, <1>6 DEF Reviewing, Diagnoses
    <2> QED BY <1>4, <1>5, <1>6, <2>1 DEF Placed, Working
  <1>10. ToRecover'
    BY <1>1, <1>2, <1>3, <1>4 DEF ToRecover, Abandoned
  <1>11. AtWork' /\ OpenRowIsWorkedOn'
    BY <1>4 DEF AtWork, OpenRowIsWorkedOn, Working
  <1>12. CompletedIsWhole' /\ ReportsAddUp'
    BY <1>4, <1>5, <1>6 DEF CompletedIsWhole, ReportsAddUp
  <1> QED BY <1>3, <1>7, <1>8, <1>9, <1>10, <1>11, <1>12, Together

LEMMA RecoverToolsKeeps ==
    ASSUME IInv, RecoverTools
    PROVE  IInv' /\ ToolsKept /\ OnlyOpenSealed
  <1>1. /\ runner.at = "recover"
        /\ UNCHANGED <<journal, attempts, cache, csv, summary, installed>>
    BY DEF RecoverTools, durable, Stays
  <1>2. /\ Kinds /\ Placed /\ ToRecover /\ tools \in Seq(DirectoryRecords)
        /\ runner \in RunnerRecords
    BY Parts
  <1>3. /\ ToolsKept /\ OnlyOpenSealed /\ runner' \in RunnerRecords
        /\ runner'.at \in {"recover", "rows"} /\ runner'.exit = runner.exit
        /\ runner'.build = runner.build /\ runner'.mode = runner.mode
        /\ ToRecover'
    <2>1. CASE runner.pending = {} /\ Goto("rows") /\ UNCHANGED tools
      <3>1. /\ runner' \in RunnerRecords /\ runner'.at = "rows" /\ runner'.exit = runner.exit
            /\ runner'.build = runner.build /\ runner'.mode = runner.mode
        BY <1>2, <2>1 DEF Goto, RunnerRecords, Labels
      <3>2. ToolsKept /\ OnlyOpenSealed
        BY <1>2, <2>1, Untouched DEF OnlyOpenSealed
      <3> QED BY <3>1, <3>2 DEF ToRecover
    <2>2. ASSUME NEW d \in runner.pending, Recover(d),
                 runner' = [runner EXCEPT !.pending = @ \ {d}]
          PROVE  /\ ToolsKept /\ OnlyOpenSealed /\ runner' \in RunnerRecords
                 /\ runner'.at \in {"recover", "rows"} /\ runner'.exit = runner.exit
                 /\ runner'.build = runner.build /\ runner'.mode = runner.mode
                 /\ ToRecover'
      <3>1. /\ runner' \in RunnerRecords /\ runner'.at = "recover"
            /\ runner'.exit = runner.exit
            /\ runner'.build = runner.build
            /\ runner'.mode = runner.mode /\ runner'.pending = runner.pending \ {d}
        BY <1>1, <1>2, <2>2 DEF RunnerRecords
      <3>2. d \in Directories /\ tools[d].seal = "open"
        BY <1>1, <1>2 DEF ToRecover, Abandoned
      <3>3. /\ ToolsKept /\ Directories' = Directories /\ OnlyOpenSealed
            /\ \A e \in Directories : e # d => tools'[e] = tools[e]
        <4>1. CASE tools' = tools
          BY <1>2, <4>1, Untouched DEF OnlyOpenSealed
        <4>2. CASE tools' # tools
          <5>1. tools' = [tools EXCEPT ![d].seal = "interrupted", ![d].started = FALSE]
            BY <2>2, <4>2 DEF Recover
          <5>2. "interrupted" \in Seals
            BY DEF Seals
          <5>3. /\ ToolsKept /\ Directories' = Directories /\ tools'[d].seal = "interrupted"
                /\ \A e \in Directories : e # d => tools'[e] = tools[e]
            BY <3>2, <5>1, <5>2, SealedAs
          <5> QED BY <3>2, <5>3 DEF OnlyOpenSealed
        <4> QED BY <4>1, <4>2
      <3>4. ToRecover'
        <4>1. \A e \in runner'.pending : e \in Directories' /\ tools'[e] = tools[e] /\ Abandoned(e)
          BY <1>1, <1>2, <3>1, <3>3 DEF ToRecover
        <4> QED BY <4>1 DEF ToRecover, Abandoned
      <3> QED BY <3>1, <3>3, <3>4
    <2> QED BY <2>1, <2>2 DEF RecoverTools
  <1>4. runner.exit = "none"
    BY <1>1, <1>2 DEF Placed
  <1>5. /\ RowsBacked' /\ HasLatest' /\ CompletedIsWhole' /\ ReportsAddUp'
    BY <1>1, <1>3, <1>4, Still, ReportsStand
  <1>6. Kinds'
    BY <1>1, <1>2, <1>3 DEF Kinds, ToolsKept
  <1>7. Placed'
    BY <1>1, <1>2, <1>3 DEF Placed, Working, Reviewing
  <1>8. AtWork' /\ OpenRowIsWorkedOn'
    BY <1>3 DEF AtWork, OpenRowIsWorkedOn, Working
  <1> QED BY <1>3, <1>5, <1>6, <1>7, <1>8, Together

-----------------------------------------------------------------------------
(* The rows. *)

\* A row that is closed stays as it is.
ClosedKept ==
    \A c \in CaseNumbers : \A i \in DOMAIN attempts[c] :
        attempts[c][i].status # "running" => attempts'[c][i] = attempts[c][i]

LEMMA Interrupting ==
    ASSUME attempts \in [CaseNumbers -> Seq(RowRecords)], NEW c \in CaseNumbers
    PROVE  /\ InterruptRows(c) \in Seq(RowRecords)
           /\ DOMAIN InterruptRows(c) = DOMAIN attempts[c]
           /\ \A i \in DOMAIN attempts[c] :
                 /\ attempts[c][i].status # "running" => InterruptRows(c)[i] = attempts[c][i]
                 /\ attempts[c][i].status = "running" =>
                       /\ InterruptRows(c)[i].status = "interrupted"
                       /\ InterruptRows(c)[i].srcdiff = attempts[c][i].srcdiff
                       /\ InterruptRows(c)[i].srcmove = attempts[c][i].srcmove
  <1>1. /\ attempts[c] \in Seq(RowRecords) /\ Len(attempts[c]) \in Nat
        /\ DOMAIN attempts[c] = 1..Len(attempts[c])
        /\ \A i \in DOMAIN attempts[c] : attempts[c][i] \in RowRecords
    BY RowsOf
  <1>2. /\ DOMAIN InterruptRows(c) = DOMAIN attempts[c]
        /\ \A i \in DOMAIN attempts[c] :
              InterruptRows(c)[i] = IF attempts[c][i].status = "running"
                                    THEN [attempts[c][i] EXCEPT !.status = "interrupted"]
                                    ELSE attempts[c][i]
    BY DEF InterruptRows
  <1>4. \A i \in DOMAIN attempts[c] :
           /\ InterruptRows(c)[i] \in RowRecords
           /\ attempts[c][i].status # "running" => InterruptRows(c)[i] = attempts[c][i]
           /\ attempts[c][i].status = "running" =>
                 /\ InterruptRows(c)[i].status = "interrupted"
                 /\ InterruptRows(c)[i].srcdiff = attempts[c][i].srcdiff
                 /\ InterruptRows(c)[i].srcmove = attempts[c][i].srcmove
    <2> SUFFICES ASSUME NEW i \in DOMAIN attempts[c]
                 PROVE  /\ InterruptRows(c)[i] \in RowRecords
                        /\ attempts[c][i].status # "running"
                              => InterruptRows(c)[i] = attempts[c][i]
                        /\ attempts[c][i].status = "running" =>
                              /\ InterruptRows(c)[i].status = "interrupted"
                              /\ InterruptRows(c)[i].srcdiff = attempts[c][i].srcdiff
                              /\ InterruptRows(c)[i].srcmove = attempts[c][i].srcmove
      OBVIOUS
    <2>1. PICK row \in RowRecords : row = attempts[c][i]
      BY <1>1
    <2> DEFINE r == [row EXCEPT !.status = "interrupted"]
    <2>2. /\ r \in RowRecords /\ r.status = "interrupted"
          /\ r.srcdiff = row.srcdiff /\ r.srcmove = row.srcmove
      BY DEF RowRecords
    <2>3. InterruptRows(c)[i] = IF row.status = "running" THEN r ELSE row
      BY <1>2, <2>1
    <2> HIDE DEF r
    <2> QED BY <2>1, <2>2, <2>3
  <1>5. InterruptRows(c) \in [1..Len(attempts[c]) -> RowRecords]
    <2>1. InterruptRows(c) = [i \in DOMAIN attempts[c] |-> InterruptRows(c)[i]]
      BY DEF InterruptRows
    <2> QED BY <1>1, <1>4, <2>1
  <1>6. InterruptRows(c) \in Seq(RowRecords)
    <2>1. InterruptRows(c) \in UNION {[1..n -> RowRecords] : n \in Nat}
      BY <1>1, <1>5
    <2>2. Seq(RowRecords) = UNION {[1..n -> RowRecords] : n \in Nat}
      BY Zenon, SeqDef
    <2> QED BY Zenon, <2>1, <2>2
  <1> QED BY <1>2, <1>4, <1>6

LEMMA RecoverRunningKeeps ==
    ASSUME IInv, RecoverRunning
    PROVE  IInv' /\ ToolsKept /\ ClosedKept /\ LatestOutcomes' = LatestOutcomes
  <1>1. /\ runner.at = "rows" /\ attempts' = [c \in CaseNumbers |-> InterruptRows(c)]
        /\ runner' = [runner EXCEPT !.at = "reopen"]
        /\ UNCHANGED <<tools, journal, cache, csv, summary, installed>>
    BY DEF RecoverRunning, Goto, Stays
  <1>2. /\ Kinds /\ Placed /\ RowsBacked /\ HasLatest /\ CompletedIsWhole
        /\ tools \in Seq(DirectoryRecords) /\ runner \in RunnerRecords
        /\ attempts \in [CaseNumbers -> Seq(RowRecords)]
    BY Parts
  <1>3. ToolsKept /\ Directories' = Directories
    BY <1>1, <1>2, Untouched
  <1>4. \A c \in CaseNumbers :
           /\ attempts'[c] \in Seq(RowRecords) /\ DOMAIN attempts'[c] = DOMAIN attempts[c]
           /\ \A i \in DOMAIN attempts[c] :
                 /\ attempts[c][i].status # "running" => attempts'[c][i] = attempts[c][i]
                 /\ attempts[c][i].status = "running" =>
                       /\ attempts'[c][i].status = "interrupted"
                       /\ attempts'[c][i].srcdiff = attempts[c][i].srcdiff
                       /\ attempts'[c][i].srcmove = attempts[c][i].srcmove
    BY <1>1, <1>2, Interrupting
  <1>5. attempts' \in [CaseNumbers -> Seq(RowRecords)]
    BY <1>1, <1>4
  <1>6. \A c \in CaseNumbers :
           /\ TerminalRows(c)' = TerminalRows(c)
           /\ \A i \in TerminalRows(c) : attempts'[c][i] = attempts[c][i]
           /\ Rows(c, "running")' = {}
    BY <1>4 DEF TerminalRows, Rows
  <1>7. HasLatest' /\ LatestOutcomes' = LatestOutcomes
    BY <1>2, <1>6, LatestStands
  <1>8. RowsBacked'
    <2> SUFFICES ASSUME NEW c \in CaseNumbers, NEW i \in DOMAIN attempts'[c]
                 PROVE  IF attempts'[c][i].status = "terminal"
                        THEN Backed(attempts[c][i], <<c, i>>)'
                        ELSE attempts'[c][i].srcdiff = 0 /\ attempts'[c][i].srcmove = 0
      BY DEF RowsBacked
    <2>1. i \in DOMAIN attempts[c]
      BY <1>4
    <2>2. CASE attempts'[c][i].status = "terminal"
      <3>1. PICK row : row = attempts[c][i]
        OBVIOUS
      <3>2. row.status = "terminal" /\ attempts'[c][i] = row
        BY <1>4, <2>1, <2>2, <3>1
      <3>3. Backed(row, <<c, i>>)'
        BY <1>1, <1>2, <1>3, <2>1, <3>1, <3>2, BackedStands DEF RowsBacked
      <3> QED BY <2>2, <3>2, <3>3 DEF Backed, Unannotated
    <2>3. CASE attempts'[c][i].status # "terminal"
      <3>1. attempts[c][i].status # "terminal"
        BY <1>4, <2>1, <2>3
      <3>2. attempts[c][i].srcdiff = 0 /\ attempts[c][i].srcmove = 0
        BY <1>2, <2>1, <3>1 DEF RowsBacked
      <3>3. attempts'[c][i].srcdiff = 0 /\ attempts'[c][i].srcmove = 0
        BY <1>4, <2>1, <3>2
      <3> QED BY <2>3, <3>3
    <2> QED BY <2>2, <2>3
  <1>9. /\ runner' \in RunnerRecords /\ runner'.at = "reopen" /\ runner'.exit = runner.exit
        /\ runner'.build = runner.build /\ runner'.mode = runner.mode
    BY <1>1, <1>2 DEF RunnerRecords, Labels
  <1>10. Kinds'
    BY <1>1, <1>2, <1>5, <1>9 DEF Kinds
  <1>11. Placed'
    BY <1>1, <1>2, <1>9 DEF Placed, Working, Reviewing
  <1>12. ToRecover' /\ AtWork'
    BY <1>9 DEF ToRecover, AtWork, Working
  <1>13. OpenRowIsWorkedOn'
    BY <1>6 DEF OpenRowIsWorkedOn
  <1>14. CompletedIsWhole'
    BY <1>1, <1>2, <1>6 DEF CompletedIsWhole
  <1>15. ReportsAddUp'
    BY <1>1, <1>2, <1>9 DEF Placed, ReportsAddUp
  <1>16. ClosedKept
    BY <1>4 DEF ClosedKept
  <1> QED BY <1>3, <1>7, <1>8, <1>10, <1>11, <1>12, <1>13, <1>14, <1>15, <1>16, Together

LEMMA MarkRunningKeeps ==
    ASSUME IInv, MarkRunning
    PROVE  IInv' /\ ToolsKept
  <1>1. /\ runner.at = "reopen"
        /\ journal' = [journal EXCEPT !.status = "running"]
        /\ runner' = [runner EXCEPT !.at = "case", !.case = 1]
        /\ UNCHANGED <<tools, attempts, cache, csv, summary, installed>>
    BY DEF MarkRunning, Stays
  <1>2. /\ Kinds /\ Placed /\ OpenRowIsWorkedOn /\ tools \in Seq(DirectoryRecords)
        /\ runner \in RunnerRecords /\ journal \in Journals
    BY Parts
  <1>3. ToolsKept
    BY <1>1, <1>2, Untouched
  <1>4. /\ journal' \in Journals /\ journal'.status = "running"
        /\ journal'.build = journal.build /\ journal'.made = journal.made
        /\ journal'.diagnostics = journal.diagnostics
    BY <1>1, <1>2 DEF Journals
  <1>5. /\ RowsBacked' /\ HasLatest'
        /\ \A c \in CaseNumbers : Rows(c, "running")' = Rows(c, "running")
    BY <1>1, <1>3, <1>4, RowsStay
  <1>6. /\ runner' \in RunnerRecords /\ runner'.at = "case" /\ runner'.exit = runner.exit
        /\ runner'.build = runner.build /\ runner'.mode = runner.mode /\ runner'.case = 1
    BY <1>1, <1>2 DEF RunnerRecords, Labels
  <1>7. Kinds'
    BY <1>1, <1>2, <1>4, <1>6 DEF Kinds
  <1>8. Placed'
    BY <1>1, <1>2, <1>4, <1>6 DEF Placed, Working, Reviewing
  <1>9. ToRecover' /\ AtWork'
    BY <1>6 DEF ToRecover, AtWork, Working
  <1>10. OpenRowIsWorkedOn'
    BY <1>1, <1>2, <1>5, <1>6 DEF OpenRowIsWorkedOn
  <1>11. CompletedIsWhole'
    BY <1>4 DEF CompletedIsWhole
  <1>12. ReportsAddUp'
    BY <1>1, <1>2, <1>6 DEF Placed, ReportsAddUp
  <1> QED BY <1>3, <1>5, <1>7, <1>8, <1>9, <1>10, <1>11, <1>12, Together

LEMMA BeginKeeps ==
    ASSUME IInv, Begin
    PROVE  IInv' /\ ToolsKept /\ ClosedKept /\ LatestOutcomes' = LatestOutcomes
  <1>1. /\ runner.at = "case" /\ runner.case <= CaseCount /\ Due(runner.case)
        /\ attempts' = [attempts EXCEPT ![runner.case] = Append(@, Row)]
        /\ runner' = [runner EXCEPT !.at = "srcdiff", !.dir = 0, !.record = Row]
        /\ UNCHANGED <<tools, journal, cache, csv, summary, installed>>
    BY DEF Begin, Stays
  <1>2. /\ Kinds /\ Placed /\ RowsBacked /\ HasLatest /\ CompletedIsWhole /\ OpenRowIsWorkedOn
        /\ tools \in Seq(DirectoryRecords) /\ runner \in RunnerRecords
        /\ attempts \in [CaseNumbers -> Seq(RowRecords)]
    BY Parts
  <1>3. ToolsKept /\ Directories' = Directories
    BY <1>1, <1>2, Untouched
  <1>4. runner.case \in CaseNumbers
    <2>1. runner.case \in Nat /\ runner.case # 0
      BY <1>1, <1>2 DEF Placed, RunnerRecords
    <2> QED BY <1>1, <2>1, ExecutionAssumption DEF CaseNumbers
  <1>5. PICK k \in CaseNumbers : k = runner.case
    BY <1>4
  <1>6. PICK n \in Nat : n = Len(attempts[k]) /\ DOMAIN attempts[k] = 1..n
    BY <1>2, RowsOf
  <1>7. /\ attempts'[k] \in Seq(RowRecords) /\ Len(attempts'[k]) = n + 1
        /\ DOMAIN attempts'[k] = 1..(n + 1)
        /\ \A i \in 1..n : attempts'[k][i] = attempts[k][i]
        /\ attempts'[k][n + 1] = Row
    <2>1. attempts'[k] = Append(attempts[k], Row)
      BY <1>1, <1>2, <1>5
    <2>2. attempts[k] \in Seq(RowRecords) /\ Row \in RowRecords
      BY <1>2, RowsOf, RowIs
    <2> QED BY <1>6, <2>1, <2>2, AppendProperties, LenProperties
  <1>8. \A c \in CaseNumbers : c # k => attempts'[c] = attempts[c]
    BY <1>1, <1>2, <1>5
  <1>9. attempts' \in [CaseNumbers -> Seq(RowRecords)]
    <2>1. attempts' = [attempts EXCEPT ![k] = attempts'[k]]
      BY <1>1, <1>2, <1>5
    <2> QED BY <1>2, <1>7, <2>1
  <1>10. \A c \in CaseNumbers :
           /\ TerminalRows(c)' = TerminalRows(c)
           /\ \A i \in TerminalRows(c) : attempts'[c][i] = attempts[c][i]
    <2>1. TerminalRows(k)' = TerminalRows(k)
      BY <1>6, <1>7, RowIs DEF TerminalRows
    <2>2. \A i \in TerminalRows(k) : attempts'[k][i] = attempts[k][i]
      BY <1>6, <1>7 DEF TerminalRows
    <2> QED BY <1>8, <2>1, <2>2 DEF TerminalRows
  <1>11. /\ HasLatest' /\ LatestOutcomes' = LatestOutcomes
         /\ \A c \in CaseNumbers : LatestOutcome(c)' = LatestOutcome(c)
    BY <1>2, <1>10, LatestStands
  <1>12. \A c \in CaseNumbers : \A i \in Rows(c, "running")' : c = k /\ i = n + 1
    <2>1. \A c \in CaseNumbers : Rows(c, "running") = {}
      BY <1>1, <1>2 DEF OpenRowIsWorkedOn
    <2>2. \A c \in CaseNumbers : c # k => Rows(c, "running")' = {}
      BY <1>8, <2>1 DEF Rows
    <2>3. \A i \in Rows(k, "running")' : i = n + 1
      BY <1>6, <1>7, <2>1 DEF Rows
    <2> QED BY <2>2, <2>3
  <1>13. RowsBacked'
    <2> SUFFICES ASSUME NEW c \in CaseNumbers, NEW i \in DOMAIN attempts'[c]
                 PROVE  IF attempts'[c][i].status = "terminal"
                        THEN Backed(attempts[c][i], <<c, i>>)'
                        ELSE attempts'[c][i].srcdiff = 0 /\ attempts'[c][i].srcmove = 0
      BY DEF RowsBacked
    <2>1. CASE c = k /\ i = n + 1
      BY <1>7, <2>1, RowIs
    <2>2. CASE ~(c = k /\ i = n + 1)
      <3>1. i \in DOMAIN attempts[c] /\ attempts'[c][i] = attempts[c][i]
        BY <1>6, <1>7, <1>8, <2>2
      <3>2. PICK row : row = attempts[c][i]
        OBVIOUS
      <3>3. row.status = "terminal" => Backed(row, <<c, i>>)'
        BY <1>1, <1>2, <1>3, <3>1, <3>2, BackedStands DEF RowsBacked
      <3>4. row.status # "terminal" => row.srcdiff = 0 /\ row.srcmove = 0
        BY <1>2, <3>1, <3>2 DEF RowsBacked
      <3>5. attempts'[c][i] = row
        BY <3>1, <3>2
      <3> QED BY <3>3, <3>4, <3>5 DEF Backed, Unannotated
    <2> QED BY <2>1, <2>2
  <1>14. /\ runner' \in RunnerRecords /\ runner'.at = "srcdiff" /\ runner'.exit = runner.exit
         /\ runner'.build = runner.build
         /\ runner'.mode = runner.mode /\ runner'.case = k /\ runner'.dir = 0
         /\ runner'.record = Row
    BY <1>1, <1>2, <1>5, RowIs DEF RunnerRecords, Labels
  <1>15. Kinds'
    BY <1>1, <1>2, <1>9, <1>14 DEF Kinds
  <1>16. Placed'
    BY <1>1, <1>2, <1>4, <1>14 DEF Placed, Working, Reviewing
  <1>17. AtWork'
    <2>1. LatestOutcome(k) \in RetryableFailures \cup {NoOutcome}
      BY <1>1, <1>5 DEF Due, ShouldRetry, LatestOutcome
    <2>2. CaseOpen'
      BY <1>7, <1>11, <1>14, <2>1 DEF CaseOpen
    <2>3. Row = [Row EXCEPT !.srcdiff = 0]
      BY RowIs DEF RowRecords
    <2>4. AtPlace'
      BY <1>14, <2>3 DEF AtPlace
    <2> QED BY <1>14, <2>2, <2>4, RowIs DEF AtWork
  <1>18. ToRecover'
    BY <1>14 DEF ToRecover
  <1>19. OpenRowIsWorkedOn'
    <2>1. /\ runner'.case = k /\ Len(attempts'[k]) = n + 1
          /\ runner'.at \in {"srcdiff", "hit", "semantic", "srcmove", "finish"}
      BY <1>7, <1>14
    <2> QED BY <1>12, <2>1 DEF OpenRowIsWorkedOn
  <1>20. CompletedIsWhole' /\ ReportsAddUp'
    BY <1>1, <1>2, <1>14 DEF Placed, CompletedIsWhole, ReportsAddUp
  <1>21. ClosedKept
    BY <1>6, <1>7, <1>8 DEF ClosedKept
  <1> QED BY <1>3, <1>11, <1>13, <1>15, <1>16, <1>17, <1>18, <1>19, <1>20, <1>21, Together

-----------------------------------------------------------------------------
(* A case is finished. *)

\* Nothing was finished for good that may not be tried again, and an outcome
\* comes of it.
LEMMA FinishKeeps ==
    ASSUME IInv, Finish
    PROVE  /\ IInv' /\ ToolsKept /\ ClosedKept
           /\ \E c \in CaseNumbers, o \in Outcomes :
                 /\ LatestOutcome(c) \in RetryableFailures \cup {NoOutcome}
                 /\ LatestOutcomes' = [LatestOutcomes EXCEPT ![c] = o]
           /\ journal.status = "running"
  <1>1. /\ runner.at = "finish" /\ runner' = NextCase
        /\ attempts[runner.case][Len(attempts[runner.case])].status = "running"
        /\ attempts' = [attempts EXCEPT
              ![runner.case][Len(attempts[runner.case])] =
                  [runner.record EXCEPT !.status = "terminal"]]
        /\ UNCHANGED <<tools, journal, cache, csv, summary, installed>>
    BY DEF Finish, Stays
  <1>2. /\ Kinds /\ Placed /\ RowsBacked /\ HasLatest /\ CompletedIsWhole /\ OpenRowIsWorkedOn
        /\ tools \in Seq(DirectoryRecords) /\ runner \in RunnerRecords /\ AtWork
        /\ attempts \in [CaseNumbers -> Seq(RowRecords)]
    BY Parts
  <1>3. ToolsKept /\ Directories' = Directories
    BY <1>1, <1>2, Untouched
  <1>4. CaseOpen /\ runner.record \in RowRecords /\ Backed(runner.record, Key)
    BY <1>1, <1>2 DEF AtWork, AtPlace, Working
  <1>5. PICK k \in CaseNumbers : k = runner.case
    BY <1>4 DEF CaseOpen
  <1>6. PICK n \in Nat : /\ n = Len(attempts[k]) /\ DOMAIN attempts[k] = 1..n /\ n > 0
                         /\ Key = <<k, n>> /\ attempts[k][n] = Row
                         /\ attempts[k] \in Seq(RowRecords)
                         /\ TerminalRows(k) \subseteq 1..n
    <2>1. /\ attempts[k] \in Seq(RowRecords) /\ Len(attempts[k]) \in Nat
          /\ DOMAIN attempts[k] = 1..Len(attempts[k])
      BY <1>2, RowsOf
    <2>2. Len(attempts[k]) > 0 /\ attempts[k][Len(attempts[k])] = Row
      BY <1>4, <1>5 DEF CaseOpen
    <2> QED BY <1>5, <2>1, <2>2 DEF Key, TerminalRows
  <1>7. PICK old \in RowRecords : old = runner.record
    BY <1>4
  <1> DEFINE new == [old EXCEPT !.status = "terminal"]
  <1>8. /\ new \in RowRecords /\ new.status = "terminal" /\ new.outcome = old.outcome
        /\ new.srcdiff = old.srcdiff /\ new.srcmove = old.srcmove /\ new.hit = old.hit
        /\ new.completed = old.completed /\ new.annotated = old.annotated
    BY DEF RowRecords
  <1>9. attempts' = [attempts EXCEPT ![k] = [attempts[k] EXCEPT ![n] = new]]
    BY <1>1, <1>2, <1>5, <1>6, <1>7
  <1> HIDE DEF new
  <1>10. /\ attempts'[k] \in Seq(RowRecords) /\ Len(attempts'[k]) = n
         /\ DOMAIN attempts'[k] = 1..n /\ attempts'[k][n] = new
         /\ \A i \in 1..n : i # n => attempts'[k][i] = attempts[k][i]
    <2>1. attempts'[k] = [attempts[k] EXCEPT ![n] = new] /\ n \in 1..n
      BY <1>2, <1>6, <1>9
    <2>2. /\ attempts'[k] \in Seq(RowRecords) /\ Len(attempts'[k]) = n
          /\ \A i \in 1..n : attempts'[k][i] = IF i = n THEN new ELSE attempts[k][i]
      BY <1>6, <1>8, <2>1, ExceptSeq
    <2> QED BY <2>1, <2>2, LenProperties
  <1>11. \A c \in CaseNumbers : c # k => attempts'[c] = attempts[c]
    BY <1>2, <1>9
  <1>12. attempts' \in [CaseNumbers -> Seq(RowRecords)]
    <2>1. attempts' = [attempts EXCEPT ![k] = attempts'[k]]
      BY <1>2, <1>9
    <2> QED BY <1>2, <1>10, <2>1
  <1>13. /\ TerminalRows(k)' = TerminalRows(k) \cup {n}
         /\ \A i \in TerminalRows(k) : i <= n
         /\ \A c \in CaseNumbers : c # k => TerminalRows(c)' = TerminalRows(c)
    <2>1. n \notin TerminalRows(k)
      BY <1>6, RowIs DEF TerminalRows
    <2>2. TerminalRows(k)' = TerminalRows(k) \cup {n}
      BY <1>6, <1>8, <1>10, <2>1 DEF TerminalRows
    <2>3. \A c \in CaseNumbers : c # k => TerminalRows(c)' = TerminalRows(c)
      BY <1>11 DEF TerminalRows
    <2> QED BY <1>6, <2>2, <2>3
  <1>14. HasLatest'
    <2>1. \A j \in TerminalRows(k)' : n >= j
      BY <1>6, <1>13
    <2>2. \A c \in CaseNumbers : c # k => (TerminalRows(c)' # {} =>
             \E i \in TerminalRows(c)' : \A j \in TerminalRows(c)' : i >= j)
      BY <1>2, <1>13 DEF HasLatest
    <2>3. \E i \in TerminalRows(k)' : \A j \in TerminalRows(k)' : i >= j
      BY <1>13, <2>1
    <2> QED BY <2>2, <2>3 DEF HasLatest
  <1>15. \A c \in CaseNumbers : c # k => LatestOutcome(c)' = LatestOutcome(c)
    BY <1>2, <1>11, <1>13, <1>14, SameLatest
  <1>16. LatestOutcome(k)' = old.outcome
    <2>1. IsLatest(k)'
      BY <1>14, LatestFollows
    <2>2. LatestTerminal(k)' \in TerminalRows(k)' /\ LatestTerminal(k)' >= n
      BY <1>13, <2>1 DEF IsLatest
    <2>3. LatestTerminal(k)' = n
      BY <1>6, <1>13, <2>2
    <2>4. LatestRow(k)' = new
      BY <1>10, <2>3 DEF LatestRow
    <2> QED BY <1>6, <1>8, <2>3, <2>4 DEF LatestOutcome
  <1>17. LatestOutcomes' = [LatestOutcomes EXCEPT ![k] = old.outcome]
    <2>1. LatestOutcomes' = [c \in CaseNumbers |-> IF c = k THEN old.outcome
                                                  ELSE LatestOutcome(c)]
      BY <1>15, <1>16 DEF LatestOutcomes
    <2> QED BY <2>1 DEF LatestOutcomes
  <1>18. old.outcome \in Outcomes /\ LatestOutcome(k) \in RetryableFailures \cup {NoOutcome}
    BY <1>4, <1>5, <1>7 DEF Backed, CaseOpen
  <1>19. Backed(new, <<k, n>>)'
    <2>1. Backed(new, <<k, n>>)
      BY <1>4, <1>6, <1>7, <1>8 DEF Backed, Unannotated
    <2> QED BY <1>1, <1>3, <2>1, BackedStands
  <1>20. RowsBacked'
    <2> SUFFICES ASSUME NEW c \in CaseNumbers, NEW i \in DOMAIN attempts'[c]
                 PROVE  IF attempts'[c][i].status = "terminal"
                        THEN Backed(attempts[c][i], <<c, i>>)'
                        ELSE attempts'[c][i].srcdiff = 0 /\ attempts'[c][i].srcmove = 0
      BY DEF RowsBacked
    <2>1. CASE c = k /\ i = n
      BY <1>8, <1>10, <1>19, <2>1 DEF Backed, Unannotated
    <2>2. CASE ~(c = k /\ i = n)
      <3>1. i \in DOMAIN attempts[c] /\ attempts'[c][i] = attempts[c][i]
        BY <1>6, <1>10, <1>11, <2>2
      <3>2. PICK row : row = attempts[c][i]
        OBVIOUS
      <3>3. row.status = "terminal" => Backed(row, <<c, i>>)'
        BY <1>1, <1>2, <1>3, <3>1, <3>2, BackedStands DEF RowsBacked
      <3>4. row.status # "terminal" => row.srcdiff = 0 /\ row.srcmove = 0
        BY <1>2, <3>1, <3>2 DEF RowsBacked
      <3>5. attempts'[c][i] = row
        BY <3>1, <3>2
      <3> QED BY <3>3, <3>4, <3>5 DEF Backed, Unannotated
    <2> QED BY <2>1, <2>2
  <1>21. \A c \in CaseNumbers : Rows(c, "running")' = {}
    <2>1. \A c \in CaseNumbers : \A i \in Rows(c, "running") : c = k /\ i = n
      BY <1>1, <1>2, <1>5, <1>6 DEF OpenRowIsWorkedOn
    <2>2. \A c \in CaseNumbers : c # k => Rows(c, "running")' = {}
      BY <1>11, <2>1 DEF Rows
    <2>3. Rows(k, "running")' = {}
      BY <1>6, <1>8, <1>10, <2>1 DEF Rows
    <2> QED BY <2>2, <2>3
  <1>22. /\ runner' \in RunnerRecords /\ runner'.at = "case" /\ runner'.exit = runner.exit
         /\ runner'.build = runner.build
         /\ runner'.mode = runner.mode /\ runner'.case = runner.case + 1 /\ runner.case \in Nat
    <2>1. /\ runner.case \in Nat /\ runner.case + 1 \in Nat /\ runner.exit \in Exits
          /\ "case" \in Labels /\ 0 \in Nat /\ NoOutcome \in RowRecords \cup {NoOutcome}
      BY <1>2 DEF RunnerRecords, Labels
    <2>2. runner' = [runner EXCEPT !.at = "case", !.case = runner.case + 1, !.dir = 0,
                                   !.record = NoOutcome]
      BY <1>1, <1>2 DEF NextCase, RunnerRecords
    <2>3. PICK next \in Nat : next = runner.case + 1
      BY <2>1
    <2>4. runner' = [runner EXCEPT !.at = "case", !.case = next, !.dir = 0,
                                   !.record = NoOutcome]
      BY <2>2, <2>3
    <2>5. /\ runner' \in RunnerRecords /\ runner'.at = "case" /\ runner'.exit = runner.exit
          /\ runner'.build = runner.build /\ runner'.mode = runner.mode /\ runner'.case = next
      BY <1>2, <2>1, <2>4 DEF RunnerRecords
    <2> QED BY <2>1, <2>3, <2>5
  <1>23. Kinds'
    BY <1>1, <1>2, <1>12, <1>22 DEF Kinds
  <1>24. Placed'
    BY <1>1, <1>2, <1>22 DEF Placed, Working, Reviewing
  <1>25. ToRecover' /\ AtWork'
    BY <1>22 DEF ToRecover, AtWork, Working
  <1>26. OpenRowIsWorkedOn'
    BY <1>21 DEF OpenRowIsWorkedOn
  <1>27. journal.status = "running"
    BY <1>1, <1>2 DEF Placed, Working, Reviewing
  <1>28. CompletedIsWhole' /\ ReportsAddUp'
    BY <1>1, <1>2, <1>22, <1>27 DEF Placed, CompletedIsWhole, ReportsAddUp
  <1>29. ClosedKept
    BY <1>1, <1>6, <1>10, <1>11, RowIs DEF ClosedKept
  <1> QED BY <1>3, <1>14, <1>17, <1>18, <1>20, <1>23, <1>24, <1>25, <1>26, <1>27, <1>28, <1>29,
             Together

-----------------------------------------------------------------------------
(* The end of a run. *)

LEMMA CasesAreFinite ==
    IsFiniteSet(CaseNumbers) /\ Cardinality(CaseNumbers) = CaseCount
  <1>1. CaseCount \in Nat /\ CaseCount # 0 /\ CaseCount \in Int /\ 1 \in Int
    BY ExecutionAssumption
  <1>2. /\ IsFiniteSet(1..CaseCount)
        /\ Cardinality(1..CaseCount) = IF 1 > CaseCount THEN 0 ELSE CaseCount - 1 + 1
    BY <1>1, FS_Interval
  <1> QED BY <1>1, <1>2 DEF CaseNumbers

\* The run is marked completed only when every case has a result.
LEMMA MarkCompletedKeeps ==
    ASSUME IInv, MarkCompleted
    PROVE  /\ IInv' /\ ToolsKept /\ LatestOutcomes' = LatestOutcomes
           /\ \/ UNCHANGED journal
              \/ /\ journal' = [journal EXCEPT !.status = "completed"]
                 /\ \A c \in CaseNumbers : TerminalRows(c) # {}
  <1>1. /\ runner.at = "case" /\ UNCHANGED <<tools, attempts, cache, csv, summary, installed>>
        /\ IF CompletedCaseCount = CaseCount
           THEN /\ journal' = [journal EXCEPT !.status = "completed"]
                /\ runner' = [runner EXCEPT !.at = "csv"]
           ELSE runner' = Down("failed") /\ UNCHANGED journal
    BY DEF MarkCompleted, Goto, Stays
  <1>2. /\ Kinds /\ Placed /\ OpenRowIsWorkedOn /\ tools \in Seq(DirectoryRecords)
        /\ runner \in RunnerRecords /\ journal \in Journals
    BY Parts
  <1>3. ToolsKept
    BY <1>1, <1>2, Untouched
  <1>4. CASE CompletedCaseCount = CaseCount
    <2>1. /\ journal' = [journal EXCEPT !.status = "completed"]
          /\ runner' = [runner EXCEPT !.at = "csv"]
      BY <1>1, <1>4
    <2>2. \A c \in CaseNumbers : TerminalRows(c) # {}
      <3> DEFINE done == {c \in CaseNumbers : TerminalRows(c) # {}}
      <3>1. Cardinality(CaseNumbers) = Cardinality(done)
        BY <1>4, CasesAreFinite DEF CompletedCaseCount
      <3>2. done \in SUBSET CaseNumbers
        OBVIOUS
      <3> HIDE DEF done
      <3>3. CaseNumbers = done
        BY <3>1, <3>2, CasesAreFinite, FS_Subset
      <3> QED BY <3>3 DEF done
    <2>3. /\ journal' \in Journals /\ journal'.status = "completed"
          /\ journal'.build = journal.build /\ journal'.made = journal.made
          /\ journal'.diagnostics = journal.diagnostics
      BY <1>2, <2>1 DEF Journals
    <2>4. /\ RowsBacked' /\ HasLatest' /\ LatestOutcomes' = LatestOutcomes
          /\ \A c \in CaseNumbers : /\ TerminalRows(c)' = TerminalRows(c)
                                    /\ Rows(c, "running")' = Rows(c, "running")
      BY <1>1, <1>3, <2>3, RowsStay
    <2>5. /\ runner' \in RunnerRecords /\ runner'.at = "csv" /\ runner'.exit = runner.exit
          /\ runner'.build = runner.build /\ runner'.mode = runner.mode
      BY <1>2, <2>1 DEF RunnerRecords, Labels
    <2>6. Kinds'
      BY <1>1, <1>2, <2>3, <2>5 DEF Kinds
    <2>7. Placed'
      BY <1>1, <1>2, <2>3, <2>5 DEF Placed, Working, Reviewing
    <2>8. ToRecover' /\ AtWork'
      BY <2>5 DEF ToRecover, AtWork, Working
    <2>9. \A c \in CaseNumbers : Rows(c, "running") = {}
      BY <1>1, <1>2 DEF OpenRowIsWorkedOn
    <2>10. OpenRowIsWorkedOn' /\ CompletedIsWhole'
      BY <2>2, <2>4, <2>9 DEF OpenRowIsWorkedOn, CompletedIsWhole
    <2>11. ReportsAddUp'
      BY <1>1, <1>2, <2>5 DEF Placed, ReportsAddUp
    <2> QED BY <1>3, <2>1, <2>2, <2>4, <2>6, <2>7, <2>8, <2>10, <2>11, Together
  <1>5. CASE CompletedCaseCount # CaseCount
    <2>1. runner' = Down("failed") /\ UNCHANGED <<durable, installed>> /\ UNCHANGED journal
      BY <1>1, <1>5 DEF durable
    <2>2. IInv'
      BY <1>3, <2>1, GoneDown
    <2>3. LatestOutcomes' = LatestOutcomes
      BY <1>1, <1>3, <2>1, Still
    <2> QED BY <1>3, <2>1, <2>2, <2>3
  <1> QED BY <1>4, <1>5

LEMMA WriteCsvKeeps ==
    ASSUME IInv, WriteCsv
    PROVE  IInv' /\ ToolsKept
  <1>1. /\ runner.at = "csv" /\ csv' = LatestOutcomes
        /\ runner' = [runner EXCEPT !.at = "summary"]
        /\ UNCHANGED <<tools, journal, attempts, cache, summary, installed>>
    BY DEF WriteCsv, Goto, Stays
  <1>2. /\ Kinds /\ Placed /\ RowsBacked /\ HasLatest /\ OpenRowIsWorkedOn
        /\ tools \in Seq(DirectoryRecords)
        /\ runner \in RunnerRecords /\ attempts \in [CaseNumbers -> Seq(RowRecords)]
    BY Parts
  <1>3. ToolsKept
    BY <1>1, <1>2, Untouched
  <1>4. /\ RowsBacked' /\ HasLatest' /\ CompletedIsWhole' /\ LatestOutcomes' = LatestOutcomes
        /\ \A c \in CaseNumbers : Rows(c, "running")' = Rows(c, "running")
    BY <1>1, <1>3, Still
  <1>5. LatestOutcomes \in [CaseNumbers -> Outcomes \cup {NoOutcome}]
    <2>1. \A c \in CaseNumbers : LatestOutcome(c) \in Outcomes \cup {NoOutcome}
      <3> SUFFICES ASSUME NEW c \in CaseNumbers
                   PROVE  LatestOutcome(c) \in Outcomes \cup {NoOutcome}
        OBVIOUS
      <3>1. CASE TerminalRows(c) = {}
        BY <3>1 DEF LatestOutcome, LatestTerminal
      <3>2. CASE TerminalRows(c) # {}
        BY <1>2, <3>2, LatestBacked
      <3> QED BY <3>1, <3>2
    <2> QED BY <2>1 DEF LatestOutcomes
  <1>6. /\ runner' \in RunnerRecords /\ runner'.at = "summary" /\ runner'.exit = runner.exit
        /\ runner'.build = runner.build /\ runner'.mode = runner.mode
    BY <1>1, <1>2 DEF RunnerRecords, Labels
  <1>7. Kinds'
    BY <1>1, <1>2, <1>5, <1>6 DEF Kinds
  <1>8. Placed'
    BY <1>1, <1>2, <1>4, <1>6 DEF Placed, Working, Reviewing
  <1>9. ToRecover' /\ AtWork'
    BY <1>6 DEF ToRecover, AtWork, Working
  <1>10. OpenRowIsWorkedOn'
    BY <1>1, <1>2, <1>4, <1>6 DEF OpenRowIsWorkedOn
  <1>11. ReportsAddUp'
    BY <1>1, <1>2, <1>6 DEF Placed, ReportsAddUp
  <1> QED BY <1>3, <1>4, <1>7, <1>8, <1>9, <1>10, <1>11, Together

\* The cases that are neither failures of srcDiff nor ineligible are those
\* whose row names an attempt of srcMove.
LEMMA EligibleCases ==
    ASSUME IInv, \A c \in CaseNumbers : TerminalRows(c) # {}
    PROVE  /\ SummaryNow.completed = CaseCount
           /\ SummaryNow.eligible = Cardinality({c \in CaseNumbers : LatestRow(c).srcmove # 0})
  <1>1. RowsBacked /\ HasLatest /\ attempts \in [CaseNumbers -> Seq(RowRecords)]
        /\ tools \in Seq(DirectoryRecords)
    BY Parts
  <1>2. \A c \in CaseNumbers :
           /\ LatestOutcome(c) \in Outcomes
           /\ LatestRow(c).srcmove # 0
                 <=> LatestOutcome(c) \notin {"upstream_failure", "srcdiff_semantic_ineligible"}
    <2> SUFFICES ASSUME NEW c \in CaseNumbers
                 PROVE  /\ LatestOutcome(c) \in Outcomes
                        /\ LatestRow(c).srcmove # 0
                              <=> LatestOutcome(c) \notin {"upstream_failure",
                                                           "srcdiff_semantic_ineligible"}
      OBVIOUS
    <2>1. PICK row, key : row = LatestRow(c) /\ key = <<c, LatestTerminal(c)>>
      OBVIOUS
    <2>2. /\ LatestOutcome(c) = row.outcome /\ LatestOutcome(c) \in Outcomes
          /\ Backed(row, key)
      BY <1>1, <2>1, LatestBacked
    <2>3. row.outcome \in {"upstream_failure", "srcdiff_semantic_ineligible"} => row.srcmove = 0
      BY <2>2 DEF Backed
    <2>4. row.outcome \notin {"upstream_failure", "srcdiff_semantic_ineligible"}
             => row.srcmove \in Directories
      BY <2>2 DEF Backed, Made, Outcomes
    <2>5. 0 \notin Directories
      BY <1>1, Dirs
    <2> QED BY <2>1, <2>2, <2>3, <2>4, <2>5
  <1> DEFINE failed == Having({"upstream_failure"})
             ineligible == Having({"srcdiff_semantic_ineligible"})
  <1>3. Having(Outcomes) = CaseNumbers
    BY <1>2 DEF Having
  <1>4. /\ failed \subseteq CaseNumbers /\ ineligible \subseteq CaseNumbers \ failed
        /\ {c \in CaseNumbers : LatestRow(c).srcmove # 0} = (CaseNumbers \ failed) \ ineligible
    BY <1>2 DEF Having
  <1>5. PICK e : e = Cardinality({c \in CaseNumbers : LatestRow(c).srcmove # 0})
    OBVIOUS
  <1>6. e = Cardinality((CaseNumbers \ failed) \ ineligible)
    BY <1>4, <1>5
  <1>7. /\ SummaryNow.completed = CaseCount
        /\ SummaryNow.eligible = CaseCount - Cardinality(failed) - Cardinality(ineligible)
    BY <1>3, CasesAreFinite DEF SummaryNow
  <1> HIDE DEF failed, ineligible
  <1>8. /\ IsFiniteSet(CaseNumbers \ failed)
        /\ Cardinality(CaseNumbers \ failed)
              = Cardinality(CaseNumbers) - Cardinality(CaseNumbers \cap failed)
    BY CasesAreFinite, FS_Difference
  <1>9. Cardinality((CaseNumbers \ failed) \ ineligible)
           = Cardinality(CaseNumbers \ failed)
                - Cardinality((CaseNumbers \ failed) \cap ineligible)
    BY <1>8, FS_Difference
  <1>10. /\ CaseNumbers \cap failed = failed
         /\ (CaseNumbers \ failed) \cap ineligible = ineligible
    BY <1>4
  <1>11. e = CaseCount - Cardinality(failed) - Cardinality(ineligible)
    BY <1>6, <1>8, <1>9, <1>10, CasesAreFinite
  <1> QED BY <1>5, <1>7, <1>11

LEMMA WriteSummaryKeeps ==
    ASSUME IInv, WriteSummary
    PROVE  /\ IInv' /\ ToolsKept /\ journal.status = "completed"
           /\ summary' = summary \/ summary'.outcome = LatestOutcomes
  <1>1. /\ runner.at = "summary"
        /\ UNCHANGED <<tools, journal, attempts, cache, csv, installed>>
        /\ \/ runner' = Down("failed") /\ UNCHANGED summary
           \/ runner' = Down("returned") /\ summary' = SummaryNow
    BY DEF WriteSummary, Stays
  <1>2. /\ Kinds /\ Placed /\ CompletedIsWhole /\ tools \in Seq(DirectoryRecords)
    BY Parts
  <1>3. ToolsKept
    BY <1>1, <1>2, Untouched
  <1>4. /\ RowsBacked' /\ HasLatest' /\ CompletedIsWhole' /\ LatestOutcomes' = LatestOutcomes
        /\ \A c \in CaseNumbers : LatestRow(c)' = LatestRow(c)
    BY <1>1, <1>3, Still
  <1>5. journal.status = "completed" /\ csv = LatestOutcomes
    BY <1>1, <1>2 DEF Placed
  <1>6. \A c \in CaseNumbers : TerminalRows(c) # {}
    BY <1>2, <1>5 DEF CompletedIsWhole
  <1>7. /\ SummaryNow.completed = CaseCount
        /\ SummaryNow.eligible = Cardinality({c \in CaseNumbers : LatestRow(c).srcmove # 0})
    BY <1>6, EligibleCases
  <1>8. SummaryNow.outcome = LatestOutcomes
    BY DEF SummaryNow
  <1>9. {c \in CaseNumbers : LatestRow(c).srcmove # 0}'
           = {c \in CaseNumbers : LatestRow(c).srcmove # 0}
    BY <1>4
  <1>10. CASE runner' = Down("failed") /\ UNCHANGED summary
    <2>1. UNCHANGED <<durable, installed>> /\ runner' = Down("failed")
      BY <1>1, <1>10 DEF durable
    <2>2. IInv'
      BY <1>3, <2>1, GoneDown
    <2> QED BY <1>3, <1>5, <1>10, <2>2
  <1>11. CASE runner' = Down("returned") /\ summary' = SummaryNow
    <2>1. ReportsAddUp'
      BY <1>1, <1>4, <1>5, <1>7, <1>8, <1>9, <1>11 DEF ReportsAddUp
    <2>2. runner' \in RunnerRecords /\ runner'.at = "down" /\ runner'.exit = "returned"
      BY <1>11, DownIs DEF Exits
    <2>3. Kinds'
      BY <1>1, <1>2, <2>2 DEF Kinds
    <2>4. Placed'
      BY <1>1, <1>2, <2>2 DEF Placed, Working, Reviewing
    <2>5. ToRecover' /\ AtWork' /\ OpenRowIsWorkedOn'
      BY <2>2 DEF ToRecover, AtWork, Working, OpenRowIsWorkedOn
    <2>6. IInv'
      BY <1>4, <2>1, <2>3, <2>4, <2>5, Together
    <2> QED BY <1>3, <1>5, <1>8, <1>11, <2>6
  <1> QED BY <1>1, <1>10, <1>11

-----------------------------------------------------------------------------
(* All steps together. *)

LEMMA InitIInv ==
    ASSUME Init
    PROVE  IInv
  <1>1. /\ tools = << >> /\ journal = NoJournal /\ installed = 0
        /\ attempts = [c \in CaseNumbers |-> << >>]
        /\ cache = [c \in CaseNumbers |-> Unbuilt]
        /\ csv = [c \in CaseNumbers |-> NoOutcome]
        /\ runner = Down("none")
    BY DEF Init, NoSummary
  <1>2. /\ runner \in RunnerRecords /\ runner.at = "down" /\ runner.exit = "none"
    BY <1>1, DownIs DEF Exits
  <1>3. journal \in Journals /\ journal.made = "none" /\ journal.status = "running"
    BY <1>1 DEF NoJournal, Journals
  <1>4. \A c \in CaseNumbers : attempts[c] = << >>
    BY <1>1
  <1>5. attempts \in [CaseNumbers -> Seq(RowRecords)] /\ tools \in Seq(DirectoryRecords)
    BY <1>1, EmptySeq
  <1>6. Kinds
    BY <1>1, <1>2, <1>3, <1>5 DEF Kinds
  <1>7. RowsBacked /\ HasLatest
    BY <1>4 DEF RowsBacked, HasLatest, TerminalRows
  <1>8. Placed
    BY <1>2, <1>3, <1>4 DEF Placed, Working, Reviewing
  <1>9. ToRecover /\ AtWork /\ OpenRowIsWorkedOn
    BY <1>2 DEF ToRecover, AtWork, Working, OpenRowIsWorkedOn
  <1>10. CompletedIsWhole /\ ReportsAddUp
    BY <1>2, <1>3 DEF CompletedIsWhole, ReportsAddUp
  <1> QED BY <1>6, <1>7, <1>8, <1>9, <1>10 DEF IInv

LEMMA RunnerStepKeeps ==
    ASSUME IInv, RunnerStep
    PROVE  IInv' /\ ToolsKept
  <1>1. ASSUME NEW tool \in Stages, MakeAttempt(tool)
        PROVE  IInv' /\ ToolsKept
    BY <1>1, MakeAttemptKeeps
  <1>2. CASE CreateJournal \/ InsertMetadata \/ RecoverTools \/ RecoverRunning \/ MarkRunning
    BY <1>2, CreateJournalKeeps, InsertMetadataKeeps, RecoverToolsKeeps, RecoverRunningKeeps,
       MarkRunningKeeps
  <1>3. CASE Reuse \/ Begin \/ RestoreCached \/ SealHit
    BY <1>3, ReuseKeeps, BeginKeeps, RestoreCachedKeeps, SealHitKeeps
  <1>4. CASE StartTool \/ NoteStarted \/ Seal \/ UnlinkStarted
    BY <1>4, StartToolKeeps, NoteStartedKeeps, SealKeeps, UnlinkStartedKeeps
  <1>5. CASE AfterSrcdiff \/ CheckSemantics \/ Score \/ Finish
    BY <1>5, AfterSrcdiffKeeps, CheckSemanticsKeeps, ScoreKeeps, FinishKeeps
  <1>6. CASE MarkCompleted \/ WriteCsv \/ WriteSummary
    BY <1>6, MarkCompletedKeeps, WriteCsvKeeps, WriteSummaryKeeps
  <1> QED BY <1>1, <1>2, <1>3, <1>4, <1>5, <1>6 DEF RunnerStep

LEMMA StepIInv ==
    ASSUME IInv, [Next]_vars
    PROVE  IInv' /\ ToolsKept
  <1>1. ASSUME NEW mode \in Modes, Launch(mode)
        PROVE  IInv' /\ ToolsKept
    BY <1>1, LaunchKeeps
  <1>2. CASE RunnerStep
    BY <1>2, RunnerStepKeeps
  <1>3. CASE SomeToolEnds \/ Interrupt \/ Crash
    BY <1>3, SomeToolEndsKeeps, InterruptKeeps, CrashKeeps
  <1>4. CASE Upgrade \/ MangleEntry \/ UNCHANGED vars
    BY <1>4, AroundKeeps
  <1> QED BY <1>1, <1>2, <1>3, <1>4 DEF Next

LEMMA Invariant == Spec => []IInv
  <1>1. Init => IInv
    BY InitIInv
  <1>2. IInv /\ [Next]_vars => IInv'
    BY StepIInv
  <1> QED BY <1>1, <1>2, PTL DEF Spec

-----------------------------------------------------------------------------
(* The journal is true. *)

LEMMA RowsAdmitted ==
    ASSUME IInv
    PROVE  TypeOK
  <1>1. /\ Kinds /\ RowsBacked /\ attempts \in [CaseNumbers -> Seq(RowRecords)]
        /\ tools \in Seq(DirectoryRecords)
    BY Parts
  <1>2. Len(tools) \in Nat /\ Directories = 1..Len(tools)
    BY <1>1, Dirs
  <1>3. \A c \in CaseNumbers : \A i \in DOMAIN attempts[c] : attempts[c][i] \in AttemptRows
    <2> SUFFICES ASSUME NEW c \in CaseNumbers, NEW i \in DOMAIN attempts[c]
                 PROVE  attempts[c][i] \in AttemptRows
      OBVIOUS
    <2>1. PICK row \in RowRecords : row = attempts[c][i]
      BY <1>1, RowsOf
    <2>2. /\ row.status = "terminal" => Backed(row, <<c, i>>)
          /\ row.status # "terminal" => row.srcdiff = 0 /\ row.srcmove = 0
      BY <1>1, <2>1 DEF RowsBacked
    <2>3. row.status = "terminal" =>
             /\ row.outcome \in Outcomes /\ row.srcdiff \in Directories
             /\ row.srcmove \in Directories \cup {0}
      BY <2>2 DEF Backed, Made, Outcomes
    <2>4. row.srcdiff \in 0..Len(tools) /\ row.srcmove \in 0..Len(tools)
      BY <1>2, <2>2, <2>3
    <2>5. row.status = "terminal" => row.outcome # NoOutcome
      BY <2>3, ExecutionAssumption
    <2> QED BY <2>1, <2>4, <2>5 DEF AttemptRows, RowRecords
  <1> QED BY <1>1, <1>3 DEF TypeOK, Kinds

LEMMA DiskTold ==
    ASSUME IInv
    PROVE  JournalTellsTheDisk
  <1>1. RowsBacked
    BY Parts
  <1> SUFFICES ASSUME NEW c \in CaseNumbers, NEW i \in TerminalRows(c)
               PROVE  LET row == attempts[c][i]
                          Is(d, tool, verdicts) ==
                              /\ d \in Directories
                              /\ tools[d].key = <<c, i>> /\ tools[d].stage = tool
                              /\ tools[d].seal \in verdicts
                      IN  CASE row.outcome = "upstream_failure" ->
                                  /\ Is(row.srcdiff, "srcdiff", {"rejected"})
                                  /\ row.srcmove = 0 /\ row.completed = 0
                            [] row.outcome = "srcdiff_semantic_ineligible" ->
                                  /\ Is(row.srcdiff, "srcdiff", {"admitted"})
                                  /\ row.srcmove = 0 /\ row.completed = 0
                            [] row.outcome = "srcmove_tool_failure" ->
                                  /\ Is(row.srcdiff, "srcdiff", {"admitted"})
                                  /\ Is(row.srcmove, "srcmove",
                                        IF journal.diagnostics /\ row.annotated # "whole"
                                        THEN {"rejected", "admitted"} ELSE {"rejected"})
                                  /\ row.completed = 0
                            [] OTHER -> /\ Is(row.srcdiff, "srcdiff", {"admitted"})
                                        /\ Is(row.srcmove, "srcmove", {"admitted"})
                                        /\ row.completed = 1
    BY DEF JournalTellsTheDisk
  <1>2. PICK row, key : row = attempts[c][i] /\ key = <<c, i>>
    OBVIOUS
  <1>3. Backed(row, key)
    BY <1>1, <1>2 DEF RowsBacked, TerminalRows
  <1>4. /\ row.outcome \in Outcomes
        /\ row.outcome = "upstream_failure" =>
              /\ Made(row.srcdiff, "srcdiff", key, "rejected")
              /\ row.srcmove = 0 /\ row.completed = 0
        /\ row.outcome = "srcdiff_semantic_ineligible" =>
              /\ Made(row.srcdiff, "srcdiff", key, "admitted")
              /\ row.srcmove = 0 /\ row.completed = 0
        /\ row.outcome = "srcmove_tool_failure" =>
              /\ Made(row.srcdiff, "srcdiff", key, "admitted")
              /\ \/ Made(row.srcmove, "srcmove", key, "rejected")
                 \/ Made(row.srcmove, "srcmove", key, "admitted") /\ Unannotated(row)
              /\ row.completed = 0
        /\ row.outcome \notin {"upstream_failure", "srcdiff_semantic_ineligible",
                               "srcmove_tool_failure"} =>
              /\ Made(row.srcdiff, "srcdiff", key, "admitted")
              /\ Made(row.srcmove, "srcmove", key, "admitted")
              /\ row.completed = 1
    BY <1>3 DEF Backed, Outcomes, ScoringOutcomes
  <1> QED BY <1>2, <1>4 DEF Made, Unannotated

LEMMA BuildTold ==
    ASSUME IInv
    PROVE  OneBuildPerRun
  <1>1. RowsBacked
    BY Parts
  <1> SUFFICES ASSUME NEW c \in CaseNumbers, NEW i \in TerminalRows(c),
                      NEW d \in {attempts[c][i].srcdiff, attempts[c][i].srcmove} \ {0}
               PROVE  \/ d = attempts[c][i].srcdiff /\ attempts[c][i].hit
                      \/ tools[d].build = journal.build
    BY DEF OneBuildPerRun
  <1>2. PICK row, key : row = attempts[c][i] /\ key = <<c, i>>
    OBVIOUS
  <1>3. Backed(row, key)
    BY <1>1, <1>2 DEF RowsBacked, TerminalRows
  <1> QED BY <1>2, <1>3 DEF Backed

\* The journal is true at all times: its rows are well formed, tell what is on disk (a
\* failure of srcMove being a rejected attempt, or under a review one that was admitted
\* and has no annotated XML) and rest on attempts of the build of the run; while a process
\* works on its cases only the row under way is open; completed means whole; and the
\* reports of a run that returned agree with each other and with the journal
\* (finish_case, _execute_case, complete, write_summary).
THEOREM JournalAlwaysTrue == Spec => []JournalIsTrue
  <1>1. IInv => JournalIsTrue
    BY RowsAdmitted, DiskTold, BuildTold, Parts DEF JournalIsTrue
  <1> QED BY <1>1, Invariant, PTL

-----------------------------------------------------------------------------
(* Evidence is kept. *)

LEMMA SealsUntouched ==
    ASSUME \A d \in Directories : tools'[d] = tools[d]
    PROVE  OnlyOpenSealed
  BY DEF OnlyOpenSealed

LEMMA EvidenceStays ==
    ASSUME IInv, [Next]_vars
    PROVE  OnlyOpenSealed /\ ClosedKept
  <1>1. ASSUME UNCHANGED attempts
        PROVE  ClosedKept
    BY <1>1 DEF ClosedKept
  <1>2. ASSUME UNCHANGED tools
        PROVE  OnlyOpenSealed
    BY <1>2 DEF OnlyOpenSealed
  <1>3. ASSUME NEW mode \in Modes, Launch(mode)
        PROVE  OnlyOpenSealed /\ ClosedKept
    BY <1>1, <1>2, <1>3 DEF Launch, durable
  <1>4. ASSUME NEW tool \in Stages, MakeAttempt(tool)
        PROVE  OnlyOpenSealed /\ ClosedKept
    <2>1. UNCHANGED attempts
      BY <1>4 DEF MakeAttempt, durable
    <2> QED BY <1>1, <1>4, <2>1, MakeAttemptKeeps, SealsUntouched
  <1>5. CASE CreateJournal \/ InsertMetadata \/ MarkRunning
    BY <1>1, <1>2, <1>5 DEF CreateJournal, InsertMetadata, MarkRunning
  <1>6. CASE RecoverRunning
    BY <1>2, <1>6, RecoverRunningKeeps DEF RecoverRunning
  <1>7. CASE Begin
    BY <1>2, <1>7, BeginKeeps DEF Begin
  <1>8. CASE Finish
    BY <1>2, <1>8, FinishKeeps DEF Finish
  <1>9. CASE RecoverTools
    BY <1>1, <1>9, RecoverToolsKeeps DEF RecoverTools, durable
  <1>10. CASE RestoreCached
    <2>1. UNCHANGED attempts
      BY <1>10 DEF RestoreCached, durable
    <2> QED BY <1>1, <1>10, <2>1, RestoreCachedKeeps, SealsUntouched
  <1>11. CASE SealHit
    BY <1>1, <1>11, SealHitKeeps DEF SealHit, durable
  <1>12. CASE Seal
    BY <1>1, <1>12, SealKeeps DEF Seal, durable
  <1>13. CASE StartTool \/ NoteStarted \/ UnlinkStarted
    BY <1>1, <1>13, StartToolKeeps, NoteStartedKeeps, UnlinkStartedKeeps
       DEF StartTool, NoteStarted, UnlinkStarted, durable
  <1>14. CASE SomeToolEnds
    BY <1>1, <1>14, SomeToolEndsKeeps DEF SomeToolEnds, durable
  <1>15. CASE Interrupt
    BY <1>1, <1>15, InterruptKeeps DEF Interrupt, durable
  <1>16. CASE Reuse \/ AfterSrcdiff \/ CheckSemantics \/ Score
    BY <1>1, <1>2, <1>16 DEF Reuse, AfterSrcdiff, CheckSemantics, Score, durable
  <1>17. CASE MarkCompleted \/ WriteCsv \/ WriteSummary
    BY <1>1, <1>2, <1>17 DEF MarkCompleted, WriteCsv, WriteSummary
  <1>18. CASE Crash \/ Upgrade \/ MangleEntry \/ UNCHANGED vars
    BY <1>1, <1>2, <1>18 DEF Crash, Upgrade, MangleEntry, vars, durable
  <1>19. CASE RunnerStep
    BY <1>4, <1>5, <1>6, <1>7, <1>8, <1>9, <1>10, <1>11, <1>12, <1>13, <1>16, <1>17, <1>19
       DEF RunnerStep
  <1> QED BY <1>3, <1>14, <1>15, <1>18, <1>19 DEF Next

\* Evidence is never touched: a sealed verdict stays, what is admitted is the directory
\* under way, and a row that is no longer running stays as it is, through every recovery,
\* retry, crash and interrupt (recover_interrupted_attempts, recover_running, begin_case).
THEOREM EvidenceAlwaysKept == Spec => EvidenceIsKept
  <1>1. IInv /\ [Next]_vars =>
          [/\ \A d \in Directories : tools'[d].seal # tools[d].seal =>
                 /\ tools[d].seal = "open"
                 /\ tools'[d].seal = "admitted" => d = runner.dir
           /\ \A c \in CaseNumbers : \A i \in DOMAIN attempts[c] :
                 attempts[c][i].status # "running" => attempts'[c][i] = attempts[c][i]]_vars
    <2> SUFFICES ASSUME IInv, [Next]_vars
                 PROVE  /\ \A d \in Directories : tools'[d].seal # tools[d].seal =>
                              /\ tools[d].seal = "open"
                              /\ tools'[d].seal = "admitted" => d = runner.dir
                        /\ \A c \in CaseNumbers : \A i \in DOMAIN attempts[c] :
                              attempts[c][i].status # "running"
                                 => attempts'[c][i] = attempts[c][i]
      OBVIOUS
    <2>1. OnlyOpenSealed /\ ClosedKept
      BY EvidenceStays
    <2> QED BY <2>1 DEF OnlyOpenSealed, ClosedKept
  <1> QED BY <1>1, Invariant, PTL DEF Spec, EvidenceIsKept

-----------------------------------------------------------------------------
(* The abstract results. *)

LEMMA ResultsUnmoved ==
    ASSUME IInv, UNCHANGED <<attempts, summary>>, journal'.status = journal.status
    PROVE  UNCHANGED Results!resultVars
  <1>1. HasLatest /\ attempts \in [CaseNumbers -> Seq(RowRecords)]
    BY Parts
  <1>2. \A c \in CaseNumbers :
              /\ TerminalRows(c)' = TerminalRows(c)
              /\ \A i \in TerminalRows(c) : attempts'[c][i] = attempts[c][i]
    BY RowsUnchanged
  <1>3. LatestOutcomes' = LatestOutcomes
    BY <1>1, <1>2, LatestStands
  <1> QED BY <1>3 DEF Results!resultVars

LEMMA ResultsStep ==
    ASSUME IInv, [Next]_vars
    PROVE  [Results!Next]_(Results!resultVars)
  <1> DEFINE Refined == [Results!Next]_(Results!resultVars)
  <1> SUFFICES Refined
    OBVIOUS
  <1>1. ASSUME UNCHANGED <<journal, attempts, summary>>
        PROVE  Refined
    BY <1>1, ResultsUnmoved
  <1>2. ASSUME NEW mode \in Modes, Launch(mode)
        PROVE  UNCHANGED <<journal, attempts, summary>>
    BY <1>2 DEF Launch, durable
  <1>3. ASSUME NEW tool \in Stages, MakeAttempt(tool)
        PROVE  UNCHANGED <<journal, attempts, summary>>
    BY <1>3 DEF MakeAttempt, durable
  <1>4. CASE CreateJournal \/ InsertMetadata
    <2>1. Placed /\ journal \in Journals
      BY Parts
    <2>2. UNCHANGED <<attempts, summary>> /\ journal'.status = journal.status
      BY <1>4, <2>1 DEF CreateJournal, InsertMetadata, Placed, Journals
    <2> QED BY <2>2, ResultsUnmoved
  <1>5. CASE RecoverRunning \/ Begin
    <2>1. LatestOutcomes' = LatestOutcomes
      BY <1>5, RecoverRunningKeeps, BeginKeeps
    <2>2. UNCHANGED <<journal, summary>>
      BY <1>5 DEF RecoverRunning, Begin
    <2> QED BY <2>1, <2>2 DEF Results!resultVars
  <1>6. CASE MarkRunning
    <2>1. HasLatest /\ attempts \in [CaseNumbers -> Seq(RowRecords)] /\ journal \in Journals
      BY Parts
    <2>2. /\ journal' = [journal EXCEPT !.status = "running"]
          /\ UNCHANGED <<attempts, summary>>
      BY <1>6 DEF MarkRunning
    <2>3. LatestOutcomes' = LatestOutcomes
      BY <2>1, <2>2, RowsUnchanged, LatestStands
    <2>4. journal'.status # "completed"
      BY <2>1, <2>2 DEF Journals
    <2> QED BY <2>2, <2>3, <2>4 DEF Results!Next, Results!Reopen
  <1>7. CASE Finish
    <2>1. PICK c \in CaseNumbers, o \in Outcomes :
             /\ LatestOutcome(c) \in RetryableFailures \cup {NoOutcome}
             /\ LatestOutcomes' = [LatestOutcomes EXCEPT ![c] = o]
      BY <1>7, FinishKeeps
    <2>2. journal.status = "running" /\ UNCHANGED <<journal, summary>>
      BY <1>7, FinishKeeps DEF Finish
    <2>3. LatestOutcomes[c] = LatestOutcome(c)
      BY DEF LatestOutcomes
    <2>4. DOMAIN LatestOutcomes = CaseNumbers
      BY DEF LatestOutcomes
    <2>5. LatestOutcomes'[c] = o
      BY <2>1, <2>4
    <2>6. Results!Settle(c)
      BY <2>1, <2>2, <2>3, <2>5 DEF Results!Settle
    <2> QED BY <2>6 DEF Results!Next
  <1>8. CASE MarkCompleted
    <2>1. UNCHANGED <<attempts, summary>> /\ LatestOutcomes' = LatestOutcomes
      BY <1>8, MarkCompletedKeeps DEF MarkCompleted
    <2>2. CASE UNCHANGED journal
      BY <1>1, <2>1, <2>2
    <2>3. CASE /\ journal' = [journal EXCEPT !.status = "completed"]
               /\ \A c \in CaseNumbers : TerminalRows(c) # {}
      <3>1. /\ RowsBacked /\ HasLatest /\ attempts \in [CaseNumbers -> Seq(RowRecords)]
            /\ journal \in Journals
        BY Parts
      <3>2. \A c \in CaseNumbers : LatestOutcomes[c] # NoOutcome
        BY <2>3, <3>1, LatestBacked, ExecutionAssumption DEF LatestOutcomes
      <3>3. journal'.status = "completed"
        BY <2>3, <3>1 DEF Journals
      <3>4. Results!Complete
        BY <2>1, <3>2, <3>3 DEF Results!Complete
      <3> QED BY <3>4 DEF Results!Next
    <2> QED BY <1>8, <2>2, <2>3, MarkCompletedKeeps
  <1>9. CASE WriteSummary
    <2>1. /\ journal.status = "completed" /\ UNCHANGED <<journal, attempts>>
          /\ summary' = summary \/ summary'.outcome = LatestOutcomes
      BY <1>9, WriteSummaryKeeps DEF WriteSummary
    <2>2. HasLatest /\ attempts \in [CaseNumbers -> Seq(RowRecords)]
      BY Parts
    <2>3. LatestOutcomes' = LatestOutcomes
      BY <2>1, <2>2, RowsUnchanged, LatestStands
    <2>4. CASE summary'.outcome = LatestOutcomes
      <3>1. Results!Report
        BY <2>1, <2>3, <2>4 DEF Results!Report
      <3> QED BY <3>1 DEF Results!Next
    <2>5. CASE summary' = summary
      BY <1>1, <2>1, <2>5
    <2> QED BY <2>1, <2>4, <2>5
  <1>10. CASE RecoverTools \/ Reuse \/ RestoreCached \/ SealHit \/ StartTool \/ NoteStarted
    BY <1>1, <1>10
       DEF RecoverTools, Reuse, RestoreCached, SealHit, StartTool, NoteStarted, durable
  <1>11. CASE Seal \/ UnlinkStarted \/ AfterSrcdiff \/ CheckSemantics \/ Score \/ WriteCsv
    BY <1>1, <1>11
       DEF Seal, UnlinkStarted, AfterSrcdiff, CheckSemantics, Score, WriteCsv, durable
  <1>12. CASE SomeToolEnds \/ Interrupt \/ Crash \/ Upgrade \/ MangleEntry \/ UNCHANGED vars
    BY <1>1, <1>12
       DEF SomeToolEnds, Interrupt, Crash, Upgrade, MangleEntry, vars, durable
  <1> HIDE DEF Refined
  <1>13. CASE RunnerStep
    BY <1>1, <1>3, <1>4, <1>5, <1>6, <1>7, <1>8, <1>9, <1>10, <1>11, <1>13 DEF RunnerStep
  <1> QED BY <1>1, <1>2, <1>12, <1>13 DEF Next

\* What the journal, the reports and the processes do implements CaseResults: a case gets
\* a result once, a result is replaced only by the retry of a failure that may be retried,
\* completed means every case has one, and what is reported are the results of that time.
THEOREM CaseResultsImplemented == Spec => ImplementsCaseResults
  <1>1. Init => Results!Init
    <2> SUFFICES ASSUME Init
                 PROVE  Results!Init
      OBVIOUS
    <2>1. /\ journal.status # "completed"
          /\ summary.outcome = [c \in CaseNumbers |-> NoOutcome]
          /\ \A c \in CaseNumbers : attempts[c] = << >>
      BY DEF Init, NoJournal, NoSummary
    <2>2. \A c \in CaseNumbers : LatestOutcome(c) = NoOutcome
      BY <2>1 DEF LatestOutcome, LatestTerminal, TerminalRows
    <2>3. LatestOutcomes = [c \in CaseNumbers |-> NoOutcome]
      BY <2>2 DEF LatestOutcomes
    <2> QED BY <2>1, <2>3 DEF Results!Init, Results!Nothing
  <1>2. IInv /\ [Next]_vars => [Results!Next]_(Results!resultVars)
    BY ResultsStep
  <1> QED BY <1>1, <1>2, Invariant, PTL DEF Spec, ImplementsCaseResults, Results!Spec

-----------------------------------------------------------------------------
(* What is scored (CaseScoring).                                           *)

Agreement(row, category) ==
    IF category \in row.linked THEN "oracle_pass" ELSE "wrong_classification"

\* An entry was made for another label than the case has, and this stops a run.
Opposed(c, corrections, s) ==
    Entered(c, corrections) /\ ~Corrected(c, corrections) /\ s.membership = "derived"

\* A row says of its case what the registry and the report made of it.
RowSound(row, c, corrections, s) ==
    /\ c.kind = "positive" =>
          /\ \/ row.outcome = row.reviewed
             \/ /\ {row.outcome, row.reviewed} = {"oracle_pass", "wrong_classification"}
                /\ Corrected(c, corrections)
          /\ row.outcome \in {"oracle_pass", "wrong_classification"} =>
                /\ row.outcome = Agreement(row, c.category)
                /\ row.reviewed = Agreement(row, ReviewedCategory(c, corrections))
          /\ ~Opposed(c, corrections, s)
    /\ c.kind = "known_false_positive" /\ row.reviewed = "oracle_pass" => ~row.anywhere

LEMMA UnscoredSound ==
    ASSUME NEW c, NEW corrections, NEW s, ~Opposed(c, corrections, s),
           NEW outcome \in {"upstream_failure", "srcdiff_semantic_ineligible",
                            "srcmove_tool_failure"}
    PROVE  RowSound(Unscored(outcome), c, corrections, s)
  <1> DEFINE row == Unscored(outcome)
  <1>1. row.outcome = outcome /\ row.reviewed = outcome
    BY DEF Unscored, ScoreRow
  <1> HIDE DEF row
  <1>2. outcome # "oracle_pass" /\ outcome # "wrong_classification"
    OBVIOUS
  <1> QED
    BY <1>1, <1>2 DEF RowSound, row

LEMMA DetectedReported ==
    ASSUME NEW c, NEW M
    PROVE  Detected(c, M) # {} => M # {}
  BY DEF Detected

LEMMA ScoredSound ==
    ASSUME NEW c, NEW r, NEW s, ~Opposed(c, registry, s)
    PROVE  RowSound(ScoredRow(c, r), c, registry, s)
  <1> DEFINE row == ScoredRow(c, r)
             D == Detected(c, r.moves)
             reviewed == ReviewedCategory(c, registry)
  <1>1. /\ row.outcome = Outcome(c, r, c.category)
        /\ row.reviewed = Outcome(c, r, reviewed)
        /\ row.linked = {m.relationship : m \in IF r.resolves THEN D ELSE {}}
        /\ row.anywhere = \E m \in r.moves : LinksTexts(m, c)
    BY DEF ScoredRow, ScoreRow
  <1>2. ASSUME c.kind = "positive"
        PROVE  /\ \/ row.outcome = row.reviewed
                  \/ /\ {row.outcome, row.reviewed} = {"oracle_pass", "wrong_classification"}
                     /\ Corrected(c, registry)
               /\ row.outcome \in {"oracle_pass", "wrong_classification"} =>
                     /\ row.outcome = Agreement(row, c.category)
                     /\ row.reviewed = Agreement(row, reviewed)
    <2>0. Corrected(c, registry) \/ reviewed = c.category
      BY DEF ReviewedCategory
    <2> HIDE DEF row, D, reviewed
    <2>1. \A x : Outcome(c, r, x) = Positive(c, r, x)
      BY <1>2 DEF Outcome
    <2>2. CASE r.moves # {} /\ ~r.resolves
      BY <1>1, <2>1, <2>2 DEF Positive
    <2>3. CASE ~(r.moves # {} /\ ~r.resolves) /\ D = {}
      BY <1>1, <2>1, <2>3 DEF Positive, D
    <2>4. CASE ~(r.moves # {} /\ ~r.resolves) /\ D # {}
      <3>0. r.resolves
        BY <2>4, DetectedReported DEF D
      <3>1. \A x : Positive(c, r, x) = Agreement(row, x)
        BY <1>1, <2>4, <3>0 DEF Positive, Agreement, D
      <3>2. row.outcome = Agreement(row, c.category) /\ row.reviewed = Agreement(row, reviewed)
        BY <1>1, <2>1, <3>1
      <3>3. \A x : Agreement(row, x) \in {"oracle_pass", "wrong_classification"}
        BY DEF Agreement
      <3>4. row.outcome = row.reviewed \/ Corrected(c, registry)
        BY <2>0, <3>2
      <3> QED
        BY <3>2, <3>3, <3>4
    <2> QED
      BY <2>2, <2>3, <2>4
  <1>3. ASSUME c.kind = "known_false_positive", row.reviewed = "oracle_pass"
        PROVE  ~row.anywhere
    BY <1>1, <1>3 DEF Outcome, KnownFalsePositive
  <1> HIDE DEF row
  <1> QED
    BY <1>2, <1>3 DEF RowSound, row

\* The outcomes, the most telling one first.
Telling == <<"srcmove_false_positive", "oracle_failure", "oracle_pass",
             "wrong_classification", "srcmove_miss">>

LEMMA MostTelling ==
    ASSUME NEW S, NEW k \in 1..5, Telling[k] \in S, \A j \in 1..(k - 1) : Telling[j] \notin S
    PROVE  Telling[k] = Telling[CHOOSE i \in 1..5 : /\ Telling[i] \in S
                                                    /\ \A j \in 1..(i - 1) : Telling[j] \notin S]
  <1> DEFINE P(i) == Telling[i] \in S /\ \A j \in 1..(i - 1) : Telling[j] \notin S
             l == CHOOSE i \in 1..5 : P(i)
  <1>1. l \in 1..5 /\ P(l)
    OBVIOUS
  <1> HIDE DEF l
  <1>2. ~(l < k) /\ ~(k < l)
    BY <1>1
  <1>3. l = k
    BY <1>1, <1>2
  <1> QED
    BY <1>3 DEF l

LEMMA OneDecides ==
    ASSUME Case \in CaseRecords, NEW M, NEW b \in BOOLEAN, report = [moves |-> M, resolves |-> b]
    PROVE  OneMoveDecides
  <1> SUFFICES ASSUME M # {}
               PROVE  LET alone == {Outcome(Case, Alone(m), Case.category) : m \in M}
                          negative == [Case EXCEPT !.kind = "known_false_positive"]
                      IN /\ Outcome(Case, report, Case.category) =
                               Telling[CHOOSE k \in 1..5 :
                                          /\ Telling[k] \in alone
                                          /\ \A j \in 1..(k - 1) : Telling[j] \notin alone]
                         /\ Positive(Case, report, Case.category)
                                \in {"oracle_pass", "wrong_classification"}
                               => KnownFalsePositive(negative, report) = "srcmove_false_positive"
    BY DEF OneMoveDecides, Telling
  <1> DEFINE c == Case
             alone == {Outcome(c, Alone(m), c.category) : m \in M}
             negative == [c EXCEPT !.kind = "known_false_positive"]
  <1>1. c.kind \in {"positive", "known_false_positive"}
    BY DEF CaseRecords
  <1>2. /\ report.moves = M /\ report.resolves = b
        /\ \A m : Alone(m).moves = {m} /\ Alone(m).resolves = b
    BY DEF Alone
  <1>3. \A i \in 1..5 : i = 1 \/ i = 2 \/ i = 3 \/ i = 4 \/ i = 5
    OBVIOUS
  <1>4. /\ Telling[1] = "srcmove_false_positive" /\ Telling[2] = "oracle_failure"
        /\ Telling[3] = "oracle_pass" /\ Telling[4] = "wrong_classification"
        /\ Telling[5] = "srcmove_miss"
    BY DEF Telling
  <1>5. \E k \in 1..5 : /\ Outcome(c, report, c.category) = Telling[k] /\ Telling[k] \in alone
                        /\ \A j \in 1..(k - 1) : Telling[j] \notin alone
    <2>1. CASE c.kind = "known_false_positive"
      <3>1. \A m : Outcome(c, Alone(m), c.category) =
                      IF LinksTexts(m, c) THEN "srcmove_false_positive" ELSE "oracle_pass"
        BY <1>2, <2>1 DEF Outcome, KnownFalsePositive
      <3>2. Outcome(c, report, c.category) =
                IF \E m \in M : LinksTexts(m, c) THEN "srcmove_false_positive" ELSE "oracle_pass"
        BY <1>2, <2>1 DEF Outcome, KnownFalsePositive
      <3> HIDE DEF c
      <3>3. CASE \E m \in M : LinksTexts(m, c)
        <4>1. Outcome(c, report, c.category) = Telling[1] /\ Telling[1] \in alone
          BY <1>4, <3>1, <3>2, <3>3
        <4>2. \A j \in 1..(1 - 1) : Telling[j] \notin alone
          OBVIOUS
        <4> QED
          BY <4>1, <4>2
      <3>4. CASE ~\E m \in M : LinksTexts(m, c)
        <4>1. Outcome(c, report, c.category) = Telling[3] /\ alone = {"oracle_pass"}
          BY <1>4, <3>1, <3>2, <3>4
        <4>2. \A j \in 1..(3 - 1) : Telling[j] \notin alone
          <5>1. \A j \in 1..(3 - 1) : j = 1 \/ j = 2
            OBVIOUS
          <5> QED
            BY <1>4, <4>1, <5>1
        <4>3. Telling[3] \in alone
          BY <1>4, <4>1
        <4> QED
          BY <4>1, <4>2, <4>3
      <3> QED
        BY <3>3, <3>4
    <2>2. CASE c.kind = "positive" /\ ~b
      <3>1. \A m : Outcome(c, Alone(m), c.category) = "oracle_failure"
        BY <1>2, <2>2 DEF Outcome, Positive
      <3>2. Outcome(c, report, c.category) = "oracle_failure"
        BY <1>2, <2>2 DEF Outcome, Positive
      <3> HIDE DEF c
      <3>3. alone = {"oracle_failure"}
        BY <3>1
      <3>4. \A j \in 1..(2 - 1) : Telling[j] \notin alone
        <4>1. \A j \in 1..(2 - 1) : j = 1
          OBVIOUS
        <4> QED
          BY <1>4, <3>3, <4>1
      <3>5. Outcome(c, report, c.category) = Telling[2] /\ Telling[2] \in alone
        BY <1>4, <3>2, <3>3
      <3> QED
        BY <3>4, <3>5
    <2>3. CASE c.kind = "positive" /\ b
      <3> DEFINE D == Detected(c, M)
      <3>1. \A m : Detected(c, {m}) = IF LinksTexts(m, c) /\ InPlace(m) THEN {m} ELSE {}
        BY DEF Detected
      <3>2. D = {m \in M : LinksTexts(m, c) /\ InPlace(m)}
        BY DEF Detected
      <3>3. \A m \in M : Outcome(c, Alone(m), c.category) =
                  IF m \notin D THEN "srcmove_miss"
                  ELSE IF m.relationship = c.category THEN "oracle_pass" ELSE "wrong_classification"
        <4> TAKE m \in M
        <4>1. Outcome(c, Alone(m), c.category) =
                 IF Detected(c, {m}) = {} THEN "srcmove_miss"
                 ELSE IF \E n \in Detected(c, {m}) : n.relationship = c.category
                      THEN "oracle_pass" ELSE "wrong_classification"
          BY <1>2, <2>3 DEF Outcome, Positive
        <4> HIDE DEF c, D
        <4>2. CASE m \in D
          <5>1. Detected(c, {m}) = {m}
            BY <3>1, <3>2, <4>2
          <5> QED
            BY <4>1, <4>2, <5>1
        <4>3. CASE m \notin D
          <5>1. Detected(c, {m}) = {}
            BY <3>1, <3>2, <4>3
          <5> QED
            BY <4>1, <4>3, <5>1
        <4> QED
          BY <4>2, <4>3
      <3>4. Outcome(c, report, c.category) =
               IF D = {} THEN "srcmove_miss"
               ELSE IF \E n \in D : n.relationship = c.category
                    THEN "oracle_pass" ELSE "wrong_classification"
        BY <1>2, <2>3 DEF Outcome, Positive
      <3>5. \A v \in alone : v = "srcmove_miss" \/ v = "oracle_pass" \/ v = "wrong_classification"
        BY <3>3
      <3>6. D \subseteq M
        BY <3>2
      <3> HIDE DEF c, D
      <3>7. CASE D = {}
        <4>1. alone = {"srcmove_miss"}
          BY <3>3, <3>7
        <4>2. \A j \in 1..(5 - 1) : j = 1 \/ j = 2 \/ j = 3 \/ j = 4
          OBVIOUS
        <4>3. \A j \in 1..(5 - 1) : Telling[j] \notin alone
          BY <1>4, <4>1, <4>2
        <4>4. Outcome(c, report, c.category) = Telling[5] /\ Telling[5] \in alone
          BY <1>4, <3>4, <3>7, <4>1
        <4> QED
          BY <4>3, <4>4
      <3>8. CASE \E n \in D : n.relationship = c.category
        <4>1. \A j \in 1..(3 - 1) : j = 1 \/ j = 2
          OBVIOUS
        <4>2. \A j \in 1..(3 - 1) : Telling[j] \notin alone
          BY <1>4, <3>5, <4>1
        <4>3. Outcome(c, report, c.category) = Telling[3]
          BY <1>4, <3>4, <3>8
        <4>4. Telling[3] \in alone
          BY <1>4, <3>3, <3>6, <3>8
        <4> QED
          BY <4>2, <4>3, <4>4
      <3>9. CASE D # {} /\ ~\E n \in D : n.relationship = c.category
        <4>1. \A j \in 1..(4 - 1) : j = 1 \/ j = 2 \/ j = 3
          OBVIOUS
        <4>2. "oracle_pass" \notin alone
          BY <3>3, <3>9
        <4>3. \A j \in 1..(4 - 1) : Telling[j] \notin alone
          BY <1>4, <3>5, <4>1, <4>2
        <4>4. Outcome(c, report, c.category) = Telling[4]
          BY <1>4, <3>4, <3>9
        <4>5. Telling[4] \in alone
          BY <1>4, <3>3, <3>6, <3>9
        <4> QED
          BY <4>3, <4>4, <4>5
      <3> QED
        BY <3>7, <3>8, <3>9
    <2> QED
      BY <1>1, <2>1, <2>2, <2>3
  <1>6. ASSUME Positive(c, report, c.category) \in {"oracle_pass", "wrong_classification"}
        PROVE  KnownFalsePositive(negative, report) = "srcmove_false_positive"
    <2>1. negative.from = c.from /\ negative.to = c.to
      BY DEF CaseRecords
    <2>2. Detected(c, M) # {}
      BY <1>2, <1>6 DEF Positive
    <2>3. \E m \in M : LinksTexts(m, c)
      BY <2>2 DEF Detected
    <2>4. \A m : LinksTexts(m, negative) <=> LinksTexts(m, c)
      BY <2>1 DEF LinksTexts
    <2> QED
      BY <1>2, <2>3, <2>4 DEF KnownFalsePositive
  <1> HIDE DEF alone
  <1>7. Outcome(c, report, c.category) =
            Telling[CHOOSE i \in 1..5 : /\ Telling[i] \in alone
                                        /\ \A j \in 1..(i - 1) : Telling[j] \notin alone]
    BY <1>5, MostTelling
  <1> QED
    BY <1>6, <1>7 DEF alone

-----------------------------------------------------------------------------
(* The runner of CaseScoring.                                              *)

ToolStages == {"link1", "link2", "link3", "link4", "linked", "shown", "rejected",
               "diffed", "eligible", "reported"}

ScoringTyped ==
    /\ selected \in PairSets /\ edited \in Registries
    /\ pinned \in Registries \cup {None}
    /\ stage \in {"down", "next", "leaving"} \cup ToolStages
    /\ DOMAIN scores = DOMAIN Cases
    /\ at \in Nat \ {0} /\ (stage \in ToolStages => at \in DOMAIN Cases)
    /\ DOMAIN scratch = Files

\* All rows stand under the pinned registry, which is that of the process.
RowsPinned ==
    /\ stage # "down" => registry = pinned
    /\ pinned = None => stage = "down" /\ \A i \in DOMAIN Cases : scores[i] = None
    /\ \A i \in DOMAIN Cases : scores[i] = None \/ RowSound(scores[i], Cases[i], pinned, selected)

\* The cases before the one at hand have rows.
PassedRows ==
    stage \in {"next"} \cup ToolStages =>
        \A i \in DOMAIN Cases : i < at => RowSound(scores[i], Cases[i], pinned, selected)

\* What is kept of a case is the comparison of its own two fragments.
CacheSound ==
    /\ DOMAIN cached = (DOMAIN Repaired) \X (DOMAIN Repaired)
    /\ \A f, t \in DOMAIN Repaired :
           cached[<<f, t>>] # None => cached[<<f, t>>] = [deleted |-> {f}, inserted |-> {t}]

\* The files linked so far, and then the output, are those of the case at hand.
AtHand ==
    /\ \A k \in 1..5 : stage = LinkStages[k] =>
           \A j \in 1..4 : j < k => scratch[LinkOrder[j]] = Objects(Case)[LinkOrder[j]]
    /\ stage \in {"shown", "diffed", "eligible", "reported"} =>
          diff = [deleted |-> {Case.from}, inserted |-> {Case.to}]
    /\ stage \in {"diffed", "eligible", "reported"} => ~Opposed(Case, pinned, selected)
    /\ stage = "reported" =>
          \E M : \E b \in BOOLEAN : report = [moves |-> M, resolves |-> b]

Told == verdict = TRUE => stage = "leaving" /\ PassIsEarned

ScoringInv == ScoringTyped /\ RowsPinned /\ PassedRows /\ CacheSound /\ AtHand /\ Told

LEMMA CasesAre ==
    ASSUME selected \in PairSets
    PROVE  /\ Len(Cases) \in Nat /\ DOMAIN Cases = 1..Len(Cases)
           /\ \A i \in DOMAIN Cases : Cases[i] \in CaseRecords
  BY ScoringAssumption DEF Cases

\* srcDiff shows the two fragments of the case whose objects are linked.
LEMMA ShownIs ==
    ASSUME Case \in CaseRecords,
           \A j \in 1..4 : scratch[LinkOrder[j]] = Objects(Case)[LinkOrder[j]]
    PROVE  DiffOf = [deleted |-> {Case.from}, inserted |-> {Case.to}]
  <1>1. Case.from # Wrapper /\ Case.to # Wrapper
    BY DEF CaseRecords
  <1>2. PICK f, t : f = Case.from /\ t = Case.to
    OBVIOUS
  <1>3. /\ scratch[<<"original", "source">>] = f /\ scratch[<<"modified", "source">>] = Wrapper
        /\ scratch[<<"original", "destination">>] = Wrapper
        /\ scratch[<<"modified", "destination">>] = t
    <2>1. /\ scratch[LinkOrder[1]] = Objects(Case)[LinkOrder[1]]
          /\ scratch[LinkOrder[2]] = Objects(Case)[LinkOrder[2]]
          /\ scratch[LinkOrder[3]] = Objects(Case)[LinkOrder[3]]
          /\ scratch[LinkOrder[4]] = Objects(Case)[LinkOrder[4]]
      OBVIOUS
    <2>2. /\ LinkOrder[1] = <<"original", "source">>
          /\ LinkOrder[2] = <<"original", "destination">>
          /\ LinkOrder[3] = <<"modified", "source">>
          /\ LinkOrder[4] = <<"modified", "destination">>
      BY DEF LinkOrder
    <2> QED
      BY <1>2, <2>1, <2>2 DEF Objects, Files
  <1>4. {q \in {"source", "destination"} : scratch[<<"original", q>>] # scratch[<<"modified", q>>]}
          = {"source", "destination"}
    BY <1>1, <1>2, <1>3
  <1>5. Changed({"source", "destination"}, "original") = {f}
    BY <1>1, <1>2, <1>3, <1>4 DEF Changed
  <1>6. Changed({"source", "destination"}, "modified") = {t}
    BY <1>1, <1>2, <1>3, <1>4 DEF Changed
  <1> QED
    BY <1>2, <1>5, <1>6 DEF DiffOf

LEMMA ScoringInitInv == ScoringInit => ScoringInv
  <1> SUFFICES ASSUME ScoringInit PROVE ScoringInv
    OBVIOUS
  <1>1. /\ verdict # TRUE
    BY ScoringAssumption DEF ScoringInit
  <1>2. ScoringTyped
    BY DEF ScoringInit, ScoringTyped, Cases, ToolStages, Bare
  <1>3. RowsPinned /\ PassedRows /\ AtHand
    BY DEF ScoringInit, RowsPinned, PassedRows, AtHand, Cases, ToolStages, LinkStages
  <1>4. CacheSound
    BY DEF ScoringInit, CacheSound, Empty
  <1> QED
    BY <1>1, <1>2, <1>3, <1>4 DEF ScoringInv, Told

\* A case gets its row, or keeps the one it has, and the next one is taken up.
LEMMA OnToTheNext ==
    ASSUME ScoringInv, stage \in ToolStages, Advance, NEW row,
           RowSound(row, Case, pinned, selected), DOMAIN scores' = DOMAIN scores,
           \A i \in DOMAIN scores : scores'[i] = IF i = at THEN row ELSE scores[i]
    PROVE  ScoringInv'
  <1>0. at \in DOMAIN Cases /\ at \in Nat \ {0} /\ Case = Cases[at]
    BY DEF ScoringInv, ScoringTyped, Case
  <1>1. /\ UNCHANGED <<selected, edited, registry, pinned, verdict, cached>>
        /\ stage' = "next" /\ at' = at + 1 /\ scratch' = Bare
    BY DEF Advance
  <1>2. Cases' = Cases
    BY <1>1 DEF Cases
  <1>3. \A i \in DOMAIN Cases : scores'[i] = IF i = at THEN row ELSE scores[i]
    BY DEF ScoringInv, ScoringTyped
  <1>4. ScoringTyped'
    BY <1>0, <1>1, <1>2 DEF ScoringInv, ScoringTyped, ToolStages, Bare
  <1>5. pinned # None /\ registry = pinned
    BY DEF ScoringInv, RowsPinned, ToolStages
  <1>6. \A i \in DOMAIN Cases :
            scores'[i] = None \/ RowSound(scores'[i], Cases[i], pinned, selected)
    BY <1>0, <1>3 DEF ScoringInv, RowsPinned
  <1>7. RowsPinned'
    BY <1>1, <1>2, <1>5, <1>6 DEF RowsPinned
  <1>8. PassedRows'
    <2> SUFFICES ASSUME NEW i \in DOMAIN Cases, i < at + 1
                 PROVE  RowSound(scores'[i], Cases[i], pinned, selected)
      BY <1>1, <1>2 DEF PassedRows
    <2>1. i \in Nat
      BY CasesAre DEF ScoringInv, ScoringTyped
    <2>2. CASE i = at
      BY <1>0, <1>3, <2>2
    <2>3. CASE i # at
      <3>1. i < at
        BY <1>0, <2>1, <2>3
      <3> QED
        BY <1>3, <2>3, <3>1 DEF ScoringInv, PassedRows
    <2> QED
      BY <2>2, <2>3
  <1>9. AtHand'
    BY <1>1 DEF AtHand, LinkStages
  <1>10. CacheSound' /\ Told'
    BY <1>1 DEF CacheSound, Told, ScoringInv, ToolStages
  <1> QED
    BY <1>4, <1>7, <1>8, <1>9, <1>10 DEF ScoringInv

\* A step that leaves the rows and what is at hand as they are.
LEMMA RowsRest ==
    ASSUME ScoringInv, UNCHANGED <<selected, scores, pinned, registry, at, verdict>>,
           stage # "leaving", stage # "down", edited' = edited,
           stage \in {"next"} \cup ToolStages, stage' \in {"leaving"} \cup ToolStages,
           stage' \in ToolStages => at \in DOMAIN Cases, DOMAIN scratch' = Files
    PROVE  ScoringTyped' /\ RowsPinned' /\ PassedRows' /\ Told'
  <1>1. Cases' = Cases
    BY DEF Cases
  <1>2. ScoringTyped' /\ RowsPinned' /\ PassedRows'
    BY <1>1 DEF ScoringInv, ScoringTyped, RowsPinned, PassedRows, ToolStages
  <1>3. verdict' # TRUE
    BY DEF ScoringInv, Told
  <1> QED
    BY <1>2, <1>3 DEF Told

\* The label of a positive case under the pinned registry.
LEMMA LabelIs ==
    ASSUME NEW c, c.kind = "positive"
    PROVE  /\ Label(c) = ReviewedCategory(c, pinned)
           /\ Meant(c) <=> Corrected(c, pinned)
  BY DEF Label, Meant, ReviewedCategory, Corrected, Entered

\* A required pair set whose reviewed outcomes are all right has earned it.
LEMMA VerdictEarned ==
    ASSUME ScoringInv, stage = "next", at > Len(Cases), PairSetPasses,
           selected.pairSet # "type3"
    PROVE  \A i \in DOMAIN Cases :
               IF Cases[i].kind = "positive"
               THEN Label(Cases[i]) \in scores[i].linked
               ELSE ~scores[i].anywhere
  <1>1. /\ Len(Cases) \in Nat /\ DOMAIN Cases = 1..Len(Cases)
        /\ \A i \in DOMAIN Cases : Cases[i] \in CaseRecords
    BY CasesAre DEF ScoringInv, ScoringTyped
  <1> DEFINE good == {i \in DOMAIN Cases : scores[i].reviewed = "oracle_pass"}
  <1>2. Cardinality(good) = Len(Cases)
    BY DEF PairSetPasses, ReviewedCount
  <1>3. good = DOMAIN Cases
    <2>1. good \subseteq 1..Len(Cases) /\ 1 \in Int
      BY <1>1
    <2> HIDE DEF good
    <2>2. IsFiniteSet(1..Len(Cases)) /\ Cardinality(1..Len(Cases)) = Len(Cases)
      <3>1. PICK n \in Nat : n = Len(Cases)
        BY <1>1
      <3>2. IsFiniteSet(1..n) /\ Cardinality(1..n) = IF 1 > n THEN 0 ELSE n - 1 + 1
        <4>1. 1 \in Int /\ n \in Int
          OBVIOUS
        <4> QED
          BY <4>1, FS_Interval
      <3>3. (IF 1 > n THEN 0 ELSE n - 1 + 1) = n
        OBVIOUS
      <3> QED
        BY <3>1, <3>2, <3>3
    <2>3. good = 1..Len(Cases)
      BY <1>2, <2>1, <2>2, FS_Subset
    <2> QED
      BY <1>1, <2>3
  <1>4. \A i \in DOMAIN Cases : i < at
    BY <1>1 DEF ScoringInv, ScoringTyped
  <1> SUFFICES ASSUME NEW i \in DOMAIN Cases
               PROVE  IF Cases[i].kind = "positive"
                      THEN Label(Cases[i]) \in scores[i].linked
                      ELSE ~scores[i].anywhere
    OBVIOUS
  <1>5. RowSound(scores[i], Cases[i], pinned, selected)
    BY <1>4 DEF ScoringInv, PassedRows
  <1>6. scores[i].reviewed = "oracle_pass"
    BY <1>3
  <1>7. Cases[i].kind = "positive" \/ Cases[i].kind = "known_false_positive"
    BY <1>1 DEF CaseRecords
  <1>8. CASE Cases[i].kind = "positive"
    <2>1. scores[i].outcome \in {"oracle_pass", "wrong_classification"}
      BY <1>5, <1>6, <1>8 DEF RowSound
    <2>2. scores[i].reviewed = Agreement(scores[i], ReviewedCategory(Cases[i], pinned))
      BY <1>5, <1>8, <2>1 DEF RowSound
    <2>3. Label(Cases[i]) = ReviewedCategory(Cases[i], pinned)
      BY <1>8, LabelIs
    <2> QED
      BY <1>6, <1>8, <2>2, <2>3 DEF Agreement
  <1>9. CASE Cases[i].kind = "known_false_positive"
    BY <1>5, <1>6, <1>9 DEF RowSound
  <1> QED
    BY <1>7, <1>8, <1>9

LEMMA ScoringStepInv == ScoringInv /\ [ScoringNext]_scoringVars => ScoringInv'
  <1> SUFFICES ASSUME ScoringInv, [ScoringNext]_scoringVars PROVE ScoringInv'
    OBVIOUS
  <1>0. /\ Len(Cases) \in Nat /\ DOMAIN Cases = 1..Len(Cases)
        /\ \A i \in DOMAIN Cases : Cases[i] \in CaseRecords
    BY CasesAre DEF ScoringInv, ScoringTyped
  <1>1. CASE StartRunner
    <2>1. /\ stage = "down" /\ stage' = "next" /\ at' = 1 /\ pinned \in {None, edited}
          /\ registry' = edited /\ pinned' = edited /\ edited \in Registries
          /\ UNCHANGED <<selected, edited, scores, verdict, cached, scratch>>
      BY <1>1 DEF StartRunner, ScoringInv, ScoringTyped
    <2>2. Cases' = Cases
      BY <2>1 DEF Cases
    <2>3. ScoringTyped'
      BY <2>1, <2>2 DEF ScoringInv, ScoringTyped, ToolStages
    <2>4. \A i \in DOMAIN Cases :
              scores[i] = None \/ RowSound(scores[i], Cases[i], edited, selected)
      BY <2>1 DEF ScoringInv, RowsPinned
    <2>5. edited # None
      BY <2>1, ScoringAssumption
    <2>6. RowsPinned'
      BY <2>1, <2>2, <2>4, <2>5 DEF RowsPinned
    <2>7. PassedRows'
      <3>1. \A i \in DOMAIN Cases : ~(i < 1)
        BY <1>0
      <3> QED
        BY <2>1, <2>2, <3>1 DEF PassedRows
    <2>8. AtHand'
      BY <2>1 DEF AtHand, LinkStages
    <2>9. CacheSound' /\ Told'
      BY <2>1 DEF CacheSound, Told, ScoringInv
    <2> QED
      BY <2>3, <2>6, <2>7, <2>8, <2>9 DEF ScoringInv
  <1>2. CASE ReviseRegistry
    <2>1. /\ stage = "down" /\ edited' \in Registries
          /\ UNCHANGED <<selected, registry, pinned, scores, at, stage, verdict, cached, scratch>>
      BY <1>2 DEF ReviseRegistry
    <2>2. Cases' = Cases
      BY <2>1 DEF Cases
    <2>3. ScoringTyped' /\ RowsPinned'
      BY <2>1, <2>2 DEF ScoringInv, ScoringTyped, RowsPinned, ToolStages
    <2>4. PassedRows' /\ AtHand' /\ CacheSound' /\ Told'
      BY <2>1 DEF ScoringInv, PassedRows, AtHand, CacheSound, Told, ToolStages, LinkStages
    <2> QED
      BY <2>3, <2>4 DEF ScoringInv
  <1>3. CASE ClearScratch
    <2>1. /\ stage = "next" /\ at <= Len(Cases) /\ scratch' = Bare /\ stage' = "link1"
          /\ UNCHANGED <<selected, edited, registry, pinned, scores, at, verdict, cached>>
      BY <1>3 DEF ClearScratch
    <2>2. at \in DOMAIN Cases /\ DOMAIN scratch' = Files
      BY <1>0, <2>1 DEF ScoringInv, ScoringTyped, Bare
    <2>3. ScoringTyped' /\ RowsPinned' /\ PassedRows' /\ Told'
      BY <2>1, <2>2, RowsRest DEF ToolStages
    <2>4. \A k \in 1..5 : LinkStages[k] = "link1" => k = 1
      BY DEF LinkStages
    <2>5. AtHand'
      BY <2>1, <2>4 DEF AtHand
    <2>6. CacheSound'
      BY <2>1 DEF CacheSound, ScoringInv
    <2> QED
      BY <2>3, <2>5, <2>6 DEF ScoringInv
  <1>14. CASE LinkObject
    <2>1. PICK k \in 1..4 :
             /\ stage = LinkStages[k] /\ stage' = LinkStages[k + 1]
             /\ scratch' = [scratch EXCEPT ![LinkOrder[k]] = Objects(Case)[LinkOrder[k]]]
             /\ UNCHANGED <<selected, edited, registry, pinned, scores, at, verdict, cached>>
      BY <1>14 DEF LinkObject
    <2>2. /\ \A i \in 1..5 : LinkStages[i] \in ToolStages
          /\ \A i, j \in 1..5 : LinkStages[i] = LinkStages[j] => i = j
          /\ \A i \in 1..5 : LinkStages[i] \notin {"shown", "diffed", "eligible", "reported"}
      BY DEF LinkStages, ToolStages
    <2>3. /\ \A j \in 1..4 : LinkOrder[j] \in Files
          /\ \A i, j \in 1..4 : LinkOrder[i] = LinkOrder[j] => i = j
      BY DEF LinkOrder, Files
    <2>4. k \in 1..5 /\ k + 1 \in 1..5
      OBVIOUS
    <2>5. at \in DOMAIN Cases /\ DOMAIN scratch = Files /\ DOMAIN scratch' = Files
      BY <2>1, <2>2, <2>4 DEF ScoringInv, ScoringTyped
    <2>6. stage \in ToolStages /\ stage' \in ToolStages
      BY <2>1, <2>2, <2>4
    <2>7. ScoringTyped' /\ RowsPinned' /\ PassedRows' /\ Told'
      BY <2>1, <2>5, <2>6, RowsRest DEF ToolStages
    <2>8. Case' = Case /\ Objects(Case)' = Objects(Case)
      BY <2>1 DEF Case, Cases, Objects
    <2>9. \A j \in 1..4 : j < k + 1 => scratch'[LinkOrder[j]] = Objects(Case)[LinkOrder[j]]
      <3> SUFFICES ASSUME NEW j \in 1..4, j < k + 1
                   PROVE  scratch'[LinkOrder[j]] = Objects(Case)[LinkOrder[j]]
        OBVIOUS
      <3>1. CASE j = k
        BY <2>1, <2>3, <2>5, <3>1
      <3>2. CASE j # k
        <4>1. j < k /\ LinkOrder[j] # LinkOrder[k]
          BY <2>3, <3>2
        <4>2. scratch[LinkOrder[j]] = Objects(Case)[LinkOrder[j]]
          BY <2>1, <2>4, <4>1 DEF ScoringInv, AtHand
        <4> QED
          BY <2>1, <2>3, <2>5, <4>1, <4>2
      <3> QED
        BY <3>1, <3>2
    <2>10. AtHand'
      <3>1. \A i \in 1..5 : stage' = LinkStages[i] => i = k + 1
        BY <2>1, <2>2, <2>4
      <3>2. \A i \in 1..5 : stage' = LinkStages[i] =>
               \A j \in 1..4 : j < i => scratch'[LinkOrder[j]] = Objects(Case)'[LinkOrder[j]]
        BY <2>8, <2>9, <3>1
      <3>3. stage' \notin {"shown", "diffed", "eligible", "reported"}
        BY <2>1, <2>2, <2>4
      <3> QED
        BY <3>2, <3>3 DEF AtHand
    <2>11. CacheSound'
      BY <2>1 DEF CacheSound, ScoringInv
    <2> QED
      BY <2>7, <2>10, <2>11 DEF ScoringInv
  <1>4. CASE ReuseRow
    <2>1. stage = "linked" /\ scores[at] # None /\ Advance /\ scores' = scores
      BY <1>4 DEF ReuseRow, Settled
    <2>2. at \in DOMAIN Cases /\ DOMAIN scores = DOMAIN Cases
      BY <2>1 DEF ScoringInv, ScoringTyped, ToolStages
    <2>3. RowSound(scores[at], Case, pinned, selected)
      BY <2>1, <2>2 DEF ScoringInv, RowsPinned, Case
    <2> QED
      BY <2>1, <2>3, OnToTheNext DEF ToolStages
  <1>5. CASE RestoreDiff \/ RunSrcdiff
    <2> DEFINE right == [deleted |-> {Case.from}, inserted |-> {Case.to}]
               key == <<Case.from, Case.to>>
    <2>1. /\ stage = "linked" /\ stage' \in {"shown", "rejected"}
          /\ UNCHANGED <<selected, edited, registry, pinned, scores, at, verdict, scratch>>
      BY <1>5 DEF RestoreDiff, RunSrcdiff
    <2>2. at \in DOMAIN Cases /\ DOMAIN scratch' = Files /\ Case \in CaseRecords
      BY <1>0, <2>1 DEF ScoringInv, ScoringTyped, ToolStages, Case
    <2>3. \A j \in 1..4 : scratch[LinkOrder[j]] = Objects(Case)[LinkOrder[j]]
      <3>1. stage = LinkStages[5] /\ 5 \in 1..5 /\ \A j \in 1..4 : j < 5
        BY <2>1 DEF LinkStages
      <3> QED
        BY <3>1 DEF ScoringInv, AtHand
    <2>4. DiffOf = right
      BY <2>2, <2>3, ShownIs
    <2>5. Case.from \in DOMAIN Repaired /\ Case.to \in DOMAIN Repaired
      BY <2>2 DEF CaseRecords
    <2>6. diff' = right
      BY <1>5, <2>4, <2>5 DEF RestoreDiff, RunSrcdiff, CacheKey, ScoringInv, CacheSound
    <2>7. CacheSound'
      <3>1. CASE cached' = cached
        BY <3>1 DEF ScoringInv, CacheSound
      <3>2. CASE cached' = [cached EXCEPT ![key] = right]
        BY <2>5, <3>2 DEF ScoringInv, CacheSound
      <3> QED
        BY <1>5, <2>4, <3>1, <3>2 DEF RestoreDiff, RunSrcdiff, CacheKey
    <2>8. ScoringTyped' /\ RowsPinned' /\ PassedRows' /\ Told'
      BY <2>1, <2>2, RowsRest DEF ToolStages
    <2>9. AtHand'
      BY <2>1, <2>6 DEF AtHand, Case, Cases, LinkStages
    <2> QED
      BY <2>7, <2>8, <2>9 DEF ScoringInv
  <1>6. ASSUME NEW outcome \in {"upstream_failure", "srcdiff_semantic_ineligible",
                                "srcmove_tool_failure"},
               stage \in ToolStages, FinishCase(Unscored(outcome)),
               ~Opposed(Case, pinned, selected)
        PROVE  ScoringInv'
    <2>1. RowSound(Unscored(outcome), Case, pinned, selected)
      BY <1>6, UnscoredSound
    <2> QED
      BY <1>6, <2>1, OnToTheNext DEF FinishCase
  <1>7. CASE LookUpCorrection
    <2>1. stage \in {"shown", "rejected"} /\ registry = pinned
      BY <1>7 DEF LookUpCorrection, ScoringInv, RowsPinned
    <2>2. Conflict(Case, registry) <=> Opposed(Case, pinned, selected)
      BY <2>1 DEF Conflict, Opposed
    <2>3. CASE /\ ~Conflict(Case, registry)
               /\ FinishCase(Unscored("upstream_failure"))
      BY <1>6, <2>1, <2>2, <2>3 DEF ToolStages
    <2>4. CASE \/ Conflict(Case, registry) /\ stage' = "leaving"
               \/ ~Conflict(Case, registry) /\ stage = "shown" /\ stage' = "diffed"
      <3>1. UNCHANGED <<selected, edited, registry, pinned, scores, at, scratch, cached, diff,
                        verdict>>
        BY <1>7, <2>4 DEF LookUpCorrection, FinishCase, Advance
      <3>2. at \in DOMAIN Cases /\ DOMAIN scratch' = Files
        BY <2>1, <3>1 DEF ScoringInv, ScoringTyped, ToolStages
      <3>3. ScoringTyped' /\ RowsPinned' /\ PassedRows' /\ Told'
        BY <2>1, <2>4, <3>1, <3>2, RowsRest DEF ToolStages
      <3>4. AtHand' /\ CacheSound'
        BY <2>1, <2>2, <2>4, <3>1
           DEF ScoringInv, AtHand, CacheSound, Case, Cases, LinkStages
      <3> QED
        BY <3>3, <3>4 DEF ScoringInv
    <2> QED
      BY <1>7, <2>3, <2>4 DEF LookUpCorrection
  <1>15. CASE SrcmoveNotAdmitted
    <2>1. stage = "eligible" /\ FinishCase(Unscored("srcmove_tool_failure"))
      BY <1>15 DEF SrcmoveNotAdmitted
    <2>2. ~Opposed(Case, pinned, selected)
      BY <2>1 DEF ScoringInv, AtHand
    <2> QED
      BY <1>6, <2>1, <2>2 DEF ToolStages
  <1>8. CASE CheckExposure
    <2>1. CASE FinishCase(Unscored("srcdiff_semantic_ineligible"))
      <3>1. stage = "diffed" /\ ~Opposed(Case, pinned, selected)
        BY <1>8 DEF CheckExposure, ScoringInv, AtHand
      <3> QED
        BY <1>6, <2>1, <3>1 DEF ToolStages
    <2>2. CASE ~FinishCase(Unscored("srcdiff_semantic_ineligible"))
      <3>1. /\ stage = "diffed" /\ stage' = "eligible"
            /\ UNCHANGED <<selected, edited, registry, pinned, scores, at, scratch, cached,
                           diff, verdict>>
        BY <1>8, <2>2 DEF CheckExposure
      <3>2. at \in DOMAIN Cases /\ DOMAIN scratch' = Files
        BY <3>1 DEF ScoringInv, ScoringTyped, ToolStages
      <3>3. ScoringTyped' /\ RowsPinned' /\ PassedRows' /\ Told'
        BY <3>1, <3>2, RowsRest DEF ToolStages
      <3>4. AtHand' /\ CacheSound'
        BY <3>1 DEF ScoringInv, AtHand, CacheSound, Case, Cases, LinkStages
      <3> QED
        BY <3>3, <3>4 DEF ScoringInv
    <2> QED
      BY <2>1, <2>2
  <1>9. CASE RunSrcmove
    <2>1. /\ stage = "eligible" /\ stage' = "reported" /\ report' \in Reports
          /\ UNCHANGED <<selected, edited, registry, pinned, scores, at, scratch, cached,
                         diff, verdict>>
      BY <1>9 DEF RunSrcmove
    <2>2. at \in DOMAIN Cases /\ DOMAIN scratch' = Files
      BY <2>1 DEF ScoringInv, ScoringTyped, ToolStages
    <2>3. ScoringTyped' /\ RowsPinned' /\ PassedRows' /\ Told'
      BY <2>1, <2>2, RowsRest DEF ToolStages
    <2>4. \E M : \E b \in BOOLEAN : report' = [moves |-> M, resolves |-> b]
      BY <2>1 DEF Reports
    <2>5. \A k \in 1..5 : stage' # LinkStages[k]
      BY <2>1 DEF LinkStages
    <2>6. Case' = Case
      BY <2>1 DEF Case, Cases
    <2>7. /\ diff' = [deleted |-> {Case.from}, inserted |-> {Case.to}]
          /\ ~Opposed(Case, pinned, selected)
      BY <2>1 DEF ScoringInv, AtHand
    <2>8. AtHand'
      BY <2>1, <2>4, <2>5, <2>6, <2>7 DEF AtHand
    <2>9. CacheSound'
      BY <2>1 DEF ScoringInv, CacheSound
    <2> QED
      BY <2>3, <2>8, <2>9 DEF ScoringInv
  <1>10. CASE ScoreReport
    <2>1. stage = "reported" /\ FinishCase(ScoredRow(Case, report))
      BY <1>10 DEF ScoreReport
    <2>2. registry = pinned /\ ~Opposed(Case, pinned, selected)
      BY <2>1 DEF ScoringInv, RowsPinned, AtHand
    <2>3. RowSound(ScoredRow(Case, report), Case, pinned, selected)
      BY <2>2, ScoredSound
    <2> QED
      BY <2>1, <2>3, OnToTheNext DEF FinishCase, ToolStages
  <1>11. CASE PairResult
    <2>1. /\ stage = "next" /\ at > Len(Cases) /\ verdict' = PairSetPasses /\ stage' = "leaving"
          /\ UNCHANGED <<selected, edited, registry, pinned, scores, at, scratch, cached>>
      BY <1>11 DEF PairResult
    <2>2. Cases' = Cases
      BY <2>1 DEF Cases
    <2>3. ScoringTyped' /\ RowsPinned' /\ PassedRows'
      BY <2>1, <2>2 DEF ScoringInv, ScoringTyped, RowsPinned, PassedRows, ToolStages
    <2>4. AtHand' /\ CacheSound'
      BY <2>1 DEF ScoringInv, AtHand, CacheSound, LinkStages
    <2>5. PassIsEarned'
      BY <2>1, <2>2, VerdictEarned DEF PassIsEarned, Label, Meant
    <2> QED
      BY <2>1, <2>3, <2>4, <2>5 DEF ScoringInv, Told
  <1>12. CASE Leave
    <2>1. /\ stage' = "down" /\ at' = 1 /\ verdict' = None
          /\ scratch' = Bare /\ UNCHANGED <<selected, edited, pinned, scores, cached>>
      BY <1>12 DEF Leave
    <2>2. Cases' = Cases
      BY <2>1 DEF Cases
    <2>3. ScoringTyped' /\ RowsPinned' /\ PassedRows'
      BY <2>1, <2>2 DEF ScoringInv, ScoringTyped, RowsPinned, PassedRows, ToolStages, Bare
    <2>4. AtHand' /\ CacheSound'
      BY <2>1 DEF ScoringInv, AtHand, CacheSound, LinkStages
    <2>5. Told'
      BY <2>1, ScoringAssumption DEF Told
    <2> QED
      BY <2>3, <2>4, <2>5 DEF ScoringInv
  <1>13. CASE UNCHANGED scoringVars
    BY <1>13 DEF scoringVars, ScoringInv, ScoringTyped, RowsPinned, PassedRows, CacheSound,
                 AtHand, Told, PassIsEarned, Label, Meant, Case, Cases
  <1> QED
    BY <1>1, <1>2, <1>3, <1>4, <1>5, <1>7, <1>8, <1>9, <1>10, <1>11, <1>12, <1>13, <1>14, <1>15
       DEF ScoringNext

LEMMA ScoringInvariant == ScoringSpec => []ScoringInv
  BY ScoringInitInv, ScoringStepInv, PTL DEF ScoringSpec

\* Neither another case nor another group of the same report decides a case:
\* what is scored was found between its own two fragments, linked one by one into
\* the one scratch archive (SerialBenchmarkCaseRunner.cases) or kept in a cache
\* that all runs share (DevelopmentSrcdiffCache), and by one move
\* (assess_positive_case), whatever the cases, the tools' output and the edits.
THEOREM CasesAlwaysApart == ScoringSpec => []CasesJudgedApart
  <1>1. ScoringInv => CasesJudgedApart
    <2> SUFFICES ASSUME ScoringInv PROVE CasesJudgedApart
      OBVIOUS
    <2>1. JudgedOnItsOwn
      BY DEF ScoringInv, AtHand, JudgedOnItsOwn
    <2>2. CASE stage = "reported"
      <3>1. Case \in CaseRecords
        BY <2>2, CasesAre DEF ScoringInv, ScoringTyped, ToolStages, Case
      <3>2. PICK M : \E b \in BOOLEAN : report = [moves |-> M, resolves |-> b]
        BY <2>2 DEF ScoringInv, AtHand
      <3>3. OneMoveDecides
        BY <3>1, <3>2, OneDecides
      <3> QED
        BY <2>1, <3>3 DEF CasesJudgedApart
    <2>3. CASE stage # "reported"
      BY <2>1, <2>3 DEF CasesJudgedApart, OneMoveDecides
    <2> QED
      BY <2>2, <2>3
  <1> QED
    BY <1>1, ScoringInvariant, PTL

\* What a run reports in the end follows from its rows and the registry its
\* journal names (pair_set_passes, _score_completed_case), over every number of
\* launches, retries and edits of the registry; an entry for another label than
\* that of the case (LabelCorrections.match) keeps a case of a derived category
\* from getting a row, and changes nothing for a case of the older rules.
THEOREM VerdictAlwaysEarned == ScoringSpec => []VerdictIsEarned
  <1>1. ScoringInv => VerdictIsEarned
    <2> SUFFICES ASSUME ScoringInv PROVE VerdictIsEarned
      OBVIOUS
    <2>1. ReviewOnlyRelabels
      <3>1. ASSUME NEW i \in DOMAIN Cases, scores[i] # None, Cases[i].kind = "positive"
            PROVE  /\ RowSound(scores[i], Cases[i], pinned, selected)
                   /\ Label(Cases[i]) = ReviewedCategory(Cases[i], pinned)
                   /\ Meant(Cases[i]) <=> Corrected(Cases[i], pinned)
                   /\ selected.membership = "derived" /\ Pair(Cases[i]) \in DOMAIN pinned
                         => Meant(Cases[i]) \/ Opposed(Cases[i], pinned, selected)
        BY <3>1, LabelIs DEF ScoringInv, RowsPinned, Opposed, Entered
      <3> QED
        BY <3>1 DEF RowSound, Agreement, ReviewOnlyRelabels
    <2>2. PassIsEarned
      BY DEF ScoringInv, Told, PassIsEarned
    <2> QED
      BY <2>1, <2>2 DEF VerdictIsEarned
  <1> QED
    BY <1>1, ScoringInvariant, PTL
=============================================================================
