-------------------------- MODULE BenchmarkArtifacts -------------------------
(***************************************************************************)
(* The publications a benchmark is made of (bigMoveBench/compile.py,       *)
(* catalog.py, selection.py, benchmark_cases.py, generated_objects.py).    *)
(* Processes over one data root prepare a suite: they reuse or compile the *)
(* dataset, select from it and publish cases.  No lock orders them: every  *)
(* publication is a directory named after its identity, built aside and    *)
(* renamed into place.                                                     *)
(*                                                                         *)
(* One compile scope and one selection request.  Upstream data is replaced *)
(* only while no process compiles: the compiler hashes the database last   *)
(* and would name rows after a database they are not from.                 *)
(***************************************************************************)
EXTENDS Trouble, FiniteSets

CONSTANTS
    Processes,
    MaxLaunches,  \* processes started in all
    None          \* nothing, or a file that is not there

VARIABLES
    upstream,    \* versions of the database and of the source files
    exports,     \* the cache of exported rows: the directory and its files
    index,       \* index.json: the dataset to try first
    datasets,    \* published datasets, [id, stamp]
    selections,  \* datasets a selection of which is published
    cases,       \* datasets whose selection has published cases
    objects,     \* generated objects: "absent", "writable" or "sealed"
    process,
    launches

published == <<datasets, selections, cases>>
vars == <<upstream, exports, index, published, objects, process, launches, troubles>>

Versions == {0, 1}
ASSUME NoneAssumption == None \notin Versions

Fragments == Versions \cup {None}  \* None: the wrapper around no fragment

NoExports == [there |-> FALSE, positive |-> None, negative |-> None, stated |-> None]
Blank == [db |-> None, positive |-> None, negative |-> None, files |-> None]
Down(exit) == [at |-> "down", exit |-> exit, verify |-> FALSE, rows |-> None, work |-> Blank,
               dataset |-> None, doomed |-> {}, object |-> None]

Init ==
    /\ upstream = [db |-> 0, files |-> 0]
    /\ exports = NoExports /\ index = None
    /\ datasets = {} /\ selections = {} /\ cases = {}
    /\ objects = [f \in Fragments |-> "absent"]
    /\ process = [p \in Processes |-> Down("none")]
    /\ launches = 0 /\ troubles = 0

At(p, label) == process[p].at = label
Becomes(p, record) == process' = [process EXCEPT ![p] = record]
Goto(p, label) == Becomes(p, [process[p] EXCEPT !.at = label])
LosesExports(p) == Becomes(p, Down("lost exports"))
Refuses(p) == Becomes(p, Down("refused"))
Stays == UNCHANGED <<upstream, launches, troubles>>

-----------------------------------------------------------------------------
(* Reuse of a compiled dataset. *)

Launch(p) ==
    /\ At(p, "down") /\ launches < MaxLaunches
    /\ launches' = launches + 1
    /\ \E verify \in BOOLEAN :
          Becomes(p, [Down("none") EXCEPT !.at = "find", !.verify = verify])
    /\ UNCHANGED <<upstream, exports, index, published, objects, troubles>>

\* The comparison with every file of the source data, checksums included.
VerifiedUpstream(d) == d.id.db = upstream.db /\ d.id.files = upstream.files

\* The indexed dataset comes first, then the directories in the order of
\* their names.  The choice is put in the index before it is verified.
Candidates == IF index \in {d.id : d \in datasets}
              THEN {d \in datasets : d.id = index} ELSE datasets

ReuseUnverified(p) ==  \* faulty, unused
    \E d \in Candidates :
        /\ index' = d.id
        /\ Becomes(p, [process[p] EXCEPT !.at = "select", !.dataset = d])
Reuse(p) ==
    \E d \in Candidates :
        /\ index' = d.id
        /\ Becomes(p, IF process[p].verify => VerifiedUpstream(d)
                      THEN [process[p] EXCEPT !.at = "select", !.dataset = d]
                      ELSE [process[p] EXCEPT !.at = "exports"])

FindReusable(p) ==
    /\ At(p, "find")
    /\ \/ Candidates # {} /\ Reuse(p)
       \/ Candidates = {} /\ Goto(p, "exports") /\ UNCHANGED index
    /\ Stays
    /\ UNCHANGED <<exports, published, objects>>

-----------------------------------------------------------------------------
(* The export of the rows.  Its cache is shared and has no lock. *)

CachedExportsKeptAnyway ==  \* faulty, unused
    /\ exports.stated # None
    /\ exports.positive = exports.stated.positive
    /\ exports.negative = exports.stated.negative
CachedExportsUsable ==
    /\ exports.stated # None
    /\ exports.stated.db = upstream.db
    /\ exports.positive = exports.stated.positive
    /\ exports.negative = exports.stated.negative

LoadOrClearExports(p) ==  \* faulty, unused
    /\ At(p, "exports")
    /\ IF CachedExportsUsable THEN Goto(p, "import") /\ UNCHANGED exports
       ELSE Goto(p, "export") /\ exports' = [NoExports EXCEPT !.there = TRUE]
    /\ Stays
    /\ UNCHANGED <<index, published, objects>>
LoadCachedExports(p) ==
    /\ At(p, "exports")
    /\ IF CachedExportsUsable THEN Goto(p, "import") /\ UNCHANGED exports
       ELSE Goto(p, "export") /\ exports' = [exports EXCEPT !.there = TRUE]
    /\ Stays
    /\ UNCHANGED <<index, published, objects>>

\* The database is queried into a directory of the process's own.
ExportH2(p) ==
    /\ At(p, "export")
    /\ Becomes(p, [process[p] EXCEPT !.at = "place positive", !.rows = upstream.db])
    /\ Stays
    /\ UNCHANGED <<exports, index, published, objects>>

\* A rename into a cache that another process has removed fails.
PlaceExport(p, kind, then) ==
    /\ IF exports.there
       THEN exports' = [exports EXCEPT ![kind] = process[p].rows] /\ Goto(p, then)
       ELSE LosesExports(p) /\ UNCHANGED exports
    /\ Stays
    /\ UNCHANGED <<index, published, objects>>

PlacePositive(p) == At(p, "place positive") /\ PlaceExport(p, "positive", "place negative")
PlaceNegative(p) == At(p, "place negative") /\ PlaceExport(p, "negative", "state")

StateExports(p) ==
    /\ At(p, "state")
    /\ IF exports.there
       THEN /\ exports' = [exports EXCEPT !.stated =
                  [db |-> upstream.db, positive |-> process[p].rows,
                   negative |-> process[p].rows]]
            /\ Goto(p, "import")
       ELSE LosesExports(p) /\ UNCHANGED exports
    /\ Stays
    /\ UNCHANGED <<index, published, objects>>

-----------------------------------------------------------------------------
(* The compilation, in a staging directory of the process's own. *)

ImportExport(p, kind, then) ==
    /\ IF exports[kind] = None THEN LosesExports(p)
       ELSE Becomes(p, [process[p] EXCEPT !.work[kind] = exports[kind], !.at = then])
    /\ Stays
    /\ UNCHANGED <<exports, index, published, objects>>

ImportPositive(p) == At(p, "import") /\ ImportExport(p, "positive", "import negative")
ImportNegative(p) == At(p, "import negative") /\ ImportExport(p, "negative", "materialize")

MaterializeFragments(p) ==
    /\ At(p, "materialize")
    /\ Becomes(p, [process[p] EXCEPT !.work.files = upstream.files, !.at = "identify"])
    /\ Stays
    /\ UNCHANGED <<exports, index, published, objects>>

\* The identity is made of what was imported and of the database as it is now.
Identify(p) ==
    /\ At(p, "identify")
    /\ Becomes(p, [process[p] EXCEPT !.work.db = upstream.db, !.at = "publish"])
    /\ Stays
    /\ UNCHANGED <<exports, index, published, objects>>

Adopts(p, d) == Becomes(p, [process[p] EXCEPT !.at = "record", !.dataset = d, !.work = Blank])

\* The manifest holds the time of its making, so two compilations of one
\* identity differ in it; the stamp stands for that.  Whichever is renamed
\* first stays, and the other process validates and adopts it.
PublishDatasetAnew(p) ==  \* faulty, unused
    /\ At(p, "publish")
    /\ LET new == [id |-> process[p].work, stamp |-> <<p, launches>>] IN
       /\ datasets' = {d \in datasets : d.id # process[p].work} \cup {new}
       /\ Adopts(p, new)
    /\ Stays
    /\ UNCHANGED <<exports, index, selections, cases, objects>>
PublishDataset(p) ==
    /\ At(p, "publish")
    /\ LET there == {d \in datasets : d.id = process[p].work}
           new == [id |-> process[p].work, stamp |-> <<p, launches>>]
       IN  \/ \E d \in there : Adopts(p, d) /\ UNCHANGED datasets
           \/ there = {} /\ datasets' = datasets \cup {new} /\ Adopts(p, new)
    /\ Stays
    /\ UNCHANGED <<exports, index, selections, cases, objects>>

RecordDataset(p) ==
    /\ At(p, "record")
    /\ index' = process[p].dataset.id
    /\ Goto(p, "list")
    /\ Stays
    /\ UNCHANGED <<exports, published, objects>>

\* The directory is listed, the files it had go one by one, then the directory.
\* A file that is gone or one that has come fails the removal.
Kinds == {"positive", "negative", "stated"}

ListExports(p) ==
    /\ At(p, "list")
    /\ Becomes(p, IF exports.there
                  THEN [process[p] EXCEPT !.at = "remove",
                           !.doomed = {kind \in Kinds : exports[kind] # None}]
                  ELSE [process[p] EXCEPT !.at = "select"])
    /\ Stays
    /\ UNCHANGED <<exports, index, published, objects>>

RemoveExports(p) ==
    /\ At(p, "remove")
    /\ \/ \E kind \in process[p].doomed :
             IF exports[kind] = None THEN LosesExports(p) /\ UNCHANGED exports
             ELSE /\ exports' = [exports EXCEPT ![kind] = None]
                  /\ Becomes(p, [process[p] EXCEPT !.doomed = @ \ {kind}])
       \/ /\ process[p].doomed = {}
          /\ IF exports = [NoExports EXCEPT !.there = TRUE]
             THEN exports' = NoExports /\ Goto(p, "select")
             ELSE LosesExports(p) /\ UNCHANGED exports
    /\ Stays
    /\ UNCHANGED <<index, published, objects>>

-----------------------------------------------------------------------------
(* Selection and cases. *)

CreateSelection(p) ==
    /\ At(p, "select")
    /\ selections' = selections \cup {process[p].dataset}
    /\ Goto(p, "cases")
    /\ Stays
    /\ UNCHANGED <<exports, index, datasets, cases, objects>>

\* The objects of a dataset's cases: the empty wrapper and its fragment's.
ObjectsOf(d) == {None, d.id.files}
ObjectsVerify(d) == \A f \in ObjectsOf(d) : objects[f] = "sealed"

ReuseCases(p) ==
    /\ At(p, "cases") /\ process[p].dataset \in cases
    /\ IF ObjectsVerify(process[p].dataset) THEN Becomes(p, Down("done")) ELSE Refuses(p)
    /\ Stays
    /\ UNCHANGED <<exports, index, published, objects>>

BeginCases(p) ==
    /\ At(p, "cases") /\ process[p].dataset \notin cases
    /\ IF process[p].dataset \in selections \cap datasets
       THEN Becomes(p, [process[p] EXCEPT !.at = "object", !.object = None])
       ELSE Refuses(p)
    /\ Stays
    /\ UNCHANGED <<exports, index, published, objects>>

\* A new object is linked into its place, then every user takes its write
\* permission away.
AfterObject(p) == IF process[p].object = None
                  THEN [process[p] EXCEPT !.at = "object", !.object = process[p].dataset.id.files]
                  ELSE [process[p] EXCEPT !.at = "publish cases", !.object = None]
SealNewObject(p) ==  \* faulty, unused
    /\ At(p, "object")
    /\ objects' = [objects EXCEPT ![process[p].object] =
                       IF @ = "absent" THEN "writable" ELSE @]
    /\ IF objects[process[p].object] = "absent" THEN Goto(p, "chmod")
       ELSE Becomes(p, AfterObject(p))
    /\ Stays
    /\ UNCHANGED <<exports, index, published>>
LinkObject(p) ==
    /\ At(p, "object")
    /\ objects' = [objects EXCEPT ![process[p].object] =
                       IF @ = "absent" THEN "writable" ELSE @]
    /\ Goto(p, "chmod")
    /\ Stays
    /\ UNCHANGED <<exports, index, published>>

SealObject(p) ==
    /\ At(p, "chmod")
    /\ objects' = [objects EXCEPT ![process[p].object] = "sealed"]
    /\ Becomes(p, AfterObject(p))
    /\ Stays
    /\ UNCHANGED <<exports, index, published>>

PublishCases(p) ==
    /\ At(p, "publish cases")
    /\ cases' = cases \cup {process[p].dataset}
    /\ IF ObjectsVerify(process[p].dataset) THEN Becomes(p, Down("done")) ELSE Refuses(p)
    /\ Stays
    /\ UNCHANGED <<exports, index, datasets, selections, objects>>

-----------------------------------------------------------------------------
(* Surroundings. *)

\* A kill, an interrupt or a full disk.  What is staged is removed or left
\* behind under a name nobody reads.
Stop(p) ==
    /\ ~At(p, "down")
    /\ Becomes(p, Down("stopped")) /\ Strike
    /\ UNCHANGED <<upstream, exports, index, published, objects, launches>>

Compiling(p) == process[p].at \in {"exports", "export", "place positive", "place negative",
                                   "state", "import", "import negative", "materialize",
                                   "identify", "publish"}

\* BigCloneBench is replaced, or what was there before is put back.
ReplaceUpstream ==
    /\ \A p \in Processes : ~Compiling(p)
    /\ \E part \in {"db", "files"} : upstream' = [upstream EXCEPT ![part] = 1 - @]
    /\ Strike
    /\ UNCHANGED <<exports, index, published, objects, process, launches>>

Step(p) ==
    \/ FindReusable(p)
    \/ LoadCachedExports(p) \/ ExportH2(p)
    \/ PlacePositive(p) \/ PlaceNegative(p) \/ StateExports(p)
    \/ ImportPositive(p) \/ ImportNegative(p) \/ MaterializeFragments(p) \/ Identify(p)
    \/ PublishDataset(p) \/ RecordDataset(p) \/ ListExports(p) \/ RemoveExports(p)
    \/ CreateSelection(p)
    \/ ReuseCases(p) \/ BeginCases(p) \/ LinkObject(p) \/ SealObject(p) \/ PublishCases(p)

Next == \/ \E p \in Processes : Launch(p) \/ Step(p) \/ Stop(p)
        \/ ReplaceUpstream

\* No liveness is claimed: no process waits for another.
Spec == Init /\ [][Next]_vars

-----------------------------------------------------------------------------
(* Properties. *)

\* What is published is whole, and its rows, both kinds of them, are those of
\* the database it is named after, whatever the cache went through.
IdentityNamesItsRows ==
    \A d \in datasets : /\ d.id.db # None /\ d.id.files # None
                        /\ d.id.positive = d.id.db /\ d.id.negative = d.id.db

\* Cases that are published can be run: all their objects are there, read-only,
\* and no process ever refuses what another has published.
PublishedIsRunnable ==
    /\ \A d \in cases : ObjectsVerify(d)
    /\ \A p \in Processes : process[p].exit # "refused"

\* Whoever loses the cached exports to another process loses them to one that
\* has published a dataset, so that a retry has something to reuse.
LosersFindADataset ==
    \A p \in Processes : process[p].exit = "lost exports" => datasets # {}

\* What one process has published serves every other one.
PublishedIsSound == IdentityNamesItsRows /\ PublishedIsRunnable /\ LosersFindADataset

\* A dataset that is compiled, or reused with --verify-source, is the one of
\* the data that is there.
AdoptedIsCurrent ==
    [][\A p \in Processes :
         (process'[p].dataset \notin {process[p].dataset, None}
            /\ (process[p].verify \/ At(p, "publish")))
         => VerifiedUpstream(process'[p].dataset)]_vars

\* The directories implement the abstract publications.
Abstract == INSTANCE Publications
ImplementsPublications == Abstract!Spec
=============================================================================
