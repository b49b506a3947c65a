--------------------- MODULE BenchmarkArtifactsProofs ----------------------
(***************************************************************************)
(* Whatever the number of processes, launches and troubles: what one       *)
(* process publishes is whole and serves every other one, a dataset that   *)
(* is adopted is the one of the data that is there, and the directories    *)
(* implement the abstract Publications.                                    *)
(*                                                                         *)
(* No process holds a lock, so the argument is about what all of them keep *)
(* together: while somebody compiles the upstream data stays what it is,   *)
(* and whatever anybody places in the cache is of that data; the cache     *)
(* loses a file only to somebody who has published a dataset.              *)
(*                                                                         *)
(* The last part is about CatalogFrames: whatever rows are labelled, a     *)
(* selection has a place for each and counts them rightly, a sample of the *)
(* strata is even, and a content has one label and one run.                *)
(***************************************************************************)
EXTENDS BenchmarkArtifacts, CatalogFrames, FiniteSetTheorems, TLAPS

Labels == {"down", "find", "exports", "export", "place positive", "place negative", "state",
           "import", "import negative", "materialize", "identify", "publish", "record",
           "list", "remove", "select", "cases", "object", "chmod", "publish cases"}
Exits == {"none", "lost exports", "refused", "done", "stopped"}
Rows == [db : Fragments, positive : Fragments, negative : Fragments, files : Fragments]
Statement == [db : Fragments, positive : Fragments, negative : Fragments]
Datasets == [id : Rows, stamp : Processes \X Nat]

ProcessRecord ==
    [at : Labels, exit : Exits, verify : BOOLEAN, rows : Fragments, work : Rows,
     dataset : Datasets \cup {None}, doomed : SUBSET Kinds, object : Fragments]

TypeOK ==
    /\ upstream \in [db : Versions, files : Versions]
    /\ exports \in [there : BOOLEAN, positive : Fragments, negative : Fragments,
                    stated : Statement \cup {None}]
    /\ index \in Rows \cup {None}
    /\ datasets \subseteq Datasets /\ selections \subseteq datasets /\ cases \subseteq selections
    /\ objects \in [Fragments -> {"absent", "writable", "sealed"}]
    /\ process \in [Processes -> ProcessRecord]
    /\ launches \in Nat

-----------------------------------------------------------------------------
(* The inductive invariant. *)

\* The files of the cache are of the data that is there, or gone, for all that
\* have placed them or admitted them and have not imported them yet.
PositivePlaced == {"place negative", "state", "import"}
NegativePlaced == {"state", "import", "import negative"}

CarriesCurrent(p) ==
    /\ process[p].at \in {"place positive", "place negative", "state"}
          => process[p].rows = upstream.db
    /\ process[p].at \in PositivePlaced => exports.positive \in {None, upstream.db}
    /\ process[p].at \in NegativePlaced => exports.negative \in {None, upstream.db}
    /\ process[p].at \in {"import negative", "materialize", "identify", "publish"}
          => process[p].work.positive = upstream.db
    /\ process[p].at \in {"materialize", "identify", "publish"}
          => process[p].work.negative = upstream.db
    /\ process[p].at \in {"identify", "publish"} => process[p].work.files = upstream.files
    /\ process[p].at = "publish" => process[p].work.db = upstream.db

\* What the cache states of itself is of one database.
StatedOfOne ==
    exports.stated # None => /\ exports.stated.db \in Versions
                             /\ exports.stated.positive = exports.stated.db
                             /\ exports.stated.negative = exports.stated.db

CurrentInv == StatedOfOne /\ IdentityNamesItsRows /\ \A p \in Processes : CarriesCurrent(p)

\* A file that was placed is there until somebody has published.
StillThere(p) ==
    /\ process[p].at \in {"export", "place positive", "place negative", "state"}
          => exports.there
    /\ process[p].at \in PositivePlaced => exports.positive # None
    /\ process[p].at \in NegativePlaced => exports.negative # None
    /\ process[p].exit # "lost exports"

FoundInv == datasets # {} \/ \A p \in Processes : StillThere(p)

\* Who has a dataset has a published one, and who works on its cases a
\* selected one.
Adopted == {"record", "list", "remove", "select"}
Working == {"cases", "object", "chmod", "publish cases"}
HoldsPublished(p) ==
    /\ process[p].at \in Adopted \cup Working => process[p].dataset \in datasets
    /\ process[p].at \in Working => process[p].dataset \in selections

HeldInv == \A p \in Processes : HoldsPublished(p)

\* The empty wrapper is sealed before the fragment of a dataset is made.
SealsInOrder(p) ==
    /\ process[p].at \in {"object", "chmod"}
          => process[p].object \in {None, process[p].dataset.id.files}
    /\ process[p].at \in {"object", "chmod"} /\ process[p].object # None
          => objects[None] = "sealed"
    /\ process[p].at = "publish cases" => ObjectsVerify(process[p].dataset)

ObjectsInv == PublishedIsRunnable /\ \A p \in Processes : SealsInOrder(p)

IInv == TypeOK /\ CurrentInv /\ FoundInv /\ HeldInv /\ ObjectsInv

-----------------------------------------------------------------------------
(* What a step does to the process that takes it. *)

Others(p) == \A q \in Processes : q # p => process'[q] = process[q]

LEMMA Moved ==
    ASSUME TypeOK, NEW p \in Processes, NEW r \in ProcessRecord, Becomes(p, r)
    PROVE  process' \in [Processes -> ProcessRecord] /\ process'[p] = r /\ Others(p)
  BY Zenon DEF Becomes, Others, TypeOK

LEMMA Blanks == None \in Fragments /\ Versions \subseteq Fragments /\ Blank \in Rows
  BY DEF Fragments, Blank, Rows

LEMMA Gone ==
    ASSUME TypeOK, NEW p \in Processes, NEW l \in Labels, Goto(p, l)
    PROVE  /\ process' \in [Processes -> ProcessRecord] /\ Others(p)
           /\ process'[p].at = l /\ process'[p].exit = process[p].exit
           /\ process'[p].rows = process[p].rows /\ process'[p].work = process[p].work
           /\ process'[p].dataset = process[p].dataset
           /\ process'[p].object = process[p].object
           /\ process'[p].verify = process[p].verify
  <1> DEFINE r == [process[p] EXCEPT !.at = l]
  <1>1. process[p] \in ProcessRecord
    BY DEF TypeOK
  <1>2. /\ r \in ProcessRecord /\ r.at = l /\ r.exit = process[p].exit
        /\ r.rows = process[p].rows /\ r.work = process[p].work
        /\ r.dataset = process[p].dataset /\ r.object = process[p].object
        /\ r.verify = process[p].verify
    BY <1>1 DEF ProcessRecord
  <1> HIDE DEF r
  <1>3. Becomes(p, r)
    BY DEF Goto, r
  <1> QED BY <1>2, <1>3, Moved

LEMMA Ended ==
    ASSUME TypeOK, NEW p \in Processes, NEW e \in Exits, Becomes(p, Down(e))
    PROVE  /\ process' \in [Processes -> ProcessRecord] /\ Others(p)
           /\ process'[p].at = "down" /\ process'[p].exit = e /\ process'[p].dataset = None
  <1>1. Down(e) \in ProcessRecord /\ Down(e).at = "down" /\ Down(e).exit = e
        /\ Down(e).dataset = None
    BY Blanks DEF ProcessRecord, Down, Labels
  <1> HIDE DEF Down
  <1> QED BY <1>1, Moved

LEMMA Tasked ==
    ASSUME TypeOK, NEW p \in Processes, NEW l \in Labels, NEW v \in Fragments,
           Becomes(p, [process[p] EXCEPT !.at = l, !.rows = v])
    PROVE  /\ process' \in [Processes -> ProcessRecord] /\ Others(p)
           /\ process'[p].at = l /\ process'[p].exit = process[p].exit
           /\ process'[p].rows = v /\ process'[p].dataset = process[p].dataset
  <1> DEFINE r == [process[p] EXCEPT !.at = l, !.rows = v]
  <1>1. process[p] \in ProcessRecord
    BY DEF TypeOK
  <1>2. /\ r \in ProcessRecord /\ r.at = l /\ r.exit = process[p].exit /\ r.rows = v
        /\ r.dataset = process[p].dataset
    BY <1>1 DEF ProcessRecord
  <1> HIDE DEF r
  <1> QED BY <1>2, Moved DEF r

LEMMA Compiled ==
    ASSUME TypeOK, NEW p \in Processes, NEW l \in Labels, NEW w \in Rows,
           Becomes(p, [process[p] EXCEPT !.work = w, !.at = l])
    PROVE  /\ process' \in [Processes -> ProcessRecord] /\ Others(p)
           /\ process'[p].at = l /\ process'[p].exit = process[p].exit
           /\ process'[p].work = w /\ process'[p].dataset = process[p].dataset
  <1> DEFINE r == [process[p] EXCEPT !.work = w, !.at = l]
  <1>1. process[p] \in ProcessRecord
    BY DEF TypeOK
  <1>2. r \in ProcessRecord /\ r.at = l /\ r.exit = process[p].exit /\ r.work = w
        /\ r.dataset = process[p].dataset
    BY <1>1 DEF ProcessRecord
  <1> HIDE DEF r
  <1> QED BY <1>2, Moved DEF r

LEMMA Adopting ==
    ASSUME TypeOK, NEW p \in Processes, NEW l \in Labels, NEW d \in Datasets,
           \/ Becomes(p, [process[p] EXCEPT !.at = l, !.dataset = d])
           \/ Adopts(p, d) /\ l = "record"
    PROVE  /\ process' \in [Processes -> ProcessRecord] /\ Others(p)
           /\ process'[p].at = l /\ process'[p].exit = process[p].exit
           /\ process'[p].dataset = d
  <1> DEFINE r == [process[p] EXCEPT !.at = l, !.dataset = d]
             s == [process[p] EXCEPT !.at = "record", !.dataset = d, !.work = Blank]
  <1>1. process[p] \in ProcessRecord
    BY DEF TypeOK
  <1>2. /\ r \in ProcessRecord /\ r.at = l /\ r.exit = process[p].exit /\ r.dataset = d
        /\ s \in ProcessRecord /\ s.at = "record" /\ s.exit = process[p].exit /\ s.dataset = d
    <2>1. "record" \in Labels
      BY DEF Labels
    <2> QED BY <1>1, <2>1, Blanks DEF ProcessRecord
  <1> HIDE DEF r, s
  <1>3. CASE Becomes(p, [process[p] EXCEPT !.at = l, !.dataset = d])
    <2>1. Becomes(p, r)
      BY <1>3 DEF r
    <2> QED BY <1>2, <2>1, Moved
  <1>4. CASE Adopts(p, d) /\ l = "record"
    <2>1. Becomes(p, s)
      BY <1>4 DEF s, Adopts
    <2> QED BY <1>2, <1>4, <2>1, Moved
  <1> QED BY <1>3, <1>4

LEMMA Dooming ==
    ASSUME TypeOK, NEW p \in Processes, NEW l \in Labels, NEW D \in SUBSET Kinds,
           Becomes(p, [process[p] EXCEPT !.at = l, !.doomed = D])
    PROVE  /\ process' \in [Processes -> ProcessRecord] /\ Others(p)
           /\ process'[p].at = l /\ process'[p].exit = process[p].exit
           /\ process'[p].dataset = process[p].dataset
  <1> DEFINE r == [process[p] EXCEPT !.at = l, !.doomed = D]
  <1>1. process[p] \in ProcessRecord
    BY DEF TypeOK
  <1>2. /\ r \in ProcessRecord /\ r.at = l /\ r.exit = process[p].exit
        /\ r.dataset = process[p].dataset
    BY <1>1 DEF ProcessRecord
  <1> HIDE DEF r
  <1> QED BY <1>2, Moved DEF r

Handles(p, l, o) == Becomes(p, [process[p] EXCEPT !.at = l, !.object = o])

LEMMA Handling ==
    ASSUME TypeOK, NEW p \in Processes, NEW l \in Labels, NEW o \in Fragments,
           Handles(p, l, o)
    PROVE  /\ process' \in [Processes -> ProcessRecord] /\ Others(p)
           /\ process'[p].at = l /\ process'[p].exit = process[p].exit
           /\ process'[p].dataset = process[p].dataset /\ process'[p].object = o
  <1> DEFINE r == [process[p] EXCEPT !.at = l, !.object = o]
  <1>1. process[p] \in ProcessRecord
    BY DEF TypeOK
  <1>2. /\ r \in ProcessRecord /\ r.at = l /\ r.exit = process[p].exit
        /\ r.dataset = process[p].dataset /\ r.object = o
    BY <1>1 DEF ProcessRecord
  <1> HIDE DEF r
  <1> QED BY <1>2, Moved DEF r, Handles

-----------------------------------------------------------------------------
(* What a step leaves to the processes that do not take it. *)

LEMMA CurrentFrame ==
    ASSUME NEW q, CarriesCurrent(q), process'[q] = process[q], upstream' = upstream,
           exports'.positive \in {exports.positive, None, upstream.db},
           exports'.negative \in {exports.negative, None, upstream.db}
    PROVE  CarriesCurrent(q)'
  BY DEF CarriesCurrent

LEMMA FoundFrame ==
    ASSUME NEW q, StillThere(q), process'[q] = process[q],
           exports.there => exports'.there,
           exports.positive # None => exports'.positive # None,
           exports.negative # None => exports'.negative # None
    PROVE  StillThere(q)'
  BY DEF StillThere

LEMMA HeldFrame ==
    ASSUME NEW q, HoldsPublished(q), process'[q] = process[q],
           datasets \subseteq datasets', selections \subseteq selections'
    PROVE  HoldsPublished(q)'
  BY DEF HoldsPublished

SealedStay == \A f \in Fragments : objects[f] = "sealed" => objects'[f] = "sealed"

LEMMA VerifyFrame ==
    ASSUME SealedStay, NEW d \in Datasets, ObjectsVerify(d)
    PROVE  ObjectsVerify(d)'
  BY Blanks DEF SealedStay, ObjectsVerify, ObjectsOf, Datasets, Rows

LEMMA SealsFrame ==
    ASSUME TypeOK, NEW q \in Processes, SealsInOrder(q), HoldsPublished(q),
           process'[q] = process[q], SealedStay
    PROVE  SealsInOrder(q)'
  <1>1. process[q].at = "publish cases" => process[q].dataset \in Datasets
    BY DEF TypeOK, HoldsPublished, Working
  <1>2. process[q].at = "publish cases" => ObjectsVerify(process[q].dataset)'
    BY <1>1, VerifyFrame DEF SealsInOrder
  <1>3. objects[None] = "sealed" => objects'[None] = "sealed"
    BY Blanks DEF SealedStay
  <1>4. (process[q].at = "publish cases" => ObjectsVerify(process[q].dataset))'
    <2>1. CASE process'[q].at = "publish cases"
      BY <1>2, <2>1 DEF ObjectsVerify, ObjectsOf
    <2> QED BY <2>1
  <1> QED BY <1>3, <1>4 DEF SealsInOrder

\* The part of the invariant that is about each process.
StepFrame(p) ==
    /\ process' \in [Processes -> ProcessRecord] /\ Others(p)
    /\ upstream' = upstream
    /\ exports'.positive \in {exports.positive, None, upstream.db}
    /\ exports'.negative \in {exports.negative, None, upstream.db}
    /\ \/ datasets' # {}
       \/ /\ exports.there => exports'.there
          /\ exports.positive # None => exports'.positive # None
          /\ exports.negative # None => exports'.negative # None
    /\ datasets \subseteq datasets' /\ selections \subseteq selections' /\ SealedStay

Own(p) == /\ CarriesCurrent(p) /\ HoldsPublished(p) /\ SealsInOrder(p)
          /\ process[p].exit # "refused"
          /\ datasets # {} \/ StillThere(p)

Tables == StatedOfOne /\ IdentityNamesItsRows /\ \A d \in cases : ObjectsVerify(d)

LEMMA StepFollows ==
    ASSUME IInv, NEW p \in Processes, StepFrame(p), Own(p)', Tables'
    PROVE  CurrentInv' /\ FoundInv' /\ HeldInv' /\ ObjectsInv'
  <1>1. ASSUME NEW q \in Processes
        PROVE  /\ CarriesCurrent(q)' /\ HoldsPublished(q)' /\ SealsInOrder(q)'
               /\ process'[q].exit # "refused"
    <2>1. CASE q = p
      <3>1. (q = p /\ Own(p) => /\ CarriesCurrent(q) /\ HoldsPublished(q) /\ SealsInOrder(q)
                                /\ process[q].exit # "refused")'
        BY Zenon DEF Own
      <3> QED BY Zenon, <2>1, <3>1
    <2>2. CASE q # p
      <3>1. process'[q] = process[q]
        BY <2>2 DEF StepFrame, Others
      <3>2. /\ CarriesCurrent(q) /\ HoldsPublished(q) /\ SealsInOrder(q)
            /\ process[q].exit # "refused" /\ TypeOK
        BY DEF IInv, CurrentInv, HeldInv, ObjectsInv, PublishedIsRunnable
      <3>3. CarriesCurrent(q)'
        BY <3>1, <3>2, CurrentFrame DEF StepFrame
      <3>4. HoldsPublished(q)'
        BY <3>1, <3>2, HeldFrame DEF StepFrame
      <3>5. SealsInOrder(q)'
        BY <3>1, <3>2, SealsFrame DEF StepFrame
      <3> QED BY <3>1, <3>2, <3>3, <3>4, <3>5
    <2> QED BY <2>1, <2>2
  <1>2. FoundInv'
    <2>1. CASE datasets' # {}
      BY <2>1 DEF FoundInv
    <2>2. CASE datasets' = {}
      <3>1. datasets = {} /\ \A q \in Processes : StillThere(q)
        BY <2>2 DEF StepFrame, IInv, FoundInv
      <3>2. ASSUME NEW q \in Processes, q # p
            PROVE  StillThere(q)'
        BY <2>2, <3>1, <3>2, FoundFrame DEF StepFrame, Others
      <3>3. StillThere(p)'
        BY <2>2 DEF Own
      <3>4. ASSUME NEW q \in Processes PROVE StillThere(q)'
        <4>1. CASE q = p
          <5>1. (q = p /\ StillThere(p) => StillThere(q))'
            BY Zenon
          <5> QED BY <3>3, <4>1, <5>1
        <4> QED BY <3>2, <4>1
      <3> QED BY <3>4 DEF FoundInv
    <2> QED BY <2>1, <2>2
  <1> QED BY <1>1, <1>2 DEF CurrentInv, HeldInv, ObjectsInv, PublishedIsRunnable, Tables

-----------------------------------------------------------------------------
(* The steps. *)

LEMMA Tabulated ==
    TypeOK => /\ upstream.db \in Versions /\ upstream.files \in Versions
              /\ exports.positive \in Fragments /\ exports.negative \in Fragments
              /\ upstream.db \in Fragments /\ upstream.files \in Fragments
              /\ upstream.db # None /\ upstream.files # None
              /\ datasets \subseteq Datasets
              /\ \A p \in Processes : process[p] \in ProcessRecord
  BY NoneAssumption DEF TypeOK, Fragments

LEMMA Parts ==
    ASSUME IInv, NEW p \in Processes
    PROVE  /\ TypeOK /\ CarriesCurrent(p) /\ HoldsPublished(p) /\ SealsInOrder(p) /\ Tables
           /\ process[p].exit # "refused" /\ (datasets # {} \/ StillThere(p))
  BY DEF IInv, CurrentInv, FoundInv, HeldInv, ObjectsInv, PublishedIsRunnable, Tables

\* A step that changes nothing but its process and the index.
Alone(p) == /\ UNCHANGED <<upstream, exports, published, objects>>
            /\ index' \in Rows \cup {None} /\ launches' \in Nat
            /\ process' \in [Processes -> ProcessRecord] /\ Others(p)

LEMMA AloneFollows ==
    ASSUME IInv, NEW p \in Processes, Alone(p), Own(p)'
    PROVE  IInv'
  <1>1. TypeOK'
    BY DEF IInv, TypeOK, Alone, published
  <1>2. StepFrame(p)
    BY DEF IInv, FoundInv, StepFrame, SealedStay, Alone, published
  <1>3. Tables'
    <2>1. \A d : ObjectsVerify(d) => ObjectsVerify(d)'
      BY DEF Alone, ObjectsVerify, ObjectsOf
    <2> QED BY <2>1, Parts DEF Tables, StatedOfOne, IdentityNamesItsRows, Alone, published
  <1> QED BY <1>1, <1>2, <1>3, StepFollows DEF IInv

LEMMA LaunchKeeps ==
    ASSUME IInv, NEW p \in Processes, Launch(p)
    PROVE  IInv'
  <1>1. PICK v \in BOOLEAN : Becomes(p, [Down("none") EXCEPT !.at = "find", !.verify = v])
    BY DEF Launch
  <1> DEFINE r == [Down("none") EXCEPT !.at = "find", !.verify = v]
  <1>2. r \in ProcessRecord /\ r.at = "find" /\ r.exit = "none"
    BY Blanks DEF ProcessRecord, Down, Labels, Exits
  <1> HIDE DEF r
  <1>3. /\ process' \in [Processes -> ProcessRecord] /\ Others(p)
        /\ process'[p].at = "find" /\ process'[p].exit = "none"
    BY <1>1, <1>2, Parts, Moved DEF r
  <1>4. Alone(p)
    BY <1>3, Parts DEF Launch, Alone, TypeOK
  <1>5. Own(p)'
    BY <1>3 DEF Own, CarriesCurrent, HoldsPublished, SealsInOrder, StillThere,
                PositivePlaced, NegativePlaced, Adopted, Working
  <1> QED BY <1>4, <1>5, AloneFollows

LEMMA EndKeeps ==
    ASSUME IInv, NEW p \in Processes, NEW e \in Exits \ {"refused"}, Becomes(p, Down(e)),
           UNCHANGED <<upstream, exports, index, published, objects, launches>>,
           e = "lost exports" => datasets # {}
    PROVE  IInv'
  <1>1. /\ process' \in [Processes -> ProcessRecord] /\ Others(p)
        /\ process'[p].at = "down" /\ process'[p].exit = e
    BY Parts, Ended
  <1>2. Alone(p)
    BY <1>1, Parts DEF Alone, TypeOK
  <1>3. Own(p)'
    BY <1>1 DEF Own, CarriesCurrent, HoldsPublished, SealsInOrder, StillThere,
                PositivePlaced, NegativePlaced, Adopted, Working, published
  <1> QED BY <1>2, <1>3, AloneFollows

LEMMA FindKeeps ==
    ASSUME IInv, NEW p \in Processes, FindReusable(p)
    PROVE  IInv'
  <1>0. TypeOK /\ UNCHANGED <<upstream, exports, published, objects, launches>>
        /\ process[p].exit # "refused" /\ (datasets # {} \/ process[p].exit # "lost exports")
    BY Parts DEF FindReusable, Stays, StillThere
  <1>1. CASE Candidates # {} /\ Reuse(p)
    <2>1. PICK d \in Candidates :
             /\ index' = d.id
             /\ Becomes(p, IF process[p].verify => VerifiedUpstream(d)
                           THEN [process[p] EXCEPT !.at = "select", !.dataset = d]
                           ELSE [process[p] EXCEPT !.at = "exports"])
      BY <1>1 DEF Reuse
    <2>2. d \in datasets /\ d \in Datasets /\ d.id \in Rows
      BY <1>0, Tabulated DEF Candidates, Datasets
    <2>3. CASE process[p].verify => VerifiedUpstream(d)
      <3>1. /\ process' \in [Processes -> ProcessRecord] /\ Others(p)
            /\ process'[p].at = "select" /\ process'[p].exit = process[p].exit
            /\ process'[p].dataset = d
        BY <1>0, <2>1, <2>2, <2>3, Adopting DEF Labels
      <3>2. Alone(p)
        BY <1>0, <2>1, <2>2, <3>1 DEF Alone, TypeOK
      <3>3. Own(p)'
        BY <1>0, <2>2, <3>1 DEF Own, CarriesCurrent, HoldsPublished, SealsInOrder,
           StillThere, PositivePlaced, NegativePlaced, Adopted, Working, published
      <3> QED BY <3>2, <3>3, AloneFollows
    <2>4. CASE ~(process[p].verify => VerifiedUpstream(d))
      <3>1. Goto(p, "exports")
        BY <2>1, <2>4 DEF Goto
      <3>2. /\ process' \in [Processes -> ProcessRecord] /\ Others(p)
            /\ process'[p].at = "exports" /\ process'[p].exit = process[p].exit
        BY <1>0, <3>1, Gone DEF Labels
      <3>3. Alone(p)
        BY <1>0, <2>1, <2>2, <3>2 DEF Alone, TypeOK
      <3>4. Own(p)'
        BY <1>0, <3>2 DEF Own, CarriesCurrent, HoldsPublished, SealsInOrder,
           StillThere, PositivePlaced, NegativePlaced, Adopted, Working, published
      <3> QED BY <3>3, <3>4, AloneFollows
    <2> QED BY <2>3, <2>4
  <1>2. CASE Candidates = {} /\ Goto(p, "exports") /\ UNCHANGED index
    <2>1. /\ process' \in [Processes -> ProcessRecord] /\ Others(p)
          /\ process'[p].at = "exports" /\ process'[p].exit = process[p].exit
      BY <1>0, <1>2, Gone DEF Labels
    <2>2. Alone(p)
      BY <1>0, <1>2, <2>1 DEF Alone, TypeOK
    <2>3. Own(p)'
      BY <1>0, <2>1 DEF Own, CarriesCurrent, HoldsPublished, SealsInOrder,
         StillThere, PositivePlaced, NegativePlaced, Adopted, Working, published
    <2> QED BY <2>2, <2>3, AloneFollows
  <1> QED BY <1>1, <1>2 DEF FindReusable

\* A step that changes the cache and its process.
Caching(p) == /\ UNCHANGED <<upstream, index, published, objects, launches>>
              /\ exports' \in [there : BOOLEAN, positive : Fragments, negative : Fragments,
                               stated : Statement \cup {None}]
              /\ process' \in [Processes -> ProcessRecord] /\ Others(p)

LEMMA CacheFollows ==
    ASSUME IInv, NEW p \in Processes, Caching(p), StatedOfOne', Own(p)',
           exports'.positive \in {exports.positive, None, upstream.db},
           exports'.negative \in {exports.negative, None, upstream.db},
           \/ datasets # {}
           \/ /\ exports.there => exports'.there
              /\ exports.positive # None => exports'.positive # None
              /\ exports.negative # None => exports'.negative # None
    PROVE  IInv'
  <1>1. TypeOK'
    BY DEF IInv, TypeOK, Caching, published
  <1>2. StepFrame(p)
    BY DEF IInv, FoundInv, StepFrame, SealedStay, Caching, published
  <1>3. Tables'
    <2>1. \A d : ObjectsVerify(d) => ObjectsVerify(d)'
      BY DEF Caching, ObjectsVerify, ObjectsOf
    <2> QED BY <2>1, Parts DEF Tables, StatedOfOne, IdentityNamesItsRows, Caching, published
  <1> QED BY <1>1, <1>2, <1>3, StepFollows DEF IInv

LEMMA LoadKeeps ==
    ASSUME IInv, NEW p \in Processes, LoadCachedExports(p)
    PROVE  IInv'
  <1>0. /\ TypeOK /\ UNCHANGED <<upstream, index, published, objects, launches>>
        /\ process[p].exit # "refused" /\ (datasets # {} \/ process[p].exit # "lost exports")
    BY Parts DEF LoadCachedExports, Stays, StillThere, published
  <1>1. CASE CachedExportsUsable /\ Goto(p, "import") /\ UNCHANGED exports
    <2>1. /\ process' \in [Processes -> ProcessRecord] /\ Others(p)
          /\ process'[p].at = "import" /\ process'[p].exit = process[p].exit
      BY <1>0, <1>1, Gone DEF Labels
    <2>2. Alone(p)
      BY <1>0, <1>1, <2>1 DEF Alone, TypeOK
    <2>3. exports.positive = upstream.db /\ exports.negative = upstream.db
      BY <1>1, Parts DEF Tables, StatedOfOne, CachedExportsUsable
    <2>4. upstream.db # None
      BY <1>0, Tabulated
    <2>5. Own(p)'
      BY <1>0, <1>1, <2>1, <2>3, <2>4 DEF Own, CarriesCurrent, HoldsPublished, SealsInOrder,
         StillThere, PositivePlaced, NegativePlaced, Adopted, Working, published
    <2> QED BY <2>2, <2>5, AloneFollows
  <1>2. CASE Goto(p, "export") /\ exports' = [exports EXCEPT !.there = TRUE]
    <2>1. /\ process' \in [Processes -> ProcessRecord] /\ Others(p)
          /\ process'[p].at = "export" /\ process'[p].exit = process[p].exit
      BY <1>0, <1>2, Gone DEF Labels
    <2>2. /\ exports' \in [there : BOOLEAN, positive : Fragments, negative : Fragments,
                           stated : Statement \cup {None}]
          /\ exports'.there = TRUE /\ exports'.positive = exports.positive
          /\ exports'.negative = exports.negative /\ exports'.stated = exports.stated
      BY <1>0, <1>2 DEF TypeOK
    <2>3. Caching(p) /\ StatedOfOne'
      BY <1>0, <2>1, <2>2, Parts DEF Caching, Tables, StatedOfOne
    <2>4. Own(p)'
      BY <1>0, <2>1, <2>2 DEF Own, CarriesCurrent, HoldsPublished, SealsInOrder,
         StillThere, PositivePlaced, NegativePlaced, Adopted, Working, published
    <2> QED BY <2>2, <2>3, <2>4, CacheFollows
  <1> QED BY <1>1, <1>2 DEF LoadCachedExports

LEMMA ExportKeeps ==
    ASSUME IInv, NEW p \in Processes, ExportH2(p)
    PROVE  IInv'
  <1>0. /\ TypeOK /\ UNCHANGED <<upstream, exports, index, published, objects, launches>>
        /\ process[p].exit # "refused" /\ (datasets # {} \/ StillThere(p))
        /\ process[p].at = "export" /\ upstream.db \in Fragments
    BY Parts, Tabulated DEF ExportH2, Stays, At, published
  <1>1. /\ process' \in [Processes -> ProcessRecord] /\ Others(p)
        /\ process'[p].at = "place positive" /\ process'[p].exit = process[p].exit
        /\ process'[p].rows = upstream.db
    <2>1. Becomes(p, [process[p] EXCEPT !.at = "place positive", !.rows = upstream.db])
      BY DEF ExportH2
    <2>2. "place positive" \in Labels
      BY DEF Labels
    <2> QED BY <1>0, <2>1, <2>2, Tasked
  <1>2. Alone(p)
    BY <1>0, <1>1 DEF Alone, TypeOK
  <1>3. Own(p)'
    BY <1>0, <1>1 DEF Own, CarriesCurrent, HoldsPublished, SealsInOrder,
         StillThere, PositivePlaced, NegativePlaced, Adopted, Working, published
  <1> QED BY <1>2, <1>3, AloneFollows

LEMMA PlaceKeeps ==
    ASSUME IInv, NEW p \in Processes, PlacePositive(p) \/ PlaceNegative(p)
    PROVE  IInv'
  <1>0. /\ TypeOK /\ UNCHANGED <<upstream, index, published, objects, launches>>
        /\ process[p].exit # "refused" /\ (datasets # {} \/ StillThere(p)) /\ CarriesCurrent(p)
        /\ process[p].at \in {"place positive", "place negative"}
        /\ process[p].rows = upstream.db /\ upstream.db \in Fragments /\ upstream.db # None
    BY Parts, Tabulated
       DEF PlacePositive, PlaceNegative, PlaceExport, Stays, At, CarriesCurrent, published
  <1>1. CASE exports.there
    <2>1. PICK kind \in {"positive", "negative"}, then \in {"place negative", "state"} :
             /\ exports' = [exports EXCEPT ![kind] = process[p].rows] /\ Goto(p, then)
             /\ \/ kind = "positive" /\ process[p].at = "place positive" /\ then = "place negative"
                \/ kind = "negative" /\ process[p].at = "place negative" /\ then = "state"
      <3>1. CASE PlacePositive(p)
        BY <1>1, <3>1 DEF PlacePositive, PlaceExport, At
      <3>2. CASE PlaceNegative(p)
        BY <1>1, <3>2 DEF PlaceNegative, PlaceExport, At
      <3> QED BY <3>1, <3>2
    <2>2. /\ process' \in [Processes -> ProcessRecord] /\ Others(p)
          /\ process'[p].at = then /\ process'[p].exit = process[p].exit
          /\ process'[p].rows = process[p].rows
      BY <1>0, <2>1, Gone DEF Labels
    <2>3. /\ exports' \in [there : BOOLEAN, positive : Fragments, negative : Fragments,
                           stated : Statement \cup {None}]
          /\ exports'.there = exports.there /\ exports'.stated = exports.stated
          /\ kind = "positive" => /\ exports'.positive = upstream.db
                                  /\ exports'.negative = exports.negative
          /\ kind = "negative" => /\ exports'.negative = upstream.db
                                  /\ exports'.positive = exports.positive
      BY <1>0, <2>1 DEF TypeOK
    <2>4. Caching(p) /\ StatedOfOne'
      BY <1>0, <2>2, <2>3, Parts DEF Caching, Tables, StatedOfOne
    <2>5. Own(p)'
      BY <1>0, <1>1, <2>1, <2>2, <2>3 DEF Own, CarriesCurrent, HoldsPublished, SealsInOrder,
         StillThere, PositivePlaced, NegativePlaced, Adopted, Working, published
    <2> QED BY <1>0, <2>1, <2>3, <2>4, <2>5, CacheFollows
  <1>2. CASE ~exports.there
    <2>1. LosesExports(p) /\ UNCHANGED exports
      BY <1>2 DEF PlacePositive, PlaceNegative, PlaceExport
    <2>2. datasets # {}
      BY <1>0, <1>2 DEF StillThere
    <2> QED BY <1>0, <2>1, <2>2, EndKeeps DEF LosesExports, Exits
  <1> QED BY <1>1, <1>2

LEMMA StateKeeps ==
    ASSUME IInv, NEW p \in Processes, StateExports(p)
    PROVE  IInv'
  <1>0. /\ TypeOK /\ UNCHANGED <<upstream, index, published, objects, launches>>
        /\ process[p].exit # "refused" /\ (datasets # {} \/ StillThere(p)) /\ CarriesCurrent(p)
        /\ process[p].at = "state" /\ upstream.db \in Versions
        /\ process[p].rows = upstream.db /\ upstream.db \in Fragments
    BY Parts, Tabulated DEF StateExports, Stays, At, CarriesCurrent, published
  <1>1. CASE exports.there
    <2> DEFINE stated == [db |-> upstream.db, positive |-> process[p].rows,
                          negative |-> process[p].rows]
    <2>1. exports' = [exports EXCEPT !.stated = stated] /\ Goto(p, "import")
      BY <1>1 DEF StateExports
    <2>2. /\ stated \in Statement /\ stated.db = upstream.db
          /\ stated.positive = stated.db /\ stated.negative = stated.db
      BY <1>0 DEF Statement
    <2> HIDE DEF stated
    <2>3. /\ process' \in [Processes -> ProcessRecord] /\ Others(p)
          /\ process'[p].at = "import" /\ process'[p].exit = process[p].exit
      BY <1>0, <2>1, Gone DEF Labels
    <2>4. /\ exports' \in [there : BOOLEAN, positive : Fragments, negative : Fragments,
                           stated : Statement \cup {None}]
          /\ exports'.there = exports.there /\ exports'.stated = stated
          /\ exports'.positive = exports.positive /\ exports'.negative = exports.negative
      BY <1>0, <2>1, <2>2 DEF TypeOK
    <2>5. Caching(p) /\ StatedOfOne'
      BY <1>0, <2>2, <2>3, <2>4 DEF Caching, StatedOfOne
    <2>6. Own(p)'
      BY <1>0, <2>3, <2>4 DEF Own, CarriesCurrent, HoldsPublished, SealsInOrder,
         StillThere, PositivePlaced, NegativePlaced, Adopted, Working, published
    <2> QED BY <2>4, <2>5, <2>6, CacheFollows
  <1>2. CASE ~exports.there
    <2>1. LosesExports(p) /\ UNCHANGED exports
      BY <1>2 DEF StateExports
    <2>2. datasets # {}
      BY <1>0, <1>2 DEF StillThere
    <2> QED BY <1>0, <2>1, <2>2, EndKeeps DEF LosesExports, Exits
  <1> QED BY <1>1, <1>2

LEMMA ImportKeeps ==
    ASSUME IInv, NEW p \in Processes, ImportPositive(p) \/ ImportNegative(p)
    PROVE  IInv'
  <1>0. /\ TypeOK /\ UNCHANGED <<upstream, exports, index, published, objects, launches>>
        /\ process[p].exit # "refused" /\ (datasets # {} \/ StillThere(p)) /\ CarriesCurrent(p)
        /\ exports.positive \in Fragments /\ exports.negative \in Fragments
    BY Parts, Tabulated DEF ImportPositive, ImportNegative, ImportExport, Stays, published
  <1>1. PICK kind \in {"positive", "negative"},
             then \in {"import negative", "materialize"} :
           /\ ImportExport(p, kind, then)
           /\ \/ kind = "positive" /\ process[p].at = "import" /\ then = "import negative"
              \/ kind = "negative" /\ process[p].at = "import negative" /\ then = "materialize"
    <2>1. CASE ImportPositive(p)
      BY <2>1 DEF ImportPositive, At
    <2>2. CASE ImportNegative(p)
      BY <2>2 DEF ImportNegative, At
    <2> QED BY <2>1, <2>2
  <1>2. CASE exports[kind] = None
    <2>1. LosesExports(p)
      BY <1>1, <1>2 DEF ImportExport
    <2>2. datasets # {}
      BY <1>0, <1>1, <1>2 DEF StillThere, PositivePlaced, NegativePlaced
    <2> QED BY <1>0, <2>1, <2>2, EndKeeps DEF LosesExports, Exits
  <1>3. CASE exports[kind] # None
    <2>1. Becomes(p, [process[p] EXCEPT !.work[kind] = exports[kind], !.at = then])
      BY <1>1, <1>3 DEF ImportExport
    <2>2. exports[kind] \in Fragments /\ exports[kind] = upstream.db
      BY <1>0, <1>1, <1>3 DEF CarriesCurrent, PositivePlaced, NegativePlaced
    <2> DEFINE w == [process[p].work EXCEPT ![kind] = upstream.db]
    <2>3. /\ w \in Rows
          /\ kind = "positive" => w.positive = upstream.db
          /\ kind = "negative" => /\ w.negative = upstream.db
                                  /\ w.positive = process[p].work.positive
      <3>1. process[p].work \in Rows
        BY <1>0 DEF TypeOK, ProcessRecord
      <3>2. CASE kind = "positive"
        <4>1. w = [process[p].work EXCEPT !.positive = upstream.db]
          BY <3>2
        <4> HIDE DEF w
        <4> QED BY <2>2, <3>1, <3>2, <4>1 DEF Rows
      <3>3. CASE kind = "negative"
        <4>1. w = [process[p].work EXCEPT !.negative = upstream.db]
          BY <3>3
        <4> HIDE DEF w
        <4> QED BY <2>2, <3>1, <3>3, <4>1 DEF Rows
      <3> QED BY <3>2, <3>3
    <2>4. Becomes(p, [process[p] EXCEPT !.work = w, !.at = then])
      BY <2>1, <2>2
    <2> HIDE DEF w
    <2>a. /\ process' \in [Processes -> ProcessRecord] /\ Others(p)
          /\ process'[p].at = then /\ process'[p].exit = process[p].exit
          /\ process'[p].work = w
      <3>1. then \in Labels
        BY DEF Labels
      <3> QED BY <1>0, <2>3, <2>4, <3>1, Compiled
    <2>5. Alone(p)
      BY <1>0, <2>a DEF Alone, TypeOK
    <2>6. Own(p)'
      BY <1>0, <1>1, <2>3, <2>a DEF Own, CarriesCurrent, HoldsPublished, SealsInOrder,
         StillThere, PositivePlaced, NegativePlaced, Adopted, Working, published
    <2> QED BY <2>5, <2>6, AloneFollows
  <1> QED BY <1>2, <1>3

LEMMA CompileKeeps ==
    ASSUME IInv, NEW p \in Processes, MaterializeFragments(p) \/ Identify(p)
    PROVE  IInv'
  <1>0. /\ TypeOK /\ UNCHANGED <<upstream, exports, index, published, objects, launches>>
        /\ process[p].exit # "refused" /\ (datasets # {} \/ StillThere(p)) /\ CarriesCurrent(p)
        /\ upstream.db \in Fragments /\ upstream.files \in Fragments
    BY Parts, Tabulated DEF MaterializeFragments, Identify, Stays, published
  <1>1. CASE MaterializeFragments(p)
    <2> DEFINE w == [process[p].work EXCEPT !.files = upstream.files]
    <2>1. /\ w \in Rows /\ w.files = upstream.files
          /\ w.positive = process[p].work.positive
          /\ w.negative = process[p].work.negative
      <3>1. process[p].work \in Rows
        BY <1>0 DEF TypeOK, ProcessRecord
      <3> QED BY <1>0, <3>1 DEF Rows
    <2>2. Becomes(p, [process[p] EXCEPT !.work = w, !.at = "identify"])
      BY <1>1 DEF MaterializeFragments
    <2> HIDE DEF w
    <2>3. /\ process' \in [Processes -> ProcessRecord] /\ Others(p)
          /\ process'[p].at = "identify" /\ process'[p].exit = process[p].exit
          /\ process'[p].work = w
      <3>1. "identify" \in Labels
        BY DEF Labels
      <3> QED BY <1>0, <2>1, <2>2, <3>1, Compiled
    <2>4. Alone(p)
      BY <1>0, <2>3 DEF Alone, TypeOK
    <2>5. Own(p)'
      BY <1>0, <1>1, <2>1, <2>3 DEF MaterializeFragments, At,
         Own, CarriesCurrent, HoldsPublished, SealsInOrder,
         StillThere, PositivePlaced, NegativePlaced, Adopted, Working, published
    <2> QED BY <2>4, <2>5, AloneFollows
  <1>2. CASE Identify(p)
    <2> DEFINE w == [process[p].work EXCEPT !.db = upstream.db]
    <2>1. /\ w \in Rows /\ w.db = upstream.db
          /\ w.positive = process[p].work.positive
          /\ w.negative = process[p].work.negative
          /\ w.files = process[p].work.files
      <3>1. process[p].work \in Rows
        BY <1>0 DEF TypeOK, ProcessRecord
      <3> QED BY <1>0, <3>1 DEF Rows
    <2>2. Becomes(p, [process[p] EXCEPT !.work = w, !.at = "publish"])
      BY <1>2 DEF Identify
    <2> HIDE DEF w
    <2>3. /\ process' \in [Processes -> ProcessRecord] /\ Others(p)
          /\ process'[p].at = "publish" /\ process'[p].exit = process[p].exit
          /\ process'[p].work = w
      <3>1. "publish" \in Labels
        BY DEF Labels
      <3> QED BY <1>0, <2>1, <2>2, <3>1, Compiled
    <2>4. Alone(p)
      BY <1>0, <2>3 DEF Alone, TypeOK
    <2>5. Own(p)'
      BY <1>0, <1>2, <2>1, <2>3 DEF Identify, At, Own, CarriesCurrent, HoldsPublished, SealsInOrder,
         StillThere, PositivePlaced, NegativePlaced, Adopted, Working, published
    <2> QED BY <2>4, <2>5, AloneFollows
  <1> QED BY <1>1, <1>2

LEMMA PublishKeeps ==
    ASSUME IInv, NEW p \in Processes, PublishDataset(p)
    PROVE  IInv' /\ VerifiedUpstream(process'[p].dataset)
  <1>0. /\ TypeOK /\ UNCHANGED <<upstream, exports, index, selections, cases, objects, launches>>
        /\ process[p].exit # "refused" /\ CarriesCurrent(p) /\ Tables
        /\ process[p].at = "publish" /\ upstream.db # None /\ upstream.files # None
        /\ datasets \subseteq Datasets /\ launches \in Nat
    BY Parts, Tabulated DEF PublishDataset, Stays, At, TypeOK
  <1>1. /\ process[p].work \in Rows
        /\ process[p].work.db = upstream.db /\ process[p].work.positive = upstream.db
        /\ process[p].work.negative = upstream.db /\ process[p].work.files = upstream.files
    BY <1>0 DEF TypeOK, ProcessRecord, CarriesCurrent
  <1>2. PICK d \in Datasets : /\ d.id = process[p].work /\ datasets' = datasets \cup {d}
                              /\ Adopts(p, d)
    <2> DEFINE new == [id |-> process[p].work, stamp |-> <<p, launches>>]
    <2>1. new \in Datasets /\ new.id = process[p].work
      BY <1>0, <1>1 DEF Datasets
    <2> HIDE DEF new
    <2>2. CASE \E d \in {d \in datasets : d.id = process[p].work} :
                  Adopts(p, d) /\ UNCHANGED datasets
      BY <1>0, <2>2
    <2>3. CASE datasets' = datasets \cup {new} /\ Adopts(p, new)
      BY <2>1, <2>3
    <2> QED BY <2>2, <2>3 DEF PublishDataset, new
  <1>3. /\ process' \in [Processes -> ProcessRecord] /\ Others(p)
        /\ process'[p].at = "record" /\ process'[p].exit = process[p].exit
        /\ process'[p].dataset = d
    <2>1. "record" \in Labels
      BY DEF Labels
    <2> QED BY <1>0, <1>2, <2>1, Adopting
  <1>4. TypeOK'
    BY <1>0, <1>2, <1>3 DEF TypeOK
  <1>5. StepFrame(p)
    BY <1>0, <1>2, <1>3 DEF StepFrame, SealedStay
  <1>6. Own(p)'
    BY <1>0, <1>2, <1>3 DEF Own, CarriesCurrent, HoldsPublished, SealsInOrder,
         StillThere, PositivePlaced, NegativePlaced, Adopted, Working, published
  <1>7. Tables'
    <2>1. \A e : ObjectsVerify(e) => ObjectsVerify(e)'
      BY <1>0 DEF ObjectsVerify, ObjectsOf
    <2>2. IdentityNamesItsRows'
      BY <1>0, <1>1, <1>2 DEF Tables, IdentityNamesItsRows
    <2> QED BY <1>0, <2>1, <2>2 DEF Tables, StatedOfOne
  <1> QED BY <1>1, <1>2, <1>3, <1>4, <1>5, <1>6, <1>7, StepFollows DEF IInv, VerifiedUpstream

LEMMA RecordKeeps ==
    ASSUME IInv, NEW p \in Processes, RecordDataset(p)
    PROVE  IInv'
  <1>0. /\ TypeOK /\ UNCHANGED <<upstream, exports, published, objects, launches>>
        /\ process[p].exit # "refused" /\ HoldsPublished(p) /\ process[p].at = "record"
        /\ index' = process[p].dataset.id /\ Goto(p, "list")
    BY Parts DEF RecordDataset, Stays, At, published
  <1>1. process[p].dataset \in datasets /\ process[p].dataset.id \in Rows
    BY <1>0, Tabulated DEF HoldsPublished, Adopted, Datasets
  <1>2. /\ process' \in [Processes -> ProcessRecord] /\ Others(p)
        /\ process'[p].at = "list" /\ process'[p].exit = process[p].exit
        /\ process'[p].dataset = process[p].dataset
    BY <1>0, Gone DEF Labels
  <1>3. Alone(p)
    BY <1>0, <1>1, <1>2 DEF Alone, TypeOK
  <1>4. Own(p)'
    BY <1>0, <1>1, <1>2 DEF Own, CarriesCurrent, HoldsPublished, SealsInOrder,
         StillThere, PositivePlaced, NegativePlaced, Adopted, Working, published
  <1> QED BY <1>3, <1>4, AloneFollows

LEMMA ListKeeps ==
    ASSUME IInv, NEW p \in Processes, ListExports(p)
    PROVE  IInv'
  <1>0. /\ TypeOK /\ UNCHANGED <<upstream, exports, index, published, objects, launches>>
        /\ process[p].exit # "refused" /\ process[p].dataset \in datasets
    BY Parts DEF ListExports, Stays, At, published, HoldsPublished, Adopted
  <1> DEFINE D == {kind \in Kinds : exports[kind] # None}
  <1>1. \/ Becomes(p, [process[p] EXCEPT !.at = "remove", !.doomed = D])
        \/ Goto(p, "select")
    BY DEF ListExports, Goto
  <1>2. D \in SUBSET Kinds /\ "remove" \in Labels /\ "select" \in Labels
    BY DEF Labels
  <1> HIDE DEF D
  <1>3. /\ process' \in [Processes -> ProcessRecord] /\ Others(p)
        /\ process'[p].at \in {"remove", "select"} /\ process'[p].exit = process[p].exit
        /\ process'[p].dataset = process[p].dataset
    <2>1. CASE Becomes(p, [process[p] EXCEPT !.at = "remove", !.doomed = D])
      BY <1>0, <1>2, <2>1, Dooming
    <2>2. CASE Goto(p, "select")
      BY <1>0, <1>2, <2>2, Gone
    <2> QED BY <1>1, <2>1, <2>2
  <1>4. Alone(p)
    BY <1>0, <1>3 DEF Alone, TypeOK
  <1>5. Own(p)'
    BY <1>0, <1>3 DEF Own, CarriesCurrent, HoldsPublished, SealsInOrder,
         StillThere, PositivePlaced, NegativePlaced, Adopted, Working, published
  <1> QED BY <1>4, <1>5, AloneFollows

LEMMA RemoveKeeps ==
    ASSUME IInv, NEW p \in Processes, RemoveExports(p)
    PROVE  IInv'
  <1>0. /\ TypeOK /\ UNCHANGED <<upstream, index, published, objects, launches>>
        /\ process[p].exit # "refused" /\ process[p].dataset \in datasets
        /\ process[p].at = "remove" /\ StatedOfOne
    BY Parts DEF RemoveExports, Stays, At, published, HoldsPublished, Adopted, Tables
  <1>1. CASE LosesExports(p) /\ UNCHANGED exports
    BY <1>0, <1>1, EndKeeps DEF LosesExports, Exits
  <1>2. ASSUME NEW kind \in process[p].doomed, exports' = [exports EXCEPT ![kind] = None],
               Becomes(p, [process[p] EXCEPT !.doomed = @ \ {kind}])
        PROVE  IInv'
    <2>1. process[p] \in ProcessRecord /\ process[p].doomed \subseteq Kinds /\ None \in Fragments
      BY <1>0, Blanks DEF TypeOK, ProcessRecord
    <2> DEFINE r == [process[p] EXCEPT !.doomed = @ \ {kind}]
    <2>2. /\ r \in ProcessRecord /\ r.at = "remove" /\ r.exit = process[p].exit
          /\ r.dataset = process[p].dataset
      BY <1>0, <2>1 DEF ProcessRecord
    <2> HIDE DEF r
    <2>3. /\ process' \in [Processes -> ProcessRecord] /\ Others(p) /\ process'[p] = r
      BY <1>0, <1>2, <2>2, Moved DEF r
    <2>4. /\ exports' \in [there : BOOLEAN, positive : Fragments, negative : Fragments,
                           stated : Statement \cup {None}]
          /\ exports'.positive \in {exports.positive, None}
          /\ exports'.negative \in {exports.negative, None}
          /\ exports'.stated \in {exports.stated, None}
      <3>0. exports \in [there : BOOLEAN, positive : Fragments, negative : Fragments,
                         stated : Statement \cup {None}]
        BY <1>0 DEF TypeOK
      <3>1. CASE kind = "positive"
        <4>1. exports' = [exports EXCEPT !.positive = None]
          BY <1>2, <3>1
        <4> QED BY <2>1, <3>0, <4>1
      <3>2. CASE kind = "negative"
        <4>1. exports' = [exports EXCEPT !.negative = None]
          BY <1>2, <3>2
        <4> QED BY <2>1, <3>0, <4>1
      <3>3. CASE kind = "stated"
        <4>1. exports' = [exports EXCEPT !.stated = None]
          BY <1>2, <3>3
        <4> QED BY <3>0, <4>1
      <3> QED BY <1>2, <2>1, <3>1, <3>2, <3>3 DEF Kinds
    <2>5. Caching(p) /\ StatedOfOne'
      BY <1>0, <2>3, <2>4 DEF Caching, StatedOfOne
    <2>6. Own(p)'
      BY <1>0, <2>2, <2>3 DEF Own, CarriesCurrent, HoldsPublished, SealsInOrder,
         StillThere, PositivePlaced, NegativePlaced, Adopted, Working, published
    <2> QED BY <1>0, <2>4, <2>5, <2>6, CacheFollows
  <1>3. CASE exports' = NoExports /\ Goto(p, "select")
    <2>1. /\ process' \in [Processes -> ProcessRecord] /\ Others(p)
          /\ process'[p].at = "select" /\ process'[p].exit = process[p].exit
          /\ process'[p].dataset = process[p].dataset
      BY <1>0, <1>3, Gone DEF Labels
    <2>2. /\ exports' \in [there : BOOLEAN, positive : Fragments, negative : Fragments,
                           stated : Statement \cup {None}]
          /\ exports'.positive = None /\ exports'.negative = None /\ exports'.stated = None
      BY <1>3, Blanks DEF NoExports
    <2>3. Caching(p) /\ StatedOfOne'
      BY <1>0, <2>1, <2>2 DEF Caching, StatedOfOne
    <2>4. Own(p)'
      BY <1>0, <2>1 DEF Own, CarriesCurrent, HoldsPublished, SealsInOrder,
         StillThere, PositivePlaced, NegativePlaced, Adopted, Working, published
    <2> QED BY <1>0, <2>2, <2>3, <2>4, CacheFollows
  <1> QED BY <1>1, <1>2, <1>3 DEF RemoveExports

LEMMA SelectKeeps ==
    ASSUME IInv, NEW p \in Processes, CreateSelection(p)
    PROVE  IInv' /\ process[p].dataset \in datasets
  <1>0. /\ TypeOK /\ UNCHANGED <<upstream, exports, index, datasets, cases, objects, launches>>
        /\ process[p].exit # "refused" /\ process[p].dataset \in datasets /\ Tables
        /\ selections' = selections \cup {process[p].dataset}
    BY Parts DEF CreateSelection, Stays, At, HoldsPublished, Adopted
  <1>1. /\ process' \in [Processes -> ProcessRecord] /\ Others(p)
        /\ process'[p].at = "cases" /\ process'[p].exit = process[p].exit
        /\ process'[p].dataset = process[p].dataset
    BY <1>0, Gone DEF CreateSelection, Labels
  <1>2. TypeOK'
    BY <1>0, <1>1 DEF TypeOK
  <1>3. StepFrame(p)
    BY <1>0, <1>1 DEF StepFrame, SealedStay
  <1>4. Own(p)'
    BY <1>0, <1>1 DEF Own, CarriesCurrent, HoldsPublished, SealsInOrder,
         StillThere, PositivePlaced, NegativePlaced, Adopted, Working, published
  <1>5. Tables'
    <2>1. \A e : ObjectsVerify(e) => ObjectsVerify(e)'
      BY <1>0 DEF ObjectsVerify, ObjectsOf
    <2> QED BY <1>0, <2>1 DEF Tables, StatedOfOne, IdentityNamesItsRows
  <1> QED BY <1>0, <1>2, <1>3, <1>4, <1>5, StepFollows DEF IInv

LEMMA CasesKeep ==
    ASSUME IInv, NEW p \in Processes, ReuseCases(p) \/ BeginCases(p)
    PROVE  IInv'
  <1>0. /\ TypeOK
        /\ UNCHANGED <<upstream, exports, index, published, objects, launches>>
        /\ process[p].exit # "refused" /\ Tables
        /\ process[p].dataset \in datasets /\ process[p].dataset \in selections
    BY Parts DEF ReuseCases, BeginCases, Stays, At, published, HoldsPublished, Working
  <1>1. CASE ReuseCases(p)
    <2>1. ObjectsVerify(process[p].dataset)
      BY <1>0, <1>1 DEF ReuseCases, Tables
    <2>2. Becomes(p, Down("done"))
      BY <1>1, <2>1 DEF ReuseCases
    <2> QED BY <1>0, <2>2, EndKeeps DEF Exits
  <1>2. CASE BeginCases(p)
    <2>1. Handles(p, "object", None)
      BY <1>0, <1>2 DEF BeginCases, Handles
    <2>2. "object" \in Labels /\ None \in Fragments
      BY Blanks DEF Labels
    <2>3. /\ process' \in [Processes -> ProcessRecord] /\ Others(p)
          /\ process'[p].at = "object" /\ process'[p].exit = process[p].exit
          /\ process'[p].dataset = process[p].dataset /\ process'[p].object = None
      BY <1>0, <2>1, <2>2, Handling
    <2>4. Alone(p)
      BY <1>0, <2>3 DEF Alone, TypeOK
    <2>5. Own(p)'
      BY <1>0, <2>3 DEF Own, CarriesCurrent, HoldsPublished, SealsInOrder,
         StillThere, PositivePlaced, NegativePlaced, Adopted, Working, published
    <2> QED BY <2>4, <2>5, AloneFollows
  <1> QED BY <1>1, <1>2

\* A step on a generated object.
Sealing(p) == /\ UNCHANGED <<upstream, exports, index, published, launches>> /\ SealedStay
              /\ objects' \in [Fragments -> {"absent", "writable", "sealed"}]
              /\ process' \in [Processes -> ProcessRecord] /\ Others(p)

LEMMA SealFollows ==
    ASSUME IInv, NEW p \in Processes, Sealing(p), Own(p)'
    PROVE  IInv'
  <1>0. TypeOK /\ datasets \subseteq Datasets /\ Tables
    BY Parts, Tabulated
  <1>1. TypeOK'
    BY <1>0 DEF TypeOK, Sealing, published
  <1>2. StepFrame(p)
    BY DEF IInv, FoundInv, StepFrame, Sealing, published
  <1>3. Tables'
    <2>1. \A d \in cases' : ObjectsVerify(d)'
      BY <1>0, VerifyFrame DEF Tables, Sealing, TypeOK, published
    <2> QED BY <1>0, <2>1 DEF Tables, StatedOfOne, IdentityNamesItsRows, Sealing, published
  <1> QED BY <1>1, <1>2, <1>3, StepFollows DEF IInv

LEMMA LinkKeeps ==
    ASSUME IInv, NEW p \in Processes, LinkObject(p)
    PROVE  IInv'
  <1>0. /\ TypeOK /\ UNCHANGED <<upstream, exports, index, published, launches>>
        /\ process[p].exit # "refused" /\ process[p].at = "object"
        /\ process[p].dataset \in datasets /\ process[p].dataset \in selections
        /\ SealsInOrder(p) /\ process[p].object \in Fragments
    BY Parts, Tabulated
       DEF LinkObject, Stays, At, published, HoldsPublished, Working, ProcessRecord
  <1>1. /\ process' \in [Processes -> ProcessRecord] /\ Others(p)
        /\ process'[p].at = "chmod" /\ process'[p].exit = process[p].exit
        /\ process'[p].dataset = process[p].dataset
        /\ process'[p].object = process[p].object
    BY <1>0, Gone DEF LinkObject, Labels
  <1>2. /\ objects' \in [Fragments -> {"absent", "writable", "sealed"}]
        /\ \A f \in Fragments : objects[f] = "sealed" => objects'[f] = "sealed"
    BY <1>0 DEF LinkObject, TypeOK
  <1>3. Sealing(p)
    BY <1>0, <1>1, <1>2 DEF Sealing, SealedStay
  <1>4. Own(p)'
    BY <1>0, <1>1, <1>2, Blanks DEF Own, CarriesCurrent, HoldsPublished, SealsInOrder,
         StillThere, PositivePlaced, NegativePlaced, Adopted, Working, published
  <1> QED BY <1>3, <1>4, SealFollows

LEMMA SealKeeps ==
    ASSUME IInv, NEW p \in Processes, SealObject(p)
    PROVE  IInv'
  <1>0. /\ TypeOK /\ UNCHANGED <<upstream, exports, index, published, launches>>
        /\ process[p].exit # "refused" /\ process[p].at = "chmod"
        /\ process[p].dataset \in datasets /\ process[p].dataset \in selections
        /\ SealsInOrder(p) /\ process[p].object \in Fragments
        /\ process[p].dataset \in Datasets /\ Becomes(p, AfterObject(p))
    BY Parts, Tabulated
       DEF SealObject, Stays, At, published, HoldsPublished, Working, ProcessRecord
  <1>1. /\ objects' \in [Fragments -> {"absent", "writable", "sealed"}]
        /\ objects'[process[p].object] = "sealed"
        /\ \A f \in Fragments : objects[f] = "sealed" => objects'[f] = "sealed"
    BY <1>0 DEF SealObject, TypeOK
  <1>2. /\ process[p].dataset.id.files \in Fragments /\ None \in Fragments
        /\ "object" \in Labels /\ "publish cases" \in Labels
    BY <1>0, Blanks DEF Datasets, Rows, Labels
  <1>t. TypeOK
    BY <1>0
  <1>3. CASE process[p].object = None
    <2>1. Handles(p, "object", process[p].dataset.id.files)
      BY <1>0, <1>3 DEF AfterObject, Handles
    <2>2. /\ process' \in [Processes -> ProcessRecord] /\ Others(p)
          /\ process'[p].at = "object" /\ process'[p].exit = process[p].exit
          /\ process'[p].dataset = process[p].dataset
          /\ process'[p].object = process[p].dataset.id.files
      <3>1. PICK o \in Fragments : o = process[p].dataset.id.files
        BY <1>2
      <3>2. Handles(p, "object", o)
        BY <2>1, <3>1
      <3>3. /\ process' \in [Processes -> ProcessRecord] /\ Others(p)
            /\ process'[p].at = "object" /\ process'[p].exit = process[p].exit
            /\ process'[p].dataset = process[p].dataset /\ process'[p].object = o
        BY <1>t, <1>2, <3>2, Handling
      <3> QED BY <3>1, <3>3
    <2>3. Sealing(p)
      BY <1>0, <1>1, <2>2 DEF Sealing, SealedStay
    <2>4. Own(p)'
      BY <1>0, <1>1, <1>3, <2>2 DEF Own, CarriesCurrent, HoldsPublished, SealsInOrder,
         StillThere, PositivePlaced, NegativePlaced, Adopted, Working, published
    <2> QED BY <2>3, <2>4, SealFollows
  <1>4. CASE process[p].object # None
    <2>1. Handles(p, "publish cases", None)
      BY <1>0, <1>4 DEF AfterObject, Handles
    <2>2. /\ process' \in [Processes -> ProcessRecord] /\ Others(p)
          /\ process'[p].at = "publish cases" /\ process'[p].exit = process[p].exit
          /\ process'[p].dataset = process[p].dataset
      BY <1>0, <1>2, <2>1, Handling
    <2>3. Sealing(p)
      BY <1>0, <1>1, <2>2 DEF Sealing, SealedStay
    <2>4. /\ objects'[None] = "sealed" /\ objects'[process[p].dataset.id.files] = "sealed"
      BY <1>0, <1>1, <1>2, <1>4 DEF SealsInOrder
    <2>5. ObjectsVerify(process[p].dataset)'
      BY <2>2, <2>4 DEF ObjectsVerify, ObjectsOf
    <2>6. Own(p)'
      BY <1>0, <2>2, <2>5 DEF Own, CarriesCurrent, HoldsPublished, SealsInOrder,
         StillThere, PositivePlaced, NegativePlaced, Adopted, Working, published
    <2> QED BY <2>3, <2>6, SealFollows
  <1> QED BY <1>3, <1>4

LEMMA PublishCasesKeeps ==
    ASSUME IInv, NEW p \in Processes, PublishCases(p)
    PROVE  IInv' /\ process[p].dataset \in selections
  <1>0. /\ TypeOK
        /\ UNCHANGED <<upstream, exports, index, datasets, selections, objects, launches>>
        /\ process[p].exit # "refused" /\ Tables /\ process[p].at = "publish cases"
        /\ process[p].dataset \in datasets /\ process[p].dataset \in selections
        /\ ObjectsVerify(process[p].dataset) /\ cases' = cases \cup {process[p].dataset}
    BY Parts DEF PublishCases, Stays, At, HoldsPublished, Working, SealsInOrder
  <1>1. Becomes(p, Down("done"))
    BY <1>0 DEF PublishCases
  <1>2. /\ process' \in [Processes -> ProcessRecord] /\ Others(p)
        /\ process'[p].at = "down" /\ process'[p].exit = "done"
    BY <1>0, <1>1, Ended DEF Exits
  <1>3. TypeOK'
    BY <1>0, <1>2 DEF TypeOK
  <1>4. StepFrame(p)
    BY <1>0, <1>2 DEF StepFrame, SealedStay
  <1>5. Own(p)'
    BY <1>0, <1>2 DEF Own, CarriesCurrent, HoldsPublished, SealsInOrder,
         StillThere, PositivePlaced, NegativePlaced, Adopted, Working, published
  <1>6. Tables'
    <2>1. \A e : ObjectsVerify(e) => ObjectsVerify(e)'
      BY <1>0 DEF ObjectsVerify, ObjectsOf
    <2> QED BY <1>0, <2>1 DEF Tables, StatedOfOne, IdentityNamesItsRows
  <1> QED BY <1>0, <1>3, <1>4, <1>5, <1>6, StepFollows DEF IInv

\* The data is replaced while nobody compiles, so that nothing anybody carries
\* on with is of the data that was.
LEMMA ReplaceKeeps ==
    ASSUME IInv, ReplaceUpstream
    PROVE  IInv'
  <1>0. /\ TypeOK /\ UNCHANGED <<exports, index, datasets, selections, cases, objects,
                                 process, launches>>
    BY DEF IInv, ReplaceUpstream, published
  <1>1. upstream' \in [db : Versions, files : Versions]
    <2>0. upstream \in [db : Versions, files : Versions]
      BY <1>0 DEF TypeOK
    <2>1. CASE upstream' = [upstream EXCEPT !.db = 1 - @]
      BY <2>0, <2>1 DEF Versions
    <2>2. CASE upstream' = [upstream EXCEPT !.files = 1 - @]
      BY <2>0, <2>2 DEF Versions
    <2>3. PICK part \in {"db", "files"} : upstream' = [upstream EXCEPT ![part] = 1 - @]
      BY DEF ReplaceUpstream
    <2> QED BY <2>1, <2>2, <2>3
  <1>2. TypeOK'
    BY <1>0, <1>1 DEF TypeOK
  <1>3. ASSUME NEW p \in Processes PROVE CarriesCurrent(p)'
    BY <1>0 DEF ReplaceUpstream, Compiling, CarriesCurrent, PositivePlaced, NegativePlaced
  <1>4. CurrentInv'
    BY <1>0, <1>3 DEF IInv, CurrentInv, StatedOfOne, IdentityNamesItsRows
  <1>5. FoundInv' /\ HeldInv'
    BY <1>0 DEF IInv, FoundInv, StillThere, HeldInv, HoldsPublished
  <1>6. ObjectsInv'
    BY <1>0 DEF IInv, ObjectsInv, PublishedIsRunnable, SealsInOrder, ObjectsVerify, ObjectsOf
  <1> QED BY <1>2, <1>4, <1>5, <1>6 DEF IInv

LEMMA StopKeeps ==
    ASSUME IInv, NEW p \in Processes, Stop(p)
    PROVE  IInv'
  BY EndKeeps DEF Stop, Exits

-----------------------------------------------------------------------------
(* The theorems. *)

LEMMA InitIInv == Init => IInv
  <1> SUFFICES ASSUME Init PROVE IInv
    OBVIOUS
  <1>1. /\ Down("none") \in ProcessRecord /\ Down("none").at = "down"
        /\ Down("none").exit = "none"
    BY Blanks DEF ProcessRecord, Down, Labels, Exits
  <1>2. process \in [Processes -> ProcessRecord]
        /\ \A p \in Processes : process[p].at = "down" /\ process[p].exit = "none"
    BY <1>1 DEF Init
  <1>3. TypeOK
    BY <1>2, Blanks DEF Init, TypeOK, NoExports, Versions
  <1>4. CurrentInv
    BY <1>2 DEF Init, CurrentInv, StatedOfOne, NoExports, IdentityNamesItsRows, CarriesCurrent,
                PositivePlaced, NegativePlaced
  <1>5. FoundInv /\ HeldInv
    BY <1>2 DEF FoundInv, StillThere, HeldInv, HoldsPublished, PositivePlaced, NegativePlaced,
                Adopted, Working
  <1>6. ObjectsInv
    BY <1>2 DEF Init, ObjectsInv, PublishedIsRunnable, SealsInOrder
  <1> QED BY <1>3, <1>4, <1>5, <1>6 DEF IInv

LEMMA StepKeeps ==
    ASSUME IInv, NEW p \in Processes, Step(p)
    PROVE  IInv'
  BY FindKeeps, LoadKeeps, ExportKeeps, PlaceKeeps, StateKeeps, ImportKeeps, CompileKeeps,
     PublishKeeps, RecordKeeps, ListKeeps, RemoveKeeps, SelectKeeps, CasesKeep, LinkKeeps,
     SealKeeps, PublishCasesKeeps DEF Step

LEMMA StepIInv == IInv /\ [Next]_vars => IInv'
  <1> SUFFICES ASSUME IInv, [Next]_vars PROVE IInv'
    OBVIOUS
  <1>1. CASE Next
    <2>1. ASSUME NEW p \in Processes, Launch(p) \/ Step(p) \/ Stop(p)
          PROVE  IInv'
      BY <2>1, LaunchKeeps, StepKeeps, StopKeeps
    <2>2. ASSUME ReplaceUpstream PROVE IInv'
      BY <2>2, ReplaceKeeps
    <2> QED BY <1>1, <2>1, <2>2 DEF Next
  <1>2. CASE UNCHANGED vars
    <2>0. UNCHANGED <<upstream, exports, index, datasets, selections, cases, objects,
                      process, launches>>
      BY <1>2 DEF vars, published
    <2>1. TypeOK'
      BY <2>0 DEF IInv, TypeOK
    <2>2. CurrentInv'
      BY <2>0 DEF IInv, CurrentInv, StatedOfOne, IdentityNamesItsRows, CarriesCurrent
    <2>3. FoundInv' /\ HeldInv'
      BY <2>0 DEF IInv, FoundInv, StillThere, HeldInv, HoldsPublished
    <2>4. ObjectsInv'
      BY <2>0 DEF IInv, ObjectsInv, PublishedIsRunnable, SealsInOrder, ObjectsVerify, ObjectsOf
    <2> QED BY <2>1, <2>2, <2>3, <2>4 DEF IInv
  <1> QED BY <1>1, <1>2

LEMMA Invariant == Spec => []IInv
  BY InitIInv, StepIInv, PTL DEF Spec

\* What one process has published serves every other one: each identity names
\* the rows it was made from, cases can be run by whoever finds them, and who
\* loses the cached exports finds a dataset.
THEOREM PublishedAlwaysSound == Spec => []PublishedIsSound
  <1>1. IInv => PublishedIsSound
    BY DEF IInv, CurrentInv, FoundInv, ObjectsInv, StillThere, PublishedIsSound, LosersFindADataset
  <1> QED BY <1>1, Invariant, PTL

\* Only a step that finds or publishes a dataset gives its process another one.
Takes(p) == \/ process'[p].dataset \in {process[p].dataset, None}
            \/ VerifiedUpstream(process'[p].dataset)
            \/ ~process[p].verify /\ ~At(p, "publish")

LEMMA TakesOne ==
    ASSUME IInv, NEW p \in Processes, Launch(p) \/ Step(p) \/ Stop(p)
    PROVE  Others(p) /\ Takes(p)
  <1>0. TypeOK
    BY Parts
  <1>r. process[p] \in ProcessRecord
    BY <1>0 DEF TypeOK
  <1>e. ASSUME NEW e \in Exits, Becomes(p, Down(e)) PROVE Others(p) /\ Takes(p)
    BY <1>0, <1>e, Ended DEF Takes
  <1>g. ASSUME NEW l \in Labels, Goto(p, l) PROVE Others(p) /\ Takes(p)
    BY <1>0, <1>g, Gone DEF Takes
  <1>h. ASSUME NEW l \in Labels, NEW o \in Fragments, Handles(p, l, o)
        PROVE  Others(p) /\ Takes(p)
    BY <1>0, <1>h, Handling DEF Takes
  <1>w. ASSUME NEW r, Becomes(p, r), r.dataset \in {process[p].dataset, None}
        PROVE  Others(p) /\ Takes(p)
    BY <1>0, <1>w DEF Others, Takes, Becomes, TypeOK
  <1>1. CASE Launch(p)
    <2>1. PICK v \in BOOLEAN : Becomes(p, [Down("none") EXCEPT !.at = "find", !.verify = v])
      BY <1>1 DEF Launch
    <2> DEFINE r == [Down("none") EXCEPT !.at = "find", !.verify = v]
    <2>2. r.dataset = None
      BY DEF Down
    <2> HIDE DEF r
    <2> QED BY <1>w, <2>1, <2>2 DEF r
  <1>2. CASE Stop(p)
    BY <1>2, <1>e DEF Stop, Exits
  <1>3. CASE FindReusable(p)
    <2>1. CASE Goto(p, "exports")
      BY <1>g, <2>1 DEF Labels
    <2>2. ASSUME NEW d \in Candidates,
                 Becomes(p, IF process[p].verify => VerifiedUpstream(d)
                           THEN [process[p] EXCEPT !.at = "select", !.dataset = d]
                           ELSE [process[p] EXCEPT !.at = "exports"])
          PROVE  Others(p) /\ Takes(p)
      <3>1. CASE process[p].verify => VerifiedUpstream(d)
        <4>1. d \in Datasets
          BY <1>0, Tabulated DEF Candidates
        <4>2. Others(p) /\ process'[p].dataset = d
          BY <1>0, <2>2, <3>1, <4>1, Adopting DEF Labels
        <4>3. process[p].at = "find"
          BY <1>3 DEF FindReusable, At
        <4> QED BY <3>1, <4>2, <4>3 DEF Takes, At
      <3>2. CASE ~(process[p].verify => VerifiedUpstream(d))
        <4>1. Goto(p, "exports")
          BY <2>2, <3>2 DEF Goto
        <4> QED BY <2>1, <4>1
      <3> QED BY <3>1, <3>2
    <2> QED BY <1>3, <2>1, <2>2 DEF FindReusable, Reuse
  <1>4. CASE LoadCachedExports(p)
    BY <1>4, <1>g DEF LoadCachedExports, Labels
  <1>5. CASE ExportH2(p)
    <2>1. Becomes(p, [process[p] EXCEPT !.at = "place positive", !.rows = upstream.db])
      BY <1>5 DEF ExportH2
    <2> DEFINE r == [process[p] EXCEPT !.at = "place positive", !.rows = upstream.db]
    <2>2. r.dataset = process[p].dataset
      BY <1>r DEF ProcessRecord
    <2> HIDE DEF r
    <2> QED BY <1>w, <2>1, <2>2 DEF r
  <1>6. CASE PlacePositive(p) \/ PlaceNegative(p) \/ StateExports(p)
    BY <1>6, <1>g, <1>e
       DEF PlacePositive, PlaceNegative, PlaceExport, StateExports, LosesExports, Labels, Exits
  <1>7. ASSUME NEW kind, NEW then, ImportExport(p, kind, then) PROVE Others(p) /\ Takes(p)
    <2>1. CASE LosesExports(p)
      BY <1>e, <2>1 DEF LosesExports, Exits
    <2> DEFINE r == [process[p] EXCEPT !.work[kind] = exports[kind], !.at = then]
    <2>2. r.dataset = process[p].dataset
      BY <1>r DEF ProcessRecord
    <2> HIDE DEF r
    <2>3. CASE Becomes(p, r)
      BY <1>w, <2>2, <2>3
    <2> QED BY <1>7, <2>1, <2>3 DEF ImportExport, r
  <1>8. CASE MaterializeFragments(p) \/ Identify(p)
    <2> DEFINE r == [process[p] EXCEPT !.work.files = upstream.files, !.at = "identify"]
               s == [process[p] EXCEPT !.work.db = upstream.db, !.at = "publish"]
    <2>1. r.dataset = process[p].dataset /\ s.dataset = process[p].dataset
      BY <1>r DEF ProcessRecord
    <2>2. Becomes(p, r) \/ Becomes(p, s)
      BY <1>8 DEF MaterializeFragments, Identify
    <2> HIDE DEF r, s
    <2> QED BY <1>w, <2>1, <2>2
  <1>9. CASE PublishDataset(p)
    <2>1. VerifiedUpstream(process'[p].dataset)
      BY <1>9, PublishKeeps
    <2>2. PICK d : Adopts(p, d)
      BY <1>9 DEF PublishDataset
    <2>3. Others(p)
      BY <1>0, <2>2 DEF Adopts, Becomes, Others, TypeOK
    <2> QED BY <2>1, <2>3 DEF Takes
  <1>10. CASE RecordDataset(p) \/ CreateSelection(p)
    BY <1>10, <1>g DEF RecordDataset, CreateSelection, Labels
  <1>11. CASE ListExports(p)
    <2> DEFINE D == {kind \in Kinds : exports[kind] # None}
               r == [process[p] EXCEPT !.at = "remove", !.doomed = D]
    <2>1. r.dataset = process[p].dataset
      BY <1>r DEF ProcessRecord
    <2>2. Becomes(p, r) \/ Goto(p, "select")
      BY <1>11 DEF ListExports, Goto
    <2> HIDE DEF r
    <2> QED BY <1>w, <1>g, <2>1, <2>2 DEF Labels
  <1>12. CASE RemoveExports(p)
    <2>1. ASSUME NEW kind, Becomes(p, [process[p] EXCEPT !.doomed = @ \ {kind}])
          PROVE  Others(p) /\ Takes(p)
      <3> DEFINE r == [process[p] EXCEPT !.doomed = @ \ {kind}]
      <3>1. r.dataset = process[p].dataset
        BY <1>r DEF ProcessRecord
      <3> HIDE DEF r
      <3> QED BY <1>w, <2>1, <3>1 DEF r
    <2>2. CASE LosesExports(p) \/ Goto(p, "select")
      BY <1>e, <1>g, <2>2 DEF LosesExports, Labels, Exits
    <2> QED BY <1>12, <2>1, <2>2 DEF RemoveExports
  <1>13. CASE ReuseCases(p)
    BY <1>13, <1>e DEF ReuseCases, Refuses, Exits
  <1>14. CASE BeginCases(p)
    <2>1. CASE Refuses(p)
      BY <1>e, <2>1 DEF Refuses, Exits
    <2>2. CASE Handles(p, "object", None)
      BY <1>h, <2>2, Blanks DEF Labels
    <2> QED BY <1>14, <2>1, <2>2 DEF BeginCases, Handles
  <1>15. CASE LinkObject(p)
    BY <1>15, <1>g DEF LinkObject, Labels
  <1>16. CASE SealObject(p)
    <2>1. AfterObject(p).dataset = process[p].dataset
      BY <1>r DEF AfterObject, ProcessRecord
    <2>2. Becomes(p, AfterObject(p))
      BY <1>16 DEF SealObject
    <2> QED BY <1>w, <2>1, <2>2
  <1>17. CASE PublishCases(p)
    BY <1>17, <1>e DEF PublishCases, Refuses, Exits
  <1> QED
    BY <1>1, <1>2, <1>3, <1>4, <1>5, <1>6, <1>7, <1>8, <1>9, <1>10, <1>11, <1>12, <1>13, <1>14,
       <1>15, <1>16, <1>17 DEF Step, ImportPositive, ImportNegative

\* A dataset that is compiled, or reused with --verify-source, is the one of
\* the data that is there, in every step of every process.
THEOREM AdoptedAlwaysCurrent == Spec => AdoptedIsCurrent
  <1> DEFINE Current ==
        \A p \in Processes :
            (process'[p].dataset \notin {process[p].dataset, None}
               /\ (process[p].verify \/ At(p, "publish")))
            => VerifiedUpstream(process'[p].dataset)
  <1>1. IInv /\ [Next]_vars => [Current]_vars
    <2> SUFFICES ASSUME IInv, Next, NEW q \in Processes,
                        process'[q].dataset \notin {process[q].dataset, None},
                        process[q].verify \/ At(q, "publish")
                 PROVE  VerifiedUpstream(process'[q].dataset)
      OBVIOUS
    <2>1. ASSUME NEW p \in Processes, Launch(p) \/ Step(p) \/ Stop(p)
          PROVE  VerifiedUpstream(process'[q].dataset)
      <3>1. Others(p) /\ Takes(p)
        BY <2>1, TakesOne
      <3> QED BY <3>1 DEF Others, Takes
    <2>2. ~ReplaceUpstream
      BY DEF ReplaceUpstream
    <2> QED BY <2>1, <2>2 DEF Next
  <1> HIDE DEF Current
  <1>2. Spec => [][Current]_vars
    BY <1>1, Invariant, PTL DEF Spec
  <1> QED BY <1>2 DEF AdoptedIsCurrent, Current

-----------------------------------------------------------------------------
(* The directories implement the publications. *)

LEMMA PublicationTerms ==
    /\ Abstract!Init <=> datasets = {} /\ selections = {} /\ cases = {}
    /\ Abstract!Next <=>
          \/ \E d \in datasets' : /\ \A e \in datasets : e.id # d.id
                                  /\ datasets' = datasets \cup {d}
                                  /\ UNCHANGED <<selections, cases>>
          \/ \E d \in datasets :
                \/ /\ d \in datasets \ selections /\ selections' = selections \cup {d}
                   /\ UNCHANGED <<datasets, cases>>
                \/ /\ d \in selections \ cases /\ cases' = cases \cup {d}
                   /\ UNCHANGED <<datasets, selections>>
    /\ Abstract!publicationVars = <<datasets, selections, cases>>
  BY Zenon DEF Abstract!Init, Abstract!Next, Abstract!PublishDataset,
     Abstract!PublishSelection, Abstract!PublishCases, Abstract!publicationVars

LEMMA PublicationStep ==
    ASSUME IInv, NEW p \in Processes, Step(p)
    PROVE  Abstract!Next \/ UNCHANGED published
  <1>1. CASE PublishDataset(p)
    <2>0. UNCHANGED <<selections, cases>>
      BY <1>1 DEF PublishDataset
    <2> DEFINE new == [id |-> process[p].work, stamp |-> <<p, launches>>]
    <2>1. new.id = process[p].work
      OBVIOUS
    <2> HIDE DEF new
    <2>2. \/ datasets' = datasets
          \/ /\ \A e \in datasets : e.id # process[p].work
             /\ datasets' = datasets \cup {new}
      BY <1>1 DEF PublishDataset, new
    <2> QED BY <2>0, <2>1, <2>2, PublicationTerms DEF published
  <1>2. CASE CreateSelection(p)
    BY <1>2, SelectKeeps, PublicationTerms DEF CreateSelection, published
  <1>3. CASE PublishCases(p)
    <2>1. process[p].dataset \in selections /\ selections \subseteq datasets
      BY <1>3, PublishCasesKeeps, Parts DEF TypeOK
    <2> QED BY <1>3, <2>1, PublicationTerms DEF PublishCases, published
  <1>4. CASE FindReusable(p) \/ LoadCachedExports(p) \/ ExportH2(p) \/ PlacePositive(p)
             \/ PlaceNegative(p) \/ StateExports(p)
    BY <1>4 DEF FindReusable, LoadCachedExports, ExportH2, PlacePositive, PlaceNegative,
                PlaceExport, StateExports
  <1>5. CASE ImportPositive(p) \/ ImportNegative(p) \/ MaterializeFragments(p) \/ Identify(p)
             \/ RecordDataset(p) \/ ListExports(p) \/ RemoveExports(p)
    BY <1>5 DEF ImportPositive, ImportNegative, ImportExport, MaterializeFragments, Identify,
                RecordDataset, ListExports, RemoveExports
  <1>6. CASE ReuseCases(p) \/ BeginCases(p) \/ LinkObject(p) \/ SealObject(p)
    BY <1>6 DEF ReuseCases, BeginCases, LinkObject, SealObject
  <1> QED BY <1>1, <1>2, <1>3, <1>4, <1>5, <1>6 DEF Step

\* A dataset, a selection or cases, once published, stay as they are, and each
\* names the publication it was made from.
THEOREM PublicationsImplemented == Spec => ImplementsPublications
  <1>1. Init => Abstract!Init
    BY PublicationTerms DEF Init
  <1>2. IInv /\ [Next]_vars => [Abstract!Next]_(Abstract!publicationVars)
    <2> SUFFICES ASSUME IInv, [Next]_vars
                 PROVE  Abstract!Next \/ UNCHANGED published
      BY DEF Abstract!publicationVars, published
    <2>1. ASSUME NEW p \in Processes, Launch(p) \/ Stop(p) PROVE UNCHANGED published
      BY <2>1 DEF Launch, Stop
    <2>2. ASSUME NEW p \in Processes, Step(p) PROVE Abstract!Next \/ UNCHANGED published
      BY <2>2, PublicationStep
    <2>3. ReplaceUpstream => UNCHANGED published
      BY DEF ReplaceUpstream
    <2>4. UNCHANGED vars => UNCHANGED published
      BY DEF vars
    <2> QED BY <2>1, <2>2, <2>3, <2>4 DEF Next
  <1>3. Spec => Abstract!Spec
    BY <1>1, <1>2, Invariant, PTL DEF Spec, Abstract!Spec
  <1> QED BY <1>3 DEF ImplementsPublications

-----------------------------------------------------------------------------
(* Sums, and samples that are filled in rounds (CatalogFrames).            *)

\* Some number of any set of numbers is the least.
LEMMA LeastNumber ==
    ASSUME NEW T \in SUBSET Nat, T # {}
    PROVE  \E m \in T : \A n \in T : m <= n
  <1>1. IsWellFoundedOn(OpToRel(<, Nat), Nat)
    BY NatLessThanWellFounded
  <1>2. PICK m \in T : \A n \in T : ~(<<n, m>> \in OpToRel(<, Nat))
    BY <1>1, WFMin
  <1>3. \A n \in T : ~(n < m)
    BY <1>2 DEF OpToRel
  <1> QED BY <1>3

\* What a sum counts.
UnitsOf(count) == UNION {{x} \X (1..count[x]) : x \in DOMAIN count}

LEMMA UnitsAre ==
    ASSUME NEW D, NEW count \in [D -> Nat]
    PROVE  /\ SumOf(count) = Cardinality(UnitsOf(count))
           /\ \A u : u \in UnitsOf(count)
                     <=> \E x \in D : \E n \in 1..count[x] : u = <<x, n>>
           /\ \A x, n : <<x, n>> \in UnitsOf(count) <=> (x \in D /\ n \in 1..count[x])
  BY DEF SumOf, UnitsOf

\* Numbers of finitely many have a sum.
LEMMA SumIsNumber ==
    ASSUME NEW D, IsFiniteSet(D), NEW count \in [D -> Nat]
    PROVE  /\ IsFiniteSet(UnitsOf(count))
           /\ SumOf(count) \in Nat
           /\ (\E x \in D : count[x] > 0) => SumOf(count) > 0
  <1> DEFINE parts == {{x} \X (1..count[x]) : x \in D}
             part == [x \in D |-> {x} \X (1..count[x])]
  <1>1. part \in Surjection(D, parts)
    BY DEF Surjection
  <1>2. IsFiniteSet(parts)
    BY <1>1, FS_Surjection
  <1>3. ASSUME NEW x \in D PROVE IsFiniteSet({x} \X (1..count[x]))
    <2> DEFINE here == {x}
               units == 1..count[x]
    <2>1. count[x] \in Nat
      OBVIOUS
    <2>2. IsFiniteSet(here)
      BY FS_Singleton
    <2>3. IsFiniteSet(units)
      BY <2>1, FS_Interval
    <2> HIDE DEF here, units
    <2>4. IsFiniteSet(here \X units)
      BY <2>2, <2>3, FS_Product
    <2> QED BY <2>4 DEF here, units
  <1>4. \A s \in parts : IsFiniteSet(s)
    BY <1>3
  <1> HIDE DEF parts
  <1>5. IsFiniteSet(UNION parts)
    BY <1>2, <1>4, FS_UNION
  <1>6. IsFiniteSet(UnitsOf(count))
    BY <1>5 DEF UnitsOf, parts
  <1>7. SumOf(count) = Cardinality(UnitsOf(count))
    BY UnitsAre
  <1>8. SumOf(count) \in Nat
    BY <1>6, <1>7, FS_CardinalityType
  <1>9. ASSUME NEW x \in D, count[x] > 0 PROVE SumOf(count) > 0
    <2>1. <<x, 1>> \in UnitsOf(count)
      BY <1>9, UnitsAre
    <2>2. SumOf(count) # 0
      BY <1>6, <1>7, <2>1, FS_EmptySet
    <2> QED BY <1>8, <2>2
  <1> QED BY <1>6, <1>8, <1>9

\* A sum over two sets that have nothing in common is the sum of two.
LEMMA SumOverParts ==
    ASSUME NEW D, IsFiniteSet(D), NEW count \in [D -> Nat],
           NEW A, NEW B, A \cup B = D, A \cap B = {},
           NEW left \in [A -> Nat], NEW right \in [B -> Nat],
           \A x \in A : left[x] = count[x], \A x \in B : right[x] = count[x]
    PROVE  SumOf(count) = SumOf(left) + SumOf(right)
  <1>1. IsFiniteSet(A) /\ IsFiniteSet(B)
    BY FS_Subset
  <1>2. /\ IsFiniteSet(UnitsOf(left)) /\ IsFiniteSet(UnitsOf(right))
        /\ SumOf(left) \in Nat /\ SumOf(right) \in Nat
    BY <1>1, SumIsNumber
  <1>3. \A u : u \in UnitsOf(count) <=> u \in UnitsOf(left) \cup UnitsOf(right)
    <2>1. \A u : u \in UnitsOf(count) <=> \E x \in D : \E n \in 1..count[x] : u = <<x, n>>
      BY UnitsAre
    <2>2. \A u : u \in UnitsOf(left) <=> \E x \in A : \E n \in 1..left[x] : u = <<x, n>>
      BY UnitsAre
    <2>3. \A u : u \in UnitsOf(right) <=> \E x \in B : \E n \in 1..right[x] : u = <<x, n>>
      BY UnitsAre
    <2> QED BY <2>1, <2>2, <2>3
  <1>4. UnitsOf(count) = UnitsOf(left) \cup UnitsOf(right)
    BY <1>3
  <1>5. UnitsOf(left) \cap UnitsOf(right) = {}
    <2>1. \A u \in UnitsOf(left) : u[1] \in A
      BY UnitsAre
    <2>2. \A u \in UnitsOf(right) : u[1] \in B
      BY UnitsAre
    <2> QED BY <2>1, <2>2
  <1>6. Cardinality(UnitsOf(left) \cap UnitsOf(right)) = 0
    BY <1>5, FS_EmptySet
  <1>7. Cardinality(UnitsOf(count))
            = Cardinality(UnitsOf(left)) + Cardinality(UnitsOf(right))
              - Cardinality(UnitsOf(left) \cap UnitsOf(right))
    BY <1>2, <1>4, FS_Union
  <1>8. /\ SumOf(count) = Cardinality(UnitsOf(count))
        /\ SumOf(left) = Cardinality(UnitsOf(left))
        /\ SumOf(right) = Cardinality(UnitsOf(right))
    BY UnitsAre
  <1> QED BY <1>2, <1>6, <1>7, <1>8

\* The same numbers at other places have the same sum.
LEMMA SumElsewhere ==
    ASSUME NEW D, IsFiniteSet(D), NEW count \in [D -> Nat],
           NEW E, NEW other \in [E -> Nat], NEW place \in [D -> E],
           \A x, y \in D : place[x] = place[y] => x = y,
           \A y \in E : \E x \in D : y = place[x],
           \A x \in D : other[place[x]] = count[x]
    PROVE  SumOf(count) = SumOf(other)
  <1> DEFINE moved == [u \in UnitsOf(count) |-> <<place[u[1]], u[2]>>]
  <1>1. \A u \in UnitsOf(count) : u[1] \in D /\ u[2] \in 1..count[u[1]] /\ u = <<u[1], u[2]>>
    BY UnitsAre
  <1>2. \A u \in UnitsOf(count) : <<place[u[1]], u[2]>> \in UnitsOf(other)
    BY <1>1, UnitsAre
  <1>3. moved \in [UnitsOf(count) -> UnitsOf(other)]
    BY <1>2
  <1>4. \A u, v \in UnitsOf(count) : moved[u] = moved[v] => u = v
    BY <1>1
  <1>5. ASSUME NEW w \in UnitsOf(other) PROVE \E u \in UnitsOf(count) : moved[u] = w
    <2>1. PICK y \in E : \E n \in 1..other[y] : w = <<y, n>>
      BY UnitsAre
    <2>2. PICK n \in 1..other[y] : w = <<y, n>>
      BY <2>1
    <2>3. PICK x \in D : y = place[x]
      OBVIOUS
    <2>4. <<x, n>> \in UnitsOf(count)
      BY <2>2, <2>3, UnitsAre
    <2>5. moved[<<x, n>>] = w
      BY <2>2, <2>3, <2>4
    <2> QED BY <2>4, <2>5
  <1>6. moved \in Bijection(UnitsOf(count), UnitsOf(other))
    BY <1>3, <1>4, <1>5 DEF Bijection, Injection, Surjection, IsInjective
  <1>7. Cardinality(UnitsOf(other)) = Cardinality(UnitsOf(count))
    <2>1. IsFiniteSet(UnitsOf(count))
      BY SumIsNumber
    <2> HIDE DEF moved
    <2>2. ExistsBijection(UnitsOf(count), UnitsOf(other))
      BY <1>6 DEF ExistsBijection
    <2> QED BY <2>1, <2>2, FS_Bijection
  <1> QED BY <1>7, UnitsAre

\* What is added to the numbers is added to their sum.
LEMMA SumOfAdditions ==
    ASSUME NEW D, IsFiniteSet(D), NEW a \in [D -> Nat], NEW b \in [D -> Nat]
    PROVE  SumOf([x \in D |-> a[x] + b[x]]) = SumOf(a) + SumOf(b)
  <1> DEFINE both == [x \in D |-> a[x] + b[x]]
             upper == {u \in UnitsOf(both) : u[2] > a[u[1]]}
             moved == [u \in UnitsOf(b) |-> <<u[1], u[2] + a[u[1]]>>]
  <1>1. both \in [D -> Nat]
    OBVIOUS
  <1> HIDE DEF both
  <1>2. /\ IsFiniteSet(UnitsOf(a)) /\ IsFiniteSet(UnitsOf(b)) /\ IsFiniteSet(UnitsOf(both))
        /\ SumOf(a) \in Nat /\ SumOf(b) \in Nat
    BY <1>1, SumIsNumber
  <1>3. /\ \A u \in UnitsOf(b) : u[1] \in D /\ u[2] \in 1..b[u[1]] /\ u = <<u[1], u[2]>>
        /\ \A u \in UnitsOf(a) : u[1] \in D /\ u[2] \in 1..a[u[1]] /\ u = <<u[1], u[2]>>
        /\ \A u \in UnitsOf(both) :
              u[1] \in D /\ u[2] \in 1..both[u[1]] /\ u = <<u[1], u[2]>>
    BY <1>1, UnitsAre
  <1>4. \A x \in D : both[x] = a[x] + b[x] /\ a[x] \in Nat /\ b[x] \in Nat
    BY DEF both
  <1>5. \A x, n : <<x, n>> \in UnitsOf(both) <=> (x \in D /\ n \in 1..both[x])
    BY <1>1, UnitsAre
  <1>6. \A x, n : <<x, n>> \in UnitsOf(a) <=> (x \in D /\ n \in 1..a[x])
    BY UnitsAre
  <1>7. \A x, n : <<x, n>> \in UnitsOf(b) <=> (x \in D /\ n \in 1..b[x])
    BY UnitsAre
  <1>8. ASSUME NEW u \in UnitsOf(b) PROVE <<u[1], u[2] + a[u[1]]>> \in upper
    <2>1. u[1] \in D /\ u[2] \in 1..b[u[1]]
      BY <1>3
    <2>2. u[2] + a[u[1]] \in 1..both[u[1]] /\ u[2] + a[u[1]] > a[u[1]]
      BY <1>4, <2>1
    <2>3. <<u[1], u[2] + a[u[1]]>> \in UnitsOf(both)
      BY <1>5, <2>1, <2>2
    <2> QED BY <2>2, <2>3
  <1>9. moved \in [UnitsOf(b) -> upper]
    BY <1>8
  <1>10. ASSUME NEW u \in UnitsOf(b), NEW v \in UnitsOf(b), moved[u] = moved[v]
         PROVE  u = v
    <2>1. u[1] = v[1] /\ u[2] + a[u[1]] = v[2] + a[u[1]]
      BY <1>10
    <2>2. u[2] = v[2]
      BY <1>3, <1>4, <2>1
    <2> QED BY <1>3, <2>1, <2>2
  <1>11. ASSUME NEW w \in upper PROVE \E u \in UnitsOf(b) : moved[u] = w
    <2>1. w[1] \in D /\ w[2] \in 1..both[w[1]] /\ w = <<w[1], w[2]>> /\ w[2] > a[w[1]]
      BY <1>3
    <2>2. w[2] - a[w[1]] \in 1..b[w[1]] /\ (w[2] - a[w[1]]) + a[w[1]] = w[2]
      BY <1>4, <2>1
    <2>3. <<w[1], w[2] - a[w[1]]>> \in UnitsOf(b)
      BY <1>7, <2>1, <2>2
    <2>4. moved[<<w[1], w[2] - a[w[1]]>>] = w
      BY <2>1, <2>2, <2>3
    <2> QED BY <2>3, <2>4
  <1>12. moved \in Bijection(UnitsOf(b), upper)
    BY <1>9, <1>10, <1>11 DEF Bijection, Injection, Surjection, IsInjective
  <1>13. IsFiniteSet(upper) /\ Cardinality(upper) = Cardinality(UnitsOf(b))
    <2> HIDE DEF upper, moved
    <2>1. ExistsBijection(UnitsOf(b), upper)
      BY <1>12 DEF ExistsBijection
    <2> QED BY <1>2, <2>1, FS_Bijection
  <1>14. UnitsOf(both) = UnitsOf(a) \cup upper
    <2>1. ASSUME NEW u \in UnitsOf(both) PROVE u \in UnitsOf(a) \cup upper
      <3>1. u[1] \in D /\ u[2] \in 1..both[u[1]] /\ u = <<u[1], u[2]>>
        BY <1>3
      <3>2. u[2] > a[u[1]] \/ u[2] \in 1..a[u[1]]
        BY <1>4, <3>1
      <3> QED BY <1>6, <3>1, <3>2
    <2>2. ASSUME NEW u \in UnitsOf(a) PROVE u \in UnitsOf(both)
      <3>1. u[1] \in D /\ u[2] \in 1..a[u[1]] /\ u = <<u[1], u[2]>>
        BY <1>3
      <3>2. u[2] \in 1..both[u[1]]
        BY <1>4, <3>1
      <3> QED BY <1>5, <3>1, <3>2
    <2> QED BY <2>1, <2>2
  <1>15. UnitsOf(a) \cap upper = {}
    BY <1>3, <1>4
  <1>16. Cardinality(UnitsOf(a) \cap upper) = 0
    BY <1>15, FS_EmptySet
  <1>17. Cardinality(UnitsOf(both))
            = Cardinality(UnitsOf(a)) + Cardinality(upper) - Cardinality(UnitsOf(a) \cap upper)
    <2> HIDE DEF upper, moved
    <2> QED BY <1>2, <1>13, <1>14, FS_Union
  <1>18. /\ SumOf(both) = Cardinality(UnitsOf(both)) /\ SumOf(a) = Cardinality(UnitsOf(a))
         /\ SumOf(b) = Cardinality(UnitsOf(b))
    BY <1>1, UnitsAre
  <1>19. SumOf(both) = SumOf(a) + SumOf(b)
    BY <1>2, <1>13, <1>16, <1>17, <1>18
  <1> QED BY <1>19 DEF both

\* Smaller numbers have a sum that is not larger.
LEMMA SumMonotone ==
    ASSUME NEW D, IsFiniteSet(D), NEW a \in [D -> Nat], NEW b \in [D -> Nat],
           \A x \in D : a[x] <= b[x]
    PROVE  SumOf(a) <= SumOf(b)
  <1>1. IsFiniteSet(UnitsOf(b))
    BY SumIsNumber
  <1>2. UnitsOf(a) \subseteq UnitsOf(b)
    <2>1. ASSUME NEW u \in UnitsOf(a) PROVE u \in UnitsOf(b)
      <3>1. PICK x \in D : \E n \in 1..a[x] : u = <<x, n>>
        BY UnitsAre
      <3>2. PICK n \in 1..a[x] : u = <<x, n>>
        BY <3>1
      <3>3. n \in 1..b[x]
        OBVIOUS
      <3> QED BY <3>2, <3>3, UnitsAre
    <2> QED BY <2>1
  <1>3. Cardinality(UnitsOf(a)) <= Cardinality(UnitsOf(b))
    BY <1>1, <1>2, FS_Subset
  <1> QED BY <1>3, UnitsAre

\* At most so many of each of a set make no more than the product.
LEMMA SumOfEqualShares ==
    ASSUME NEW D, IsFiniteSet(D), NEW A \in SUBSET D, NEW q \in Nat, NEW a \in [D -> Nat],
           \A x \in D : IF x \in A THEN a[x] <= q ELSE a[x] = 0
    PROVE  SumOf(a) <= Cardinality(A) * q
  <1>1. IsFiniteSet(A)
    BY FS_Subset
  <1>2. IsFiniteSet(1..q) /\ Cardinality(1..q) = q
    BY FS_Interval
  <1>3. IsFiniteSet(A \X (1..q)) /\ Cardinality(A \X (1..q)) = Cardinality(A) * q
    BY <1>1, <1>2, FS_Product
  <1>4. UnitsOf(a) \subseteq A \X (1..q)
    <2>1. ASSUME NEW u \in UnitsOf(a) PROVE u \in A \X (1..q)
      <3>1. PICK x \in D : \E n \in 1..a[x] : u = <<x, n>>
        BY UnitsAre
      <3>2. PICK n \in 1..a[x] : u = <<x, n>>
        BY <3>1
      <3>3. x \in A /\ a[x] <= q
        BY <3>2
      <3>4. n \in 1..q
        BY <3>3
      <3> QED BY <3>2, <3>3, <3>4
    <2> QED BY <2>1
  <1>5. Cardinality(UnitsOf(a)) <= Cardinality(A \X (1..q))
    BY <1>3, <1>4, FS_Subset
  <1> QED BY <1>3, <1>5, UnitsAre

\* One for each of a set makes as many as there are.
LEMMA SumOfOnes ==
    ASSUME NEW D, IsFiniteSet(D), NEW A \in SUBSET D, NEW a \in [D -> Nat],
           \A x \in D : a[x] = IF x \in A THEN 1 ELSE 0
    PROVE  SumOf(a) = Cardinality(A)
  <1> DEFINE first == [x \in A |-> <<x, 1>>]
  <1>1. IsFiniteSet(A)
    BY FS_Subset
  <1>2. \A u : u \in UnitsOf(a) <=> \E x \in A : u = <<x, 1>>
    <2>1. ASSUME NEW u \in UnitsOf(a) PROVE \E x \in A : u = <<x, 1>>
      <3>1. PICK x \in D : \E n \in 1..a[x] : u = <<x, n>>
        BY UnitsAre
      <3>2. PICK n \in 1..a[x] : u = <<x, n>>
        BY <3>1
      <3>3. x \in A /\ n = 1
        BY <3>2
      <3> QED BY <3>2, <3>3
    <2>2. ASSUME NEW x \in A PROVE <<x, 1>> \in UnitsOf(a)
      <3>1. x \in D /\ 1 \in 1..a[x]
        OBVIOUS
      <3> QED BY <3>1, UnitsAre
    <2> QED BY <2>1, <2>2
  <1>3. first \in Bijection(A, UnitsOf(a))
    BY <1>2 DEF Bijection, Injection, Surjection, IsInjective
  <1>4. Cardinality(UnitsOf(a)) = Cardinality(A)
    <2> HIDE DEF first
    <2>1. ExistsBijection(A, UnitsOf(a))
      BY <1>3 DEF ExistsBijection
    <2> QED BY <1>1, <2>1, FS_Bijection
  <1> QED BY <1>4, UnitsAre

\* How often a number goes into another one.
LEMMA Shares ==
    ASSUME NEW r \in Nat, NEW k \in Nat, k > 0
    PROVE  /\ r \div k \in Nat /\ k * (r \div k) <= r
           /\ r \div k = 0 => r < k
  OBVIOUS

\* The strata are finitely many numbers.
LEMMA StrataAre ==
    /\ DOMAIN Strata = 1..Len(Strata) /\ Len(Strata) \in Nat /\ Len(Strata) > 0
    /\ IsFiniteSet(DOMAIN Strata) /\ Cardinality(DOMAIN Strata) = Len(Strata)
  <1>1. DOMAIN Strata = 1..Len(Strata) /\ Len(Strata) \in Nat /\ Len(Strata) > 0
    BY StrataAssumption
  <1>2. IsFiniteSet(1..Len(Strata)) /\ Cardinality(1..Len(Strata)) = Len(Strata)
    BY <1>1, FS_Interval
  <1> QED BY <1>1, <1>2

\* The first few of the strata that have frames left are there.
LEMMA LeadingAre ==
    ASSUME NEW active \in SUBSET DOMAIN Strata, NEW places \in Nat,
           places <= Cardinality(active)
    PROVE  /\ Leading(active, places) \in SUBSET active
           /\ Cardinality(Leading(active, places)) = places
  <1> DEFINE Upto(n) == {i \in active : i <= n}
             enough == {n \in 0..Len(Strata) : Cardinality(Upto(n)) >= places}
  <1>1. IsFiniteSet(active) /\ active \subseteq 1..Len(Strata)
    <2>1. IsFiniteSet(active)
      BY StrataAre, FS_Subset
    <2> QED BY <2>1, StrataAre
  <1>2. ASSUME NEW n PROVE IsFiniteSet(Upto(n)) /\ Cardinality(Upto(n)) \in Nat
    <2>1. Upto(n) \in SUBSET active
      OBVIOUS
    <2> HIDE DEF Upto
    <2>2. IsFiniteSet(Upto(n))
      BY <1>1, <2>1, FS_Subset
    <2> QED BY <2>2, FS_CardinalityType
  <1>3. \A n : Cardinality(Upto(n)) \in Nat
    BY <1>2
  <1>4. Upto(Len(Strata)) = active
    BY <1>1, StrataAre
  <1>5. Len(Strata) \in enough
    <2>1. Len(Strata) \in 0..Len(Strata)
      BY StrataAre
    <2> HIDE DEF Upto
    <2> QED BY <1>4, <2>1
  <1>6. PICK m \in enough : \A n \in enough : m <= n
    <2>1. enough \in SUBSET Nat /\ enough # {}
      <3>1. 0..Len(Strata) \subseteq Nat
        BY StrataAre
      <3> HIDE DEF Upto
      <3> QED BY <1>5, <3>1
    <2> HIDE DEF enough
    <2> QED BY <2>1, LeastNumber
  <1>7. m \in 0..Len(Strata) /\ Cardinality(Upto(m)) >= places
    <2> HIDE DEF Upto
    <2> QED BY <1>6
  <1>8. Cardinality(Upto(m)) <= places
    <2>1. CASE m = 0
      <3>1. Upto(m) = {}
        BY <1>1, <2>1
      <3> HIDE DEF Upto
      <3>2. Cardinality(Upto(m)) = 0
        BY <3>1, FS_EmptySet
      <3> QED BY <3>2
    <2>2. CASE m > 0
      <3>1. m - 1 \in 0..Len(Strata) /\ m - 1 \notin enough
        BY <1>6, <1>7, <2>2, StrataAre
      <3>2. Cardinality(Upto(m - 1)) < places
        <4> HIDE DEF Upto
        <4> QED BY <1>3, <3>1
      <3>3. Upto(m) \subseteq Upto(m - 1) \cup {m}
        BY <1>1, <1>7, StrataAre
      <3>4. /\ IsFiniteSet(Upto(m - 1) \cup {m})
            /\ Cardinality(Upto(m - 1) \cup {m}) <= Cardinality(Upto(m - 1)) + 1
        <4>1. IsFiniteSet(Upto(m - 1)) /\ Cardinality(Upto(m - 1)) \in Nat
          BY <1>2, <1>3
        <4> HIDE DEF Upto
        <4> QED BY <4>1, FS_AddElement
      <3>5. Cardinality(Upto(m)) <= Cardinality(Upto(m - 1) \cup {m})
        <4> HIDE DEF Upto
        <4> QED BY <3>3, <3>4, FS_Subset
      <3>6. Cardinality(Upto(m - 1) \cup {m}) \in Nat
        BY <3>4, FS_CardinalityType
      <3>7. Cardinality(Upto(m)) \in Nat /\ Cardinality(Upto(m - 1)) \in Nat
        BY <1>2
      <3> HIDE DEF Upto
      <3> QED BY <3>2, <3>4, <3>5, <3>6, <3>7
    <2> QED BY <1>7, <2>1, <2>2
  <1>9. Upto(m) \in kSubset(places, active)
    <2>1. Upto(m) \in SUBSET active
      OBVIOUS
    <2>2. Cardinality(Upto(m)) \in Nat
      BY <1>2
    <2> HIDE DEF Upto
    <2>3. Cardinality(Upto(m)) = places
      BY <1>7, <1>8, <2>2
    <2> QED BY <2>1, <2>3 DEF kSubset
  <1>10. \A i \in Upto(m), j \in active \ Upto(m) : i < j
    BY <1>1, <1>7, StrataAre
  <1>11. \E first \in kSubset(places, active) : \A i \in first, j \in active \ first : i < j
    <2> HIDE DEF Upto
    <2> QED BY <1>9, <1>10
  <1>12. Leading(active, places) \in kSubset(places, active)
    BY <1>11 DEF Leading
  <1> QED BY <1>12 DEF kSubset

\* What has been placed so far is as even as the strata allow; while there is
\* more to place they are level.
Poured(eligible, target, poured) ==
    /\ poured.allocation \in [DOMAIN Strata -> Nat] /\ poured.remaining \in Nat
    /\ \A i \in DOMAIN Strata : poured.allocation[i] <= eligible[i]
    /\ SumOf(poured.allocation) + poured.remaining = target
    /\ \A i, j \in DOMAIN Strata :
          /\ poured.allocation[i] + 1 < poured.allocation[j]
                => poured.allocation[i] = eligible[i]
          /\ poured.remaining > 0 /\ poured.allocation[i] < poured.allocation[j]
                => poured.allocation[i] = eligible[i]

\* A round keeps that, and places something.
LEMMA PourKeeps ==
    ASSUME NEW eligible \in [DOMAIN Strata -> Nat], NEW target \in Nat,
           target <= SumOf(eligible), NEW poured, Poured(eligible, target, poured)
    PROVE  /\ Poured(eligible, target, Pour(eligible, poured))
           /\ IF poured.remaining = 0 THEN Pour(eligible, poured).remaining = 0
              ELSE Pour(eligible, poured).remaining < poured.remaining
  <1> DEFINE D == DOMAIN Strata
             allocation == poured.allocation
             remaining == poured.remaining
             active == {i \in D : allocation[i] < eligible[i]}
             size == Cardinality(active)
             quotient == remaining \div size
             Addition(i) ==
                 IF i \notin active THEN 0
                 ELSE IF quotient > 0 THEN LesserOf(quotient, eligible[i] - allocation[i])
                 ELSE IF i \in Leading(active, remaining) THEN 1 ELSE 0
             additions == [i \in D |-> Addition(i)]
             filled == [i \in D |-> allocation[i] + additions[i]]
  <1>1. /\ allocation \in [D -> Nat] /\ remaining \in Nat
        /\ \A i \in D : allocation[i] <= eligible[i]
        /\ SumOf(allocation) + remaining = target
        /\ \A i, j \in D : allocation[i] + 1 < allocation[j] => allocation[i] = eligible[i]
        /\ \A i, j \in D : remaining > 0 /\ allocation[i] < allocation[j]
                              => allocation[i] = eligible[i]
    BY DEF Poured
  <1>2. IsFiniteSet(D)
    BY StrataAre
  <1>3. SumOf(allocation) \in Nat /\ SumOf(eligible) \in Nat
    BY <1>1, <1>2, SumIsNumber
  <1>4. CASE remaining = 0
    BY <1>4 DEF Pour
  <1>5. CASE remaining # 0
    <2>1. active # {}
      <3>1. SUFFICES ASSUME active = {} PROVE FALSE
        OBVIOUS
      <3>2. \A i \in D : allocation[i] = eligible[i]
        BY <1>1, <3>1
      <3>3. allocation = eligible
        BY <1>1, <3>2
      <3> QED BY <1>1, <1>3, <1>5, <3>3
    <2>2. /\ IsFiniteSet(active) /\ size \in Nat /\ size > 0
      <3>1. active \in SUBSET D
        OBVIOUS
      <3> HIDE DEF active, D
      <3>2. IsFiniteSet(active)
        BY <1>2, <3>1, FS_Subset
      <3>3. size \in Nat
        BY <3>2, FS_CardinalityType
      <3>4. size # 0
        BY <2>1, <3>2, FS_EmptySet
      <3> QED BY <3>2, <3>3, <3>4
    <2>3. Pour(eligible, poured) = [allocation |-> filled,
                                    remaining |-> remaining - SumOf(additions)]
      BY <1>5, <2>1 DEF Pour
    <2>4. quotient \in Nat /\ size * quotient <= remaining /\ (quotient = 0 => remaining < size)
      <3> HIDE DEF size, remaining
      <3> QED BY <1>1, <2>2, Shares
    <2>5. \A i \in D : i \in active <=> allocation[i] < eligible[i]
      OBVIOUS
    <2>6. \A i \in D : allocation[i] \in Nat /\ eligible[i] \in Nat
      BY <1>1
    <2> HIDE DEF active, quotient, size
    <2>7. \A i \in D :
             /\ Addition(i) \in Nat /\ Addition(i) <= eligible[i] - allocation[i]
             /\ quotient > 0 => Addition(i) <= quotient
             /\ i \notin active => Addition(i) = 0
             /\ quotient > 0 /\ i \in active => Addition(i) > 0
             /\ quotient > 0 /\ Addition(i) < quotient
                   => allocation[i] + Addition(i) = eligible[i]
             /\ quotient = 0 => Addition(i) <= 1
      BY <1>1, <2>4, <2>5, <2>6 DEF LesserOf
    <2>8. additions \in [D -> Nat]
      BY <2>7
    <2>9. \A i \in D : filled[i] = allocation[i] + Addition(i)
      OBVIOUS
    <2>10. filled \in [D -> Nat] /\ \A i \in D : filled[i] <= eligible[i]
      BY <2>6, <2>7, <2>9
    <2>11. SumOf(filled) = SumOf(allocation) + SumOf(additions) /\ SumOf(additions) \in Nat
      <3> HIDE DEF additions, allocation
      <3> QED BY <1>1, <1>2, <2>8, SumOfAdditions, SumIsNumber
    <2>12. SumOf(additions) > 0 /\ SumOf(additions) <= remaining
           /\ (quotient = 0 => SumOf(additions) = remaining)
      <3>1. CASE quotient > 0
        <4>1. PICK i \in active : i \in D
          BY <2>1 DEF active
        <4>2. additions[i] > 0
          BY <2>7, <3>1, <4>1
        <4>3. \A x \in D : IF x \in active THEN additions[x] <= quotient ELSE additions[x] = 0
          BY <2>7, <3>1
        <4>4. active \in SUBSET D
          BY DEF active
        <4> HIDE DEF additions, D
        <4>5. SumOf(additions) > 0
          BY <1>2, <2>8, <4>1, <4>2, SumIsNumber
        <4>6. SumOf(additions) <= Cardinality(active) * quotient
          BY <1>2, <2>4, <2>8, <4>3, <4>4, SumOfEqualShares
        <4>7. Cardinality(active) * quotient <= remaining
          BY <2>4 DEF size
        <4>8. SumOf(additions) \in Nat /\ Cardinality(active) * quotient \in Nat
          BY <2>2, <2>4, <2>11 DEF size
        <4> QED BY <1>1, <3>1, <4>5, <4>6, <4>7, <4>8
      <3>2. CASE quotient = 0
        <4> DEFINE first == Leading(active, remaining)
        <4>1. active \in SUBSET D
          BY DEF active
        <4>2. first \in SUBSET active /\ Cardinality(first) = remaining
          <5>1. remaining <= Cardinality(active)
            BY <1>1, <2>2, <2>4, <3>2 DEF size
          <5> HIDE DEF remaining
          <5> QED BY <1>1, <4>1, <5>1, LeadingAre
        <4>3. \A i \in D : additions[i] = IF i \in first THEN 1 ELSE 0
          BY <3>2, <4>2
        <4>4. first \in SUBSET D
          BY <4>1, <4>2
        <4> HIDE DEF additions, first, D
        <4>5. SumOf(additions) = Cardinality(first)
          BY <1>2, <2>8, <4>3, <4>4, SumOfOnes
        <4> QED BY <1>1, <1>5, <4>2, <4>5
      <3> QED BY <2>4, <3>1, <3>2
    <2>13. remaining - SumOf(additions) \in Nat
           /\ SumOf(filled) + (remaining - SumOf(additions)) = target
      <3> HIDE DEF filled, additions
      <3> QED BY <1>1, <1>3, <2>11, <2>12
    <2>14. ASSUME NEW i \in D, NEW j \in D, filled[i] + 1 < filled[j]
           PROVE  filled[i] = eligible[i]
      <3>1. CASE quotient > 0
        BY <1>1, <1>5, <2>4, <2>5, <2>6, <2>7, <2>9, <2>14, <3>1
      <3>2. CASE quotient = 0
        BY <1>1, <1>5, <2>4, <2>5, <2>6, <2>7, <2>9, <2>14, <3>2
      <3> QED BY <2>4, <3>1, <3>2
    <2>15. ASSUME NEW i \in D, NEW j \in D, remaining - SumOf(additions) > 0,
                  filled[i] < filled[j]
           PROVE  filled[i] = eligible[i]
      <3>1. quotient > 0
        BY <1>1, <2>4, <2>11, <2>12, <2>15
      <3> QED BY <1>1, <1>5, <2>4, <2>5, <2>6, <2>7, <2>9, <2>15, <3>1
    <2> DEFINE next == Pour(eligible, poured)
    <2>16. next.allocation = filled /\ next.remaining = remaining - SumOf(additions)
      BY <2>3
    <2> HIDE DEF next, filled, additions
    <2>17. Poured(eligible, target, next)
      BY <2>10, <2>13, <2>14, <2>15, <2>16 DEF Poured
    <2>18. next.remaining < remaining
      BY <1>1, <2>11, <2>12, <2>16
    <2> QED BY <1>5, <2>17, <2>18 DEF next
  <1> QED BY <1>4, <1>5

\* Every round but the first is made of the one before it.
AreRounds(start, eligible, places, n, round) ==
    round = [k \in 0..n |-> IF k = 0 THEN [allocation |-> start, remaining |-> places]
                            ELSE Pour(eligible, round[k - 1])]

\* There are as many rounds as one asks for: a least number that they do not
\* reach would be one more than a number that they do reach.
LEMMA RoundsExist ==
    ASSUME NEW start, NEW eligible, NEW places \in Nat
    PROVE  \A n \in Nat : \E round : AreRounds(start, eligible, places, n, round)
  <1> DEFINE first == [allocation |-> start, remaining |-> places]
             missing == {n \in Nat : ~\E round : AreRounds(start, eligible, places, n, round)}
  <1>1. SUFFICES ASSUME missing # {} PROVE FALSE
    OBVIOUS
  <1>2. PICK m \in missing : \A n \in missing : m <= n
    <2>1. missing \in SUBSET Nat
      OBVIOUS
    <2> HIDE DEF missing
    <2> QED BY <1>1, <2>1, LeastNumber
  <1>3. m \in Nat /\ ~\E round : AreRounds(start, eligible, places, m, round)
    BY <1>2
  <1>4. m # 0
    <2> DEFINE round == [k \in 0..0 |-> first]
    <2>1. AreRounds(start, eligible, places, 0, round)
      BY DEF AreRounds
    <2> QED BY <1>3, <2>1
  <1>5. m - 1 \in Nat /\ m - 1 \notin missing
    BY <1>2, <1>3, <1>4
  <1>6. PICK g : AreRounds(start, eligible, places, m - 1, g)
    BY <1>5
  <1> HIDE DEF missing, first
  <1>7. g = [k \in 0..(m - 1) |-> IF k = 0 THEN first ELSE Pour(eligible, g[k - 1])]
    BY <1>6 DEF AreRounds, first
  <1>8. ASSUME NEW k \in 0..(m - 1)
         PROVE  g[k] = IF k = 0 THEN first ELSE Pour(eligible, g[k - 1])
    <2> DEFINE Made(k_1) == IF k_1 = 0 THEN first ELSE Pour(eligible, g[k_1 - 1])
    <2>1. g = [k_1 \in 0..(m - 1) |-> Made(k_1)]
      BY <1>7
    <2> HIDE DEF Made
    <2>2. g[k] = Made(k)
      BY <2>1
    <2> QED BY <2>2 DEF Made
  <1> DEFINE round == [k \in 0..m |-> IF k < m THEN g[k] ELSE Pour(eligible, g[m - 1])]
             again == [k \in 0..m |-> IF k = 0 THEN first ELSE Pour(eligible, round[k - 1])]
  <1>9. ASSUME NEW k \in 0..m PROVE round[k] = again[k]
    <2>1. CASE k < m
      <3>1. round[k] = g[k] /\ k \in 0..(m - 1)
        BY <1>3, <1>5, <2>1
      <3>2. g[k] = IF k = 0 THEN first ELSE Pour(eligible, g[k - 1])
        BY <1>8, <3>1
      <3>3. CASE k = 0
        BY <3>1, <3>2, <3>3
      <3>4. CASE k # 0
        <4>1. k - 1 \in 0..m /\ k - 1 < m
          BY <1>3, <1>5, <2>1, <3>4
        <4>2. round[k - 1] = g[k - 1]
          BY <4>1
        <4> QED BY <3>1, <3>2, <3>4, <4>2
      <3> QED BY <3>3, <3>4
    <2>2. CASE ~(k < m)
      <3>1. k = m /\ k # 0 /\ m - 1 \in 0..m /\ m - 1 < m
        BY <1>3, <1>4, <1>5, <2>2
      <3>2. round[m - 1] = g[m - 1] /\ round[k] = Pour(eligible, g[m - 1])
        BY <3>1
      <3> QED BY <3>1, <3>2
    <2> QED BY <2>1, <2>2
  <1>10. round = again
    BY <1>9
  <1>11. AreRounds(start, eligible, places, m, round)
    BY <1>10 DEF AreRounds, first
  <1> QED BY <1>3, <1>11

\* The rounds of a sample.
LEMMA RoundsAre ==
    ASSUME NEW start, NEW eligible, NEW places \in Nat
    PROVE  /\ Rounds(start, eligible, places)[0] = [allocation |-> start, remaining |-> places]
           /\ \A n \in 1..places : Rounds(start, eligible, places)[n]
                                       = Pour(eligible, Rounds(start, eligible, places)[n - 1])
  <1> DEFINE R == Rounds(start, eligible, places)
  <1>1. \E round : AreRounds(start, eligible, places, places, round)
    BY RoundsExist
  <1>2. R = CHOOSE round : AreRounds(start, eligible, places, places, round)
    BY DEF Rounds, AreRounds
  <1>3. AreRounds(start, eligible, places, places, R)
    BY <1>1, <1>2
  <1> HIDE DEF R
  <1>4. R = [k \in 0..places |-> IF k = 0 THEN [allocation |-> start, remaining |-> places]
                                 ELSE Pour(eligible, R[k - 1])]
    BY <1>3 DEF AreRounds
  <1>5. 0 \in 0..places
    OBVIOUS
  <1>6. R[0] = [allocation |-> start, remaining |-> places]
    BY <1>4, <1>5
  <1>7. ASSUME NEW n \in 1..places PROVE R[n] = Pour(eligible, R[n - 1])
    <2>1. n \in 0..places /\ n # 0
      OBVIOUS
    <2> QED BY <1>4, <2>1
  <1> QED BY <1>6, <1>7 DEF R

\* A stratified sample has the size asked for, or all there is, and no stratum
\* has two frames more than another that has some left.
LEMMA WaterfillIsEven ==
    ASSUME NEW eligible \in [DOMAIN Strata -> Nat], NEW size \in Nat, Allocable(eligible, size)
    PROVE  LET allocation == EqualAllocation(eligible, size)
           IN  /\ allocation \in [DOMAIN Strata -> Nat]
               /\ \A i \in DOMAIN Strata : allocation[i] <= eligible[i]
               /\ SumOf(allocation) = LesserOf(size, SumOf(eligible))
               /\ \A i, j \in DOMAIN Strata :
                     allocation[i] + 1 < allocation[j] => allocation[i] = eligible[i]
  <1> DEFINE target == LesserOf(size, SumOf(eligible))
             places == target - Len(Strata)
             start == [i \in DOMAIN Strata |-> 1]
             round == Rounds(start, eligible, places)
             Good(n) == /\ Poured(eligible, target, round[n])
                        /\ round[n].remaining <= places - n
             bad == {n \in 0..places : ~Good(n)}
  <1>1. /\ DOMAIN Strata = 1..Len(Strata) /\ Len(Strata) \in Nat /\ IsFiniteSet(DOMAIN Strata)
        /\ Cardinality(DOMAIN Strata) = Len(Strata)
    BY StrataAre
  <1>2. SumOf(eligible) \in Nat
    BY <1>1, SumIsNumber
  <1>3. target \in Nat /\ target <= SumOf(eligible) /\ places \in Nat
        /\ \A i \in DOMAIN Strata : eligible[i] > 0
    BY <1>1, <1>2 DEF LesserOf, Allocable
  <1> HIDE DEF target
  <1>4. SumOf(start) = Len(Strata)
    <2>1. start \in [DOMAIN Strata -> Nat]
          /\ \A i \in DOMAIN Strata : start[i] = IF i \in DOMAIN Strata THEN 1 ELSE 0
      OBVIOUS
    <2> HIDE DEF start
    <2> QED BY <1>1, <2>1, SumOfOnes
  <1>5. /\ round[0] = [allocation |-> start, remaining |-> places]
        /\ \A n \in 1..places : round[n] = Pour(eligible, round[n - 1])
    <2> HIDE DEF start, places
    <2> QED BY <1>3, RoundsAre
  <1>6. Good(0)
    <2>1. round[0].allocation = start /\ round[0].remaining = places
      BY <1>5
    <2>2. start \in [DOMAIN Strata -> Nat] /\ \A i \in DOMAIN Strata : start[i] = 1
      OBVIOUS
    <2>3. \A i \in DOMAIN Strata : start[i] <= eligible[i]
      BY <1>3, <2>2
    <2>4. SumOf(start) + places = target
      BY <1>1, <1>3, <1>4
    <2> HIDE DEF start, places, round
    <2>5. Poured(eligible, target, round[0])
      BY <1>3, <2>1, <2>2, <2>3, <2>4 DEF Poured
    <2> QED BY <1>3, <2>1, <2>5
  <1>7. ASSUME NEW n \in 1..places, Good(n - 1) PROVE Good(n)
    <2> DEFINE last == round[n - 1]
    <2>1. Poured(eligible, target, last) /\ last.remaining <= places - (n - 1)
      BY <1>7
    <2>2. round[n] = Pour(eligible, last)
      BY <1>5
    <2> HIDE DEF last, round, places
    <2>3. /\ Poured(eligible, target, Pour(eligible, last))
          /\ IF last.remaining = 0 THEN Pour(eligible, last).remaining = 0
             ELSE Pour(eligible, last).remaining < last.remaining
      BY <1>3, <2>1, PourKeeps
    <2>4. last.remaining \in Nat /\ Pour(eligible, last).remaining \in Nat
      BY <2>1, <2>3 DEF Poured
    <2>5. Pour(eligible, last).remaining <= places - n
      BY <1>3, <2>1, <2>3, <2>4
    <2> QED BY <2>2, <2>3, <2>5
  <1>8. bad = {}
    <2> HIDE DEF Good, round, places
    <2>1. SUFFICES ASSUME bad # {} PROVE FALSE
      OBVIOUS
    <2>2. bad \in SUBSET Nat
      BY <1>3
    <2>3. PICK m \in bad : \A n \in bad : m <= n
      <3> HIDE DEF bad
      <3> QED BY <2>1, <2>2, LeastNumber
    <2>4. m \in 0..places /\ m # 0
      BY <1>6, <2>3
    <2>5. m \in 1..places /\ m - 1 \in 0..places
      BY <1>3, <2>4
    <2>6. m - 1 \notin bad
      BY <2>3, <2>5
    <2>7. Good(m - 1)
      BY <2>5, <2>6
    <2>8. Good(m)
      BY <1>7, <2>5, <2>7
    <2> QED BY <2>3, <2>8
  <1>9. Good(places)
    <2>1. places \in 0..places
      BY <1>3
    <2> HIDE DEF Good, round, places
    <2> QED BY <1>8, <2>1
  <1>10. EqualAllocation(eligible, size) = round[places].allocation
    BY DEF EqualAllocation, Waterfill, target
  <1> HIDE DEF round, places
  <1> DEFINE final == round[places]
  <1>11. Poured(eligible, target, final) /\ final.remaining <= 0
    BY <1>3, <1>9
  <1> HIDE DEF final
  <1>12. /\ final.allocation \in [DOMAIN Strata -> Nat] /\ final.remaining \in Nat
         /\ \A i \in DOMAIN Strata : final.allocation[i] <= eligible[i]
         /\ SumOf(final.allocation) + final.remaining = target
         /\ \A i, j \in DOMAIN Strata :
               final.allocation[i] + 1 < final.allocation[j] => final.allocation[i] = eligible[i]
    BY <1>11 DEF Poured
  <1>13. SumOf(final.allocation) \in Nat
    BY <1>1, <1>12, SumIsNumber
  <1>14. SumOf(final.allocation) = target
    BY <1>3, <1>11, <1>12, <1>13
  <1>15. EqualAllocation(eligible, size) = final.allocation
    BY <1>10 DEF final
  <1> QED BY <1>12, <1>14, <1>15 DEF target

-----------------------------------------------------------------------------
(* What is in a selection (CatalogFrames).                                 *)

\* A catalog has one row for each exported row.
Catalogued ==
    /\ exported \in Exports /\ sources \in SourceTrees
    /\ catalog \subseteq {PairRow(r) : r \in ExportedRows}

\* Once it is compiled it has all of them.
CatalogComplete == catalog = {PairRow(r) : r \in ExportedRows}

\* The frames of a selection are some that can be drawn, as far as a sample of
\* each stratum can be.
Stratified(req) == req.mode = "sample" /\ req.pairSet = "type3"
Drawable(req) == Stratified(req) => Allocable(Eligible(req), req.size)

Selected ==
    /\ request \in Requests /\ Drawable(request)
    /\ \E chosen \in Draws(request) : selection = Selection(request, chosen)

\* What stands at each stage.
Staged ==
    /\ stage \in {"exported", "compiled", "selected", "published", "refused"}
    /\ request \in Requests \cup {Missing}
    /\ stage = "exported" => request = Missing /\ selection = Missing
    /\ selection # Missing \/ stage \in {"compiled", "selected", "published"} => CatalogComplete
    /\ selection # Missing \/ stage \in {"selected", "published"} => Selected
    /\ \/ caseTable = {}
       \/ stage = "published" /\ caseTable = {Case(f) : f \in selection.frames}
    /\ stage = "refused" /\ request # Missing => request.dedupe = "none"

SelectionInv == Catalogued /\ Staged

\* Whatever is drawn, it is drawn from the eligible frames.
LEMMA DrawnFromEligible ==
    ASSUME NEW req
    PROVE  Draws(req) \subseteq SUBSET Frames(req, EligibleRows(req))
  <1>1. /\ Type3Samples(req) \subseteq SUBSET Frames(req, EligibleRows(req))
        /\ Samples(req) \subseteq SUBSET Frames(req, EligibleRows(req))
        /\ {Frames(req, EligibleRows(req))} \subseteq SUBSET Frames(req, EligibleRows(req))
    BY DEF Type3Samples, Samples, kSubset
  <1> QED BY <1>1 DEF Draws

\* The frames of a selection, and what else is in it.
LEMMA WhatIsSelected ==
    ASSUME Selected
    PROVE  \E chosen \in SUBSET Frames(request, EligibleRows(request)) :
              /\ chosen \in Draws(request)
              /\ selection = Selection(request, chosen)
  BY DrawnFromEligible DEF Selected

\* A row of the catalog is known by its exported row, and has the fragments of
\* a source tree.
LEMMA CatalogRows ==
    ASSUME Catalogued
    PROVE  /\ \A p, q \in catalog : p.row = q.row => p = q
           /\ \A p \in catalog :
                 /\ p.row.kind \in {"positive", "known_false_positive"}
                 /\ Available(p) => p.first \in Nat /\ p.second \in Nat
  <1>1. \A p \in catalog : \E r \in DOMAIN exported : p = PairRow(r)
    BY DEF Catalogued, ExportedRows
  <1>2. ASSUME NEW p \in catalog, NEW q \in catalog, p.row = q.row PROVE p = q
    <2>1. PICK r \in DOMAIN exported, s \in DOMAIN exported : p = PairRow(r) /\ q = PairRow(s)
      BY <1>1
    <2>2. p.row = r /\ q.row = s
      BY <2>1 DEF PairRow
    <2> QED BY <1>2, <2>1, <2>2
  <1>3. ASSUME NEW p \in catalog
        PROVE  /\ p.row.kind \in {"positive", "known_false_positive"}
               /\ Available(p) => p.first \in Nat /\ p.second \in Nat
    <2>1. PICK r \in DOMAIN exported : p = PairRow(r)
      BY <1>1
    <2>2. r \in ExportRows
      BY ExportsAssumption DEF Catalogued
    <2>3. /\ p.row = r
          /\ p.first = sources[<<r.functionality, r.one>>]
          /\ p.second = sources[<<r.functionality, r.two>>]
      BY <2>1 DEF PairRow
    <2>4. {p.first, p.second} \subseteq Nat \cup {Missing}
      BY <2>3, SourcesAssumption DEF Catalogued
    <2>5. r.kind \in {"positive", "known_false_positive"}
      BY <2>2 DEF ExportRows
    <2> QED BY <2>3, <2>4, <2>5 DEF Available
  <1> QED BY <1>2, <1>3

\* Rows of one frame have the same content, and a row is in the frame of its
\* own key only.
LEMMA FramesAreContents ==
    ASSUME Catalogued, NEW req \in Requests, NEW p \in RowsOf(req), NEW q \in RowsOf(req),
           FrameKey(req, p) = FrameKey(req, q)
    PROVE  UnorderedPair(p) = UnorderedPair(q)
  <1>1. p \in catalog /\ q \in catalog
    BY DEF RowsOf
  <1>2. CASE req.dedupe = "unordered"
    BY <1>2 DEF FrameKey
  <1>3. CASE req.dedupe # "unordered"
    BY <1>1, <1>3, CatalogRows DEF FrameKey
  <1> QED BY <1>2, <1>3

\* What a frame that can be selected holds.
LEMMA EligibleFrame ==
    ASSUME Catalogued, NEW req \in Requests, NEW key \in Frames(req, EligibleRows(req))
    PROVE  /\ FrameRows(req, key) # {}
           /\ \A p \in FrameRows(req, key) : p \in EligibleRows(req) /\ FrameKey(req, p) = key
  <1>1. PICK e \in EligibleRows(req) : key = FrameKey(req, e)
    BY DEF Frames
  <1>2. e \in RowsOf(req) /\ Available(e) /\ UnorderedPair(e) \notin ConflictIds
    BY DEF EligibleRows
  <1>3. e \in FrameRows(req, key)
    BY <1>1, <1>2 DEF FrameRows
  <1>4. ASSUME NEW p \in FrameRows(req, key)
        PROVE  p \in EligibleRows(req) /\ FrameKey(req, p) = key
    <2>1. p \in RowsOf(req) /\ Available(p) /\ FrameKey(req, p) = key
      BY DEF FrameRows
    <2>2. UnorderedPair(p) = UnorderedPair(e)
      BY <1>1, <1>2, <2>1, FramesAreContents
    <2> QED BY <1>2, <2>1, <2>2 DEF EligibleRows
  <1> QED BY <1>3, <1>4

\* The smaller and the larger of two numbers are the two.
LEMMA Ascending ==
    ASSUME NEW a \in Nat, NEW b \in Nat
    PROVE  {Min({a, b}), Max({a, b})} = {a, b}
  <1>1. CASE a <= b
    <2>1. Min({a, b}) = a
      BY <1>1 DEF Min
    <2>2. Max({a, b}) = b
      BY <1>1 DEF Max
    <2> QED BY <2>1, <2>2
  <1>2. CASE ~(a <= b)
    <2>1. Min({a, b}) = b
      BY <1>2 DEF Min
    <2>2. Max({a, b}) = a
      BY <1>2 DEF Max
    <2> QED BY <2>1, <2>2
  <1> QED BY <1>1, <1>2

\* Without regard to order, the direction of a frame gives its content back.
LEMMA DirectionTellsContent ==
    ASSUME Catalogued, NEW req \in Requests, req.dedupe = "unordered",
           NEW key \in Frames(req, EligibleRows(req))
    PROVE  LET direction == Direction(req, FrameRows(req, key))
           IN  {direction[1], direction[2]} = key
  <1> DEFINE rows == FrameRows(req, key)
             p == CHOOSE q \in rows : TRUE
  <1>1. p \in rows
    BY EligibleFrame
  <1>2. p \in EligibleRows(req) /\ UnorderedPair(p) = key
    BY <1>1, EligibleFrame DEF FrameKey
  <1>3. p \in catalog /\ Available(p)
    BY <1>2 DEF EligibleRows, RowsOf
  <1>4. p.first \in Nat /\ p.second \in Nat
    BY <1>3, CatalogRows
  <1>5. Direction(req, rows) = <<Min({p.first, p.second}), Max({p.first, p.second})>>
    BY DEF Direction
  <1> HIDE DEF p
  <1>6. {Min({p.first, p.second}), Max({p.first, p.second})} = {p.first, p.second}
    BY <1>4, Ascending
  <1> QED BY <1>2, <1>5, <1>6 DEF UnorderedPair

\* Two frames of a selection with one content are one frame.
LEMMA ContentTellsFrame ==
    ASSUME Catalogued, Selected, request.dedupe = "unordered",
           NEW f \in selection.frames, NEW g \in selection.frames,
           {f.direction[1], f.direction[2]} = {g.direction[1], g.direction[2]}
    PROVE  f = g
  <1>1. PICK chosen \in SUBSET Frames(request, EligibleRows(request)) :
           selection = Selection(request, chosen)
    BY WhatIsSelected
  <1>2. PICK k \in chosen, l \in chosen : f = Frame(request, k) /\ g = Frame(request, l)
    BY <1>1 DEF Selection
  <1>3. /\ f.direction = Direction(request, FrameRows(request, k))
        /\ g.direction = Direction(request, FrameRows(request, l))
    BY <1>2 DEF Frame
  <1>4. /\ k \in Frames(request, EligibleRows(request)) /\ request \in Requests
        /\ l \in Frames(request, EligibleRows(request))
    BY DEF Selected
  <1>5. {f.direction[1], f.direction[2]} = k
    BY <1>3, <1>4, DirectionTellsContent
  <1>6. {g.direction[1], g.direction[2]} = l
    BY <1>3, <1>4, DirectionTellsContent
  <1> QED BY <1>2, <1>5, <1>6

\* What is selected is judged by one label.
LEMMA SelectedLabels ==
    ASSUME SelectionInv PROVE OneLabelPerInput
  <1> SUFFICES ASSUME selection # Missing, NEW f \in selection.frames, NEW p \in f.rows,
                      NEW q \in catalog, Available(q), UnorderedPair(q) = UnorderedPair(p)
               PROVE  q.row.kind = p.row.kind
    BY DEF OneLabelPerInput
  <1>1. Catalogued /\ Selected
    BY DEF SelectionInv, Staged
  <1>2. PICK chosen \in SUBSET Frames(request, EligibleRows(request)) :
           selection = Selection(request, chosen)
    BY <1>1, WhatIsSelected
  <1>3. PICK k \in chosen : f = Frame(request, k)
    BY <1>2 DEF Selection
  <1>4. p \in FrameRows(request, k) /\ k \in Frames(request, EligibleRows(request))
    BY <1>3 DEF Frame
  <1>5. p \in EligibleRows(request)
    BY <1>1, <1>4, EligibleFrame DEF Selected
  <1>6. p \in catalog /\ Available(p) /\ UnorderedPair(p) \notin ConflictIds
    BY <1>5 DEF EligibleRows, RowsOf
  <1>7. /\ p.row.kind \in {"positive", "known_false_positive"}
        /\ q.row.kind \in {"positive", "known_false_positive"}
    BY <1>1, <1>6, CatalogRows
  <1>8. UnorderedPair(p) \in Labelled(p.row.kind) /\ UnorderedPair(p) \in Labelled(q.row.kind)
    BY <1>6 DEF Labelled
  <1> QED BY <1>6, <1>7, <1>8 DEF ConflictIds

\* No two cases have one content, and the table of cases takes them.
LEMMA SelectedRunsOnce ==
    ASSUME SelectionInv PROVE ContentRunsOnce
  <1> SUFFICES ASSUME request # Missing, request.dedupe = "unordered"
               PROVE  /\ stage # "refused"
                      /\ \A c, d \in caseTable :
                            {c.id[1], c.id[2]} = {d.id[1], d.id[2]} => c = d
    BY DEF ContentRunsOnce
  <1>1. Catalogued /\ Staged
    BY DEF SelectionInv
  <1>2. stage # "refused"
    BY <1>1 DEF Staged
  <1>3. ASSUME NEW c \in caseTable, NEW d \in caseTable,
               {c.id[1], c.id[2]} = {d.id[1], d.id[2]}
        PROVE  c = d
    <2>1. stage = "published" /\ caseTable = {Case(f) : f \in selection.frames} /\ Selected
      BY <1>1 DEF Staged
    <2>2. PICK f \in selection.frames, g \in selection.frames : c = Case(f) /\ d = Case(g)
      BY <2>1
    <2>3. c.id = f.direction /\ d.id = g.direction
      BY <2>2 DEF Case
    <2>4. f = g
      BY <1>1, <1>3, <2>1, <2>3, ContentTellsFrame
    <2> QED BY <2>2, <2>4
  <1> QED BY <1>2, <1>3

\* Whatever is drawn, it can be drawn.
LEMMA DrawnFromDraws ==
    ASSUME SelectFrames
    PROVE  \E req \in Requests :
              /\ request' = req
              /\ \/ selection' = Missing /\ stage' = "compiled"
                 \/ /\ stage' = "selected" /\ Drawable(req)
                    /\ \E chosen \in Draws(req) : selection' = Selection(req, chosen)
  BY DEF SelectFrames, Drawable, Stratified

\* A selection is about the rows that were there when it was made.
LEMMA SelectionStays ==
    ASSUME catalog' = catalog, NEW req, NEW chosen
    PROVE  /\ Draws(req)' = Draws(req) /\ Drawable(req)' = Drawable(req)
           /\ Selection(req, chosen)' = Selection(req, chosen)
  <1>1. RowsOf(req)' = RowsOf(req)
    BY DEF RowsOf
  <1>2. \A kind : Labelled(kind)' = Labelled(kind)
    BY DEF Labelled
  <1>3. ConflictIds' = ConflictIds
    BY <1>2 DEF ConflictIds
  <1>4. EligibleRows(req)' = EligibleRows(req)
    BY <1>1, <1>3 DEF EligibleRows
  <1>5. ConflictRows(req)' = ConflictRows(req)
    BY <1>1, <1>3 DEF ConflictRows
  <1>6. UnavailableRows(req)' = UnavailableRows(req)
    BY <1>1 DEF UnavailableRows
  <1>7. Frames(req, EligibleRows(req))' = Frames(req, EligibleRows(req))
    BY <1>4 DEF Frames
  <1>8. \A key : FrameRows(req, key)' = FrameRows(req, key)
    BY <1>1 DEF FrameRows
  <1>9. \A key : Frame(req, key)' = Frame(req, key)
    BY <1>8 DEF Frame
  <1>10. Frames(req, ConflictRows(req))' = Frames(req, ConflictRows(req))
    BY <1>5 DEF Frames
  <1>11. Listed(req, chosen)' = Listed(req, chosen)
    BY <1>7 DEF Listed
  <1>12. ScalarCounts(req)' = ScalarCounts(req)
    BY <1>4, <1>5, <1>6 DEF ScalarCounts
  <1>13. \A i : InStratum(req, i)' = InStratum(req, i)
    BY <1>7, <1>8 DEF InStratum
  <1>14. Eligible(req)' = Eligible(req)
    BY <1>13 DEF Eligible
  <1>15. Type3Samples(req)' = Type3Samples(req)
    BY <1>7, <1>13, <1>14 DEF Type3Samples
  <1>16. Samples(req)' = Samples(req)
    BY <1>7 DEF Samples
  <1>17. Draws(req)' = Draws(req)
    BY <1>7, <1>15, <1>16 DEF Draws
  <1>18. Drawable(req)' = Drawable(req)
    BY <1>14 DEF Drawable
  <1>19. Selection(req, chosen)' = Selection(req, chosen)
    BY <1>6, <1>7, <1>9, <1>10, <1>11, <1>12 DEF Selection
  <1> QED BY <1>17, <1>18, <1>19

\* The rows stay, and so does what was selected from them.
LEMMA SelectedStays ==
    ASSUME Selected, UNCHANGED <<catalog, request, selection>>
    PROVE  Selected'
  <1>1. PICK req, chosen :
           /\ request = req /\ req \in Requests /\ Drawable(req)
           /\ chosen \in Draws(req)
           /\ selection = Selection(req, chosen)
    BY DEF Selected
  <1>2. /\ Draws(req)' = Draws(req) /\ Drawable(req)' = Drawable(req)
        /\ Selection(req, chosen)' = Selection(req, chosen)
    BY SelectionStays
  <1>3. request' = req /\ selection' = selection
    BY <1>1
  <1>4. chosen \in Draws(req)' /\ Drawable(req)'
    BY <1>1, <1>2
  <1>5. selection' = Selection(req, chosen)'
    BY <1>1, <1>2, <1>3
  <1> QED BY <1>1, <1>3, <1>4, <1>5 DEF Selected

\* A catalog that was compiled stays the one of its rows.
LEMMA CataloguedStays ==
    ASSUME Catalogued, UNCHANGED <<exported, sources, catalog>>
    PROVE  Catalogued' /\ (CatalogComplete => CatalogComplete')
  BY DEF Catalogued, CatalogComplete, ExportedRows, PairRow

\* Nothing is compiled at first.
LEMMA SelectionInitInv == CatalogInit => SelectionInv
  BY DEF CatalogInit, SelectionInv, Catalogued, Staged

\* Every stage leaves what the next one may rely on.
LEMMA SelectionStep ==
    ASSUME SelectionInv, [CatalogNext]_catalogVars
    PROVE  SelectionInv'
  <1>1. Catalogued /\ Staged
    BY DEF SelectionInv
  <1>2. CASE CompileCatalog
    <2>1. stage = "exported" /\ request = Missing /\ selection = Missing /\ caseTable = {}
      BY <1>1, <1>2 DEF CompileCatalog, Staged
    <2>2. Catalogued' /\ (stage' = "compiled" => CatalogComplete')
      BY <1>1, <1>2, <2>1 DEF CompileCatalog, Catalogued, CatalogComplete, ExportedRows, PairRow
    <2>3. /\ stage' \in {"compiled", "refused"} /\ request' = Missing /\ selection' = Missing
          /\ caseTable' = {}
      BY <1>2, <2>1 DEF CompileCatalog
    <2>4. Staged'
      BY <2>2, <2>3 DEF Staged
    <2> QED BY <2>2, <2>4 DEF SelectionInv
  <1>3. CASE SelectFrames
    <2>1. UNCHANGED <<exported, sources, catalog>> /\ caseTable' = {}
      BY <1>3 DEF SelectFrames
    <2>2. Catalogued' /\ CatalogComplete'
      BY <1>1, <1>3, <2>1, CataloguedStays DEF Staged, SelectFrames
    <2>3. PICK req \in Requests :
             /\ request' = req
             /\ \/ selection' = Missing /\ stage' = "compiled"
                \/ /\ stage' = "selected" /\ Drawable(req)
                   /\ \E chosen \in Draws(req) : selection' = Selection(req, chosen)
      BY <1>3, DrawnFromDraws
    <2>4. CASE selection' = Missing /\ stage' = "compiled"
      <3>1. Staged'
        BY <2>1, <2>2, <2>3, <2>4 DEF Staged
      <3> QED BY <2>2, <3>1 DEF SelectionInv
    <2>5. CASE /\ stage' = "selected" /\ Drawable(req)
               /\ \E chosen \in Draws(req) : selection' = Selection(req, chosen)
      <3>1. PICK chosen \in Draws(req) : selection' = Selection(req, chosen)
        BY <2>5
      <3>2. /\ Draws(req)' = Draws(req) /\ Drawable(req)' = Drawable(req)
            /\ Selection(req, chosen)' = Selection(req, chosen)
        BY <2>1, SelectionStays
      <3>3. chosen \in Draws(req)' /\ Drawable(req)'
        BY <2>5, <3>2
      <3>4. selection' = Selection(req, chosen)'
        BY <3>1, <3>2
      <3>5. Selected'
        BY <2>3, <3>3, <3>4 DEF Selected
      <3>6. Staged'
        BY <2>1, <2>2, <2>3, <2>5, <3>5 DEF Staged
      <3> QED BY <2>2, <3>6 DEF SelectionInv
    <2> QED BY <2>3, <2>4, <2>5
  <1>4. CASE WriteCases
    <2>1. /\ UNCHANGED <<exported, sources, catalog, request, selection>> /\ stage = "selected"
          /\ \/ /\ caseTable' = {Case(f) : f \in selection.frames} /\ stage' = "published"
             \/ ~CaseIdsUnique /\ stage' = "refused" /\ caseTable' = caseTable
      BY <1>4 DEF WriteCases
    <2>2. Selected /\ Selected' /\ Catalogued' /\ CatalogComplete'
      BY <1>1, <2>1, SelectedStays, CataloguedStays DEF Staged
    <2>3. caseTable = {}
      BY <1>1, <2>1 DEF Staged
    <2>4. request.dedupe \in {"unordered", "none"}
      BY <2>2 DEF Selected, Requests
    <2>5. request.dedupe = "unordered" => CaseIdsUnique
      BY <1>1, <2>2, ContentTellsFrame DEF CaseIdsUnique
    <2>6. \A f : Case(f)' = Case(f)
      BY <2>1 DEF Case
    <2>7. request \in Requests /\ request' = request /\ selection' = selection
      BY <2>1, <2>2 DEF Selected
    <2>8. Staged'
      BY <2>1, <2>2, <2>3, <2>4, <2>5, <2>6, <2>7 DEF Staged
    <2> QED BY <2>2, <2>8 DEF SelectionInv
  <1>5. CASE UNCHANGED catalogVars
    <2>1. UNCHANGED <<exported, sources, catalog, request, selection, caseTable, stage>>
      BY <1>5 DEF catalogVars
    <2>2. Catalogued' /\ (CatalogComplete => CatalogComplete') /\ (Selected => Selected')
      BY <1>1, <2>1, SelectedStays, CataloguedStays
    <2>3. \A f : Case(f)' = Case(f)
      BY <2>1 DEF Case
    <2>4. Staged'
      BY <1>1, <2>1, <2>2, <2>3 DEF Staged
    <2> QED BY <2>2, <2>4 DEF SelectionInv
  <1> QED BY <1>2, <1>3, <1>4, <1>5 DEF CatalogNext

\* The invariant of the stages.
LEMMA SelectionInvariant == CatalogSpec => []SelectionInv
  <1>1. SelectionInv /\ [CatalogNext]_catalogVars => SelectionInv'
    BY SelectionStep
  <1> QED BY <1>1, SelectionInitInv, PTL DEF CatalogSpec

\* A content has one label and one run: no input is scored both as a move and as
\* a false positive, and without regard to order no content is run twice.
THEOREM EachContentAlwaysOnce == CatalogSpec => []EachContentOnce
  <1>1. SelectionInv => EachContentOnce
    BY SelectedLabels, SelectedRunsOnce DEF EachContentOnce
  <1> QED BY <1>1, SelectionInvariant, PTL

\* The places a row can have in a selection.
LEMMA RowsReconciled ==
    ASSUME SelectionInv PROVE RowsReconcile
  <1> SUFFICES ASSUME selection # Missing PROVE RowsReconcile
    BY DEF RowsReconcile
  <1> DEFINE taken == {f.key : f \in selection.frames}
             eligible == Frames(request, EligibleRows(request))
             frameRows == UNION {f.rows : f \in selection.frames}
             conflictRows == UNION {FrameRows(request, k) : k \in selection.conflicts}
             passedRows == UNION {FrameRows(request, k) : k \in eligible \ taken}
             parts == <<frameRows, conflictRows, passedRows, selection.unavailable>>
  <1>1. Catalogued /\ Selected
    BY DEF SelectionInv, Staged
  <1>2. PICK chosen \in SUBSET eligible : selection = Selection(request, chosen)
    BY <1>1, WhatIsSelected
  <1>3. /\ selection.frames = {Frame(request, k) : k \in chosen}
        /\ selection.conflicts = Frames(request, ConflictRows(request))
        /\ selection.unavailable = UnavailableRows(request)
        /\ request \in Requests
    BY <1>1, <1>2 DEF Selection, Selected
  <1>4. \A k \in chosen :
           Frame(request, k).key = k /\ Frame(request, k).rows = FrameRows(request, k)
    BY DEF Frame
  <1>5. taken = chosen
    BY <1>3, <1>4
  <1>6. \A p : p \in frameRows <=> \E k \in chosen : p \in FrameRows(request, k)
    BY <1>3, <1>4
  <1>7. \A p : p \in passedRows <=> \E k \in eligible \ chosen : p \in FrameRows(request, k)
    BY <1>5
  <1>8. \A p : p \in conflictRows <=>
              \E k \in Frames(request, ConflictRows(request)) : p \in FrameRows(request, k)
    BY <1>3
  <1>9. \A k, p : p \in FrameRows(request, k) <=>
              p \in RowsOf(request) /\ Available(p) /\ FrameKey(request, p) = k
    BY DEF FrameRows
  <1>10. \A p \in EligibleRows(request) :
            p \in RowsOf(request) /\ Available(p) /\ FrameKey(request, p) \in eligible
    BY DEF EligibleRows, Frames
  <1>11. ASSUME NEW p \in RowsOf(request), Available(p)
         PROVE  FrameKey(request, p) \in eligible <=> UnorderedPair(p) \notin ConflictIds
    <2>1. ASSUME FrameKey(request, p) \in eligible PROVE UnorderedPair(p) \notin ConflictIds
      <3>1. p \in FrameRows(request, FrameKey(request, p))
        BY <1>9, <1>11
      <3>2. p \in EligibleRows(request)
        BY <1>1, <1>3, <2>1, <3>1, EligibleFrame
      <3> QED BY <3>2 DEF EligibleRows
    <2>2. UnorderedPair(p) \notin ConflictIds => p \in EligibleRows(request)
      BY <1>11 DEF EligibleRows
    <2> QED BY <1>10, <2>1, <2>2
  <1>12. ASSUME NEW p \in RowsOf(request), Available(p)
         PROVE  FrameKey(request, p) \in Frames(request, ConflictRows(request))
                <=> UnorderedPair(p) \in ConflictIds
    <2>1. ASSUME FrameKey(request, p) \in Frames(request, ConflictRows(request))
          PROVE  UnorderedPair(p) \in ConflictIds
      <3>1. PICK c \in ConflictRows(request) : FrameKey(request, p) = FrameKey(request, c)
        BY <2>1 DEF Frames
      <3>2. c \in RowsOf(request) /\ UnorderedPair(c) \in ConflictIds
        BY DEF ConflictRows
      <3> QED BY <1>1, <1>3, <3>1, <3>2, FramesAreContents
    <2>2. ASSUME UnorderedPair(p) \in ConflictIds
          PROVE  FrameKey(request, p) \in Frames(request, ConflictRows(request))
      <3>1. p \in ConflictRows(request)
        BY <1>12, <2>2 DEF ConflictRows
      <3> QED BY <3>1 DEF Frames
    <2> QED BY <2>1, <2>2
  <1>13. \A p : p \in selection.unavailable <=> p \in RowsOf(request) /\ ~Available(p)
    BY <1>3 DEF UnavailableRows
  <1>14. \A p : p \in frameRows <=> /\ p \in RowsOf(request) /\ Available(p)
                                    /\ FrameKey(request, p) \in chosen
    BY <1>6, <1>9
  <1>15. \A p : p \in passedRows <=> /\ p \in RowsOf(request) /\ Available(p)
                                     /\ FrameKey(request, p) \in eligible \ chosen
    BY <1>7, <1>9
  <1>16. \A p : p \in conflictRows <=> /\ p \in RowsOf(request) /\ Available(p)
                                       /\ UnorderedPair(p) \in ConflictIds
    BY <1>8, <1>9, <1>12
  <1> HIDE DEF frameRows, passedRows, conflictRows, taken, eligible
  <1>17. \A p \in RowsOf(request) :
            \/ p \in frameRows \/ p \in conflictRows \/ p \in passedRows
            \/ p \in selection.unavailable
    BY <1>11, <1>13, <1>14, <1>15, <1>16
  <1>18. /\ frameRows \cap conflictRows = {} /\ frameRows \cap passedRows = {}
         /\ frameRows \cap selection.unavailable = {} /\ conflictRows \cap passedRows = {}
         /\ conflictRows \cap selection.unavailable = {}
         /\ passedRows \cap selection.unavailable = {}
    BY <1>11, <1>13, <1>14, <1>15, <1>16
  <1>19. /\ frameRows \subseteq RowsOf(request) /\ conflictRows \subseteq RowsOf(request)
         /\ passedRows \subseteq RowsOf(request) /\ selection.unavailable \subseteq RowsOf(request)
    BY <1>13, <1>14, <1>15, <1>16
  <1>20. /\ 1..4 = {1, 2, 3, 4} /\ parts[1] = frameRows /\ parts[2] = conflictRows
         /\ parts[3] = passedRows /\ parts[4] = selection.unavailable
    OBVIOUS
  <1> HIDE DEF parts
  <1>21. UNION {parts[i] : i \in 1..4} = RowsOf(request)
    BY <1>17, <1>19, <1>20
  <1>22. \A i, j \in 1..4 : i # j => parts[i] \cap parts[j] = {}
    BY <1>18, <1>20
  <1>23. ASSUME NEW f \in selection.frames, NEW g \in selection.frames, f # g
         PROVE  f.rows \cap g.rows = {}
    <2>1. PICK k \in chosen, l \in chosen : f = Frame(request, k) /\ g = Frame(request, l)
      BY <1>3
    <2>2. f.rows = FrameRows(request, k) /\ g.rows = FrameRows(request, l) /\ k # l
      BY <1>4, <1>23, <2>1
    <2> QED BY <1>9, <2>2
  <1> QED BY <1>21, <1>22, <1>23
          DEF RowsReconcile, parts, frameRows, passedRows, conflictRows, taken, eligible

\* The least of a set of numbers is one of them.
LEMMA MinIsOne ==
    ASSUME NEW T \in SUBSET Nat, T # {}
    PROVE  Min(T) \in T
  BY LeastNumber DEF Min

\* Every strength is in some stratum, since the last one has no lower bound.
LEMMA StratumIs ==
    ASSUME NEW strength \in Nat
    PROVE  Stratum(strength) \in DOMAIN Strata
  <1> DEFINE reached == {i \in DOMAIN Strata : strength >= Strata[i]}
  <1>1. DOMAIN Strata = 1..Len(Strata) /\ Len(Strata) \in Nat /\ Len(Strata) > 0
    BY StrataAre
  <1>2. Len(Strata) \in reached
    BY <1>1, StrataAssumption
  <1>3. reached \in SUBSET Nat
    BY <1>1
  <1>4. PICK i \in reached : \A j \in reached : i <= j
    <2> HIDE DEF reached
    <2> QED BY <1>2, <1>3, LeastNumber
  <1>5. i \in DOMAIN Strata /\ strength >= Strata[i]
    BY <1>4
  <1>6. ASSUME i > 1 PROVE strength < Strata[i - 1]
    <2>1. i - 1 \in DOMAIN Strata /\ ~(i <= i - 1)
      BY <1>1, <1>5, <1>6
    <2>2. i - 1 \notin reached
      BY <1>4, <2>1
    <2>3. Strata[i - 1] \in Nat
      BY <2>1, StrataAssumption
    <2> QED BY <2>1, <2>2, <2>3
  <1> QED BY <1>5, <1>6 DEF Stratum

\* The table of pairs takes every row of the catalog.
LEMMA PairsAdmitted ==
    ASSUME Catalogued
    PROVE  catalog \subseteq PairRows
  <1> SUFFICES ASSUME NEW p \in catalog PROVE p \in PairRows
    OBVIOUS
  <1>1. PICK r \in DOMAIN exported : p = PairRow(r) /\ exported[r] > 0
    BY DEF Catalogued, ExportedRows
  <1>2. r \in ExportRows /\ exported[r] \in Nat
    BY ExportsAssumption DEF Catalogued
  <1>3. {sources[<<r.functionality, r.one>>], sources[<<r.functionality, r.two>>]}
            \subseteq Nat \cup {Missing}
    BY SourcesAssumption DEF Catalogued
  <1>4. exported[r] \in Nat \ {0}
    BY <1>1, <1>2
  <1> DEFINE m == exported[r]
             one == sources[<<r.functionality, r.one>>]
             two == sources[<<r.functionality, r.two>>]
  <1>5. p = [row |-> r, multiplicity |-> m, first |-> one, second |-> two]
    BY <1>1 DEF PairRow
  <1>6. m \in Nat \ {0} /\ one \in Nat \cup {Missing} /\ two \in Nat \cup {Missing}
    BY <1>3, <1>4
  <1> HIDE DEF m, one, two
  <1> QED BY <1>2, <1>5, <1>6 DEF PairRows

\* Rows are as strong as a number says.
LEMMA StrengthIs ==
    ASSUME NEW rows \in SUBSET PairRows, rows # {}
    PROVE  Strength(rows) \in Nat
  <1> DEFINE all == {BothSimilarity(p) : p \in rows}
  <1>1. ASSUME NEW p \in rows PROVE BothSimilarity(p) \in Nat
    <2>1. p.row \in ExportRows
      BY DEF PairRows
    <2>2. p.row.line \in 0..100 /\ p.row.token \in 0..100
      BY <2>1 DEF ExportRows
    <2> QED BY <2>2 DEF BothSimilarity, LesserOf
  <1>2. all \in SUBSET Nat /\ all # {}
    BY <1>1
  <1> HIDE DEF all
  <1>3. Min(all) \in Nat
    BY <1>2, MinIsOne
  <1> QED BY <1>3 DEF Strength, all

\* The table of cases takes the case of every frame.
LEMMA CaseAdmitted ==
    ASSUME Catalogued, Selected, NEW f \in selection.frames
    PROVE  Case(f) \in CaseRecords
  <1>1. PICK chosen \in SUBSET Frames(request, EligibleRows(request)) :
           selection = Selection(request, chosen)
    BY WhatIsSelected
  <1>2. PICK k \in chosen : f = Frame(request, k)
    BY <1>1 DEF Selection
  <1> DEFINE rows == FrameRows(request, k)
  <1>3. /\ f.rows = rows /\ f.direction = Direction(request, rows)
    BY <1>2 DEF Frame
  <1>4. request \in Requests
    BY DEF Selected
  <1>5. rows # {} /\ rows \subseteq EligibleRows(request)
    BY <1>4, EligibleFrame
  <1>6. rows \subseteq catalog /\ \A p \in rows : Available(p)
    BY <1>5 DEF EligibleRows, RowsOf
  <1>7. rows \in SUBSET PairRows
    BY <1>6, PairsAdmitted
  <1> HIDE DEF rows
  <1>8. f.direction \in Nat \X Nat
    <2> DEFINE p == CHOOSE q \in rows : TRUE
    <2>1. p \in rows
      BY <1>5
    <2>2. Direction(request, rows)
            = IF request.dedupe = "none" THEN <<p.first, p.second>>
              ELSE <<Min({p.first, p.second}), Max({p.first, p.second})>>
      BY DEF Direction
    <2> HIDE DEF p
    <2>3. p.first \in Nat /\ p.second \in Nat
      BY <1>6, <2>1, CatalogRows
    <2>4. {Min({p.first, p.second}), Max({p.first, p.second})} = {p.first, p.second}
      BY <2>3, Ascending
    <2>5. Min({p.first, p.second}) \in Nat /\ Max({p.first, p.second}) \in Nat
      BY <2>3, <2>4
    <2> QED BY <1>3, <2>2, <2>3, <2>5
  <1>9. Stratum(Strength(rows)) \in DOMAIN Strata
    BY <1>5, <1>7, StrengthIs, StratumIs
  <1> DEFINE moves == IF request.pairSet = "known-false-positive" THEN 0 ELSE 1
             stratum == IF request.pairSet = "type3" THEN Stratum(Strength(rows)) ELSE Missing
             id == f.direction
  <1>10. Case(f) = [id |-> id, moves |-> moves, rows |-> rows, stratum |-> stratum]
    BY <1>3 DEF Case
  <1>11. /\ id \in Nat \X Nat /\ moves \in {0, 1} /\ rows \in (SUBSET PairRows) \ {{}}
         /\ stratum \in DOMAIN Strata \cup {Missing}
    BY <1>5, <1>7, <1>8, <1>9
  <1> HIDE DEF id, moves, stratum
  <1> QED BY <1>10, <1>11 DEF CaseRecords

\* No stage writes a record that the tables refuse.
LEMMA RecordsAreAdmitted ==
    ASSUME SelectionInv PROVE RecordsAdmitted
  <1>1. Catalogued /\ Staged
    BY DEF SelectionInv
  <1>2. /\ stage \in {"exported", "compiled", "selected", "published", "refused"}
        /\ request \in Requests \cup {Missing}
    BY <1>1 DEF Staged
  <1>3. catalog \subseteq PairRows /\ \A p, q \in catalog : p.row = q.row => p = q
    BY <1>1, PairsAdmitted, CatalogRows
  <1>4. caseTable \subseteq CaseRecords
    <2>1. CASE caseTable = {}
      BY <2>1
    <2>2. CASE stage = "published" /\ caseTable = {Case(f) : f \in selection.frames}
      <3>1. Selected
        BY <1>1, <2>2 DEF Staged
      <3>2. \A f \in selection.frames : Case(f) \in CaseRecords
        BY <1>1, <3>1, CaseAdmitted
      <3> QED BY <2>2, <3>2
    <2> QED BY <1>1, <2>1, <2>2 DEF Staged
  <1> QED BY <1>2, <1>3, <1>4 DEF RecordsAdmitted

\* The catalog is finite, as are the frames of its rows.
LEMMA FramesAreFinite ==
    ASSUME Catalogued, NEW req, NEW rows \in SUBSET catalog
    PROVE  IsFiniteSet(rows) /\ IsFiniteSet(Frames(req, rows))
  <1> DEFINE rowOf == [p \in catalog |-> p.row]
             keyOf == [p \in rows |-> FrameKey(req, p)]
  <1>1. \A p \in catalog : \E r \in DOMAIN exported : p = PairRow(r)
    BY DEF Catalogued, ExportedRows
  <1>2. ASSUME NEW p \in catalog PROVE p.row \in DOMAIN exported
    <2>1. PICK r \in DOMAIN exported : p = PairRow(r)
      BY <1>1
    <2> QED BY <2>1 DEF PairRow
  <1>3. \A p, q \in catalog : p.row = q.row => p = q
    BY CatalogRows
  <1>4. rowOf \in Injection(catalog, DOMAIN exported)
    BY <1>2, <1>3 DEF Injection, IsInjective
  <1>5. IsFiniteSet(DOMAIN exported)
    BY ExportsAssumption DEF Catalogued
  <1> HIDE DEF rowOf
  <1>6. IsFiniteSet(catalog)
    BY <1>4, <1>5, FS_Injection
  <1>7. IsFiniteSet(rows)
    BY <1>6, FS_Subset
  <1>8. keyOf \in Surjection(rows, Frames(req, rows))
    BY DEF Frames, Surjection
  <1> HIDE DEF keyOf
  <1>9. IsFiniteSet(Frames(req, rows))
    BY <1>7, <1>8, FS_Surjection
  <1> QED BY <1>7, <1>9

\* Counting frames by a query is counting them.
LEMMA FramesAreCounted ==
    ASSUME Catalogued, NEW req \in Requests, NEW rows \in SUBSET catalog
    PROVE  CountFrames(req, rows) = Cardinality(Frames(req, rows))
  <1>1. CASE req.dedupe = "unordered"
    <2>1. \A p : FrameKey(req, p) = UnorderedPair(p)
      BY <1>1 DEF FrameKey
    <2>2. Frames(req, rows) = {UnorderedPair(p) : p \in rows}
      BY <2>1 DEF Frames
    <2> QED BY <1>1, <2>2 DEF CountFrames
  <1>2. CASE req.dedupe # "unordered"
    <2> DEFINE keyOf == [p \in rows |-> p.row]
    <2>1. \A p : FrameKey(req, p) = p.row
      BY <1>2 DEF FrameKey
    <2>2. \A k : k \in Frames(req, rows) <=> \E p \in rows : k = p.row
      BY <2>1 DEF Frames
    <2>3. \A p, q \in rows : p.row = q.row => p = q
      BY CatalogRows
    <2>4. keyOf \in Bijection(rows, Frames(req, rows))
      BY <2>2, <2>3 DEF Bijection, Injection, Surjection, IsInjective
    <2> HIDE DEF keyOf
    <2>5. ExistsBijection(rows, Frames(req, rows))
      BY <2>4 DEF ExistsBijection
    <2>6. Cardinality(Frames(req, rows)) = Cardinality(rows)
      BY <2>5, FramesAreFinite, FS_Bijection
    <2> QED BY <1>2, <2>6 DEF CountFrames
  <1> QED BY <1>1, <1>2

\* The exported rows of a pair set are as many as the rows of the catalog stand for.
LEMMA SourceRowsAre ==
    ASSUME Catalogued, CatalogComplete, NEW req \in Requests
    PROVE  LET rows == {r \in ExportedRows : InPairSet(PairRow(r), req.pairSet)}
           IN  SourceRows(RowsOf(req)) = SumOf([r \in rows |-> exported[r]])
  <1> DEFINE rows == {r \in ExportedRows : InPairSet(PairRow(r), req.pairSet)}
             count == [r \in rows |-> exported[r]]
             other == [p \in RowsOf(req) |-> p.multiplicity]
             place == [r \in rows |-> PairRow(r)]
  <1>1. \A r : PairRow(r).row = r /\ PairRow(r).multiplicity = exported[r]
    BY DEF PairRow
  <1>2. \A r \in DOMAIN exported : exported[r] \in Nat
    BY ExportsAssumption DEF Catalogued
  <1>3. rows \in SUBSET DOMAIN exported /\ count \in [rows -> Nat]
    BY <1>2 DEF ExportedRows
  <1>4. \A p : p \in RowsOf(req) <=> \E r \in rows : p = PairRow(r)
    BY DEF RowsOf, CatalogComplete
  <1>5. other \in [RowsOf(req) -> Nat]
    BY <1>1, <1>3, <1>4
  <1>6. place \in [rows -> RowsOf(req)]
    BY <1>4
  <1>7. \A r, s \in rows : place[r] = place[s] => r = s
    BY <1>1
  <1>8. \A p \in RowsOf(req) : \E r \in rows : p = place[r]
    BY <1>4
  <1>9. \A r \in rows : other[place[r]] = count[r]
    BY <1>1, <1>4
  <1>10. IsFiniteSet(rows)
    <2>1. IsFiniteSet(DOMAIN exported)
      BY ExportsAssumption DEF Catalogued
    <2> HIDE DEF rows
    <2> QED BY <1>3, <2>1, FS_Subset
  <1> HIDE DEF rows, count, other, place
  <1>11. SumOf(count) = SumOf(other)
    BY <1>3, <1>5, <1>6, <1>7, <1>8, <1>9, <1>10, SumElsewhere
  <1> QED BY <1>11 DEF SourceRows, rows, count, other

\* The counts of the queries agree with the rows.
LEMMA CountsReconciled ==
    ASSUME SelectionInv PROVE CountsReconcile
  <1> SUFFICES ASSUME selection # Missing PROVE CountsReconcile
    BY DEF CountsReconcile
  <1> DEFINE taken == {f.key : f \in selection.frames}
             eligible == Frames(request, EligibleRows(request))
             rows == {r \in ExportedRows : InPairSet(PairRow(r), request.pairSet)}
             E == EligibleRows(request)
             C == ConflictRows(request)
             U == UnavailableRows(request)
  <1>1. Catalogued /\ Selected /\ CatalogComplete
    BY DEF SelectionInv, Staged
  <1>2. PICK chosen \in SUBSET eligible : selection = Selection(request, chosen)
    BY <1>1, WhatIsSelected
  <1>3. request \in Requests
    BY <1>1 DEF Selected
  <1>4. /\ selection.frames = {Frame(request, k) : k \in chosen}
        /\ selection.conflicts = Frames(request, C)
        /\ selection.counts = ScalarCounts(request)
        /\ selection.sampleExcluded = ScalarCounts(request).eligible - Cardinality(chosen)
    BY <1>2 DEF Selection
  <1>5. \A k \in chosen : Frame(request, k).key = k
    BY DEF Frame
  <1>6. taken = chosen
    BY <1>4, <1>5
  <1>7. E \in SUBSET catalog /\ C \in SUBSET catalog /\ RowsOf(request) \in SUBSET catalog
    BY DEF EligibleRows, ConflictRows, RowsOf
  <1>8. /\ ScalarCounts(request).eligible = Cardinality(eligible)
        /\ ScalarCounts(request).conflict = Cardinality(Frames(request, C))
    BY <1>1, <1>3, <1>7, FramesAreCounted DEF ScalarCounts
  <1>9. IsFiniteSet(eligible) /\ IsFiniteSet(RowsOf(request))
    BY <1>1, <1>7, FramesAreFinite
  <1>10. selection.sampleExcluded = Cardinality(eligible \ taken)
    <2> HIDE DEF eligible, taken
    <2>1. Cardinality(eligible \ chosen) = Cardinality(eligible) - Cardinality(eligible \cap chosen)
      BY <1>9, FS_Difference
    <2>2. eligible \cap chosen = chosen
      BY <1>2
    <2> QED BY <1>4, <1>6, <1>8, <2>1, <2>2
  <1>11. selection.counts.conflict = Cardinality(selection.conflicts)
    BY <1>4, <1>8
  <1>12. /\ E \cup (C \cup U) = RowsOf(request) /\ E \cap (C \cup U) = {} /\ C \cap U = {}
    BY DEF EligibleRows, ConflictRows, UnavailableRows
  <1>13. \A p \in RowsOf(request) : p.multiplicity \in Nat
    <2>1. catalog \subseteq PairRows
      BY <1>1, PairsAdmitted
    <2>2. \A p \in PairRows : p.multiplicity \in Nat
      BY DEF PairRows
    <2> QED BY <1>7, <2>1, <2>2
  <1> HIDE DEF E, C, U
  <1>14. SourceRows(RowsOf(request)) = SourceRows(E) + SourceRows(C \cup U)
    <2> DEFINE rest == C \cup U
               all == [p \in E \cup rest |-> p.multiplicity]
               left == [p \in E |-> p.multiplicity]
               right == [p \in rest |-> p.multiplicity]
    <2>1. E \cup rest = RowsOf(request) /\ E \cap rest = {}
      BY <1>12
    <2>2. all \in [E \cup rest -> Nat] /\ left \in [E -> Nat] /\ right \in [rest -> Nat]
      BY <1>13, <2>1
    <2>3. (\A p \in E : left[p] = all[p]) /\ \A p \in rest : right[p] = all[p]
      OBVIOUS
    <2>4. IsFiniteSet(E \cup rest)
      BY <1>9, <2>1
    <2> HIDE DEF all, left, right, rest
    <2>5. SumOf(all) = SumOf(left) + SumOf(right)
      BY <2>1, <2>2, <2>3, <2>4, SumOverParts
    <2> QED BY <2>1, <2>5 DEF SourceRows, all, left, right, rest
  <1>15. SourceRows(C \cup U) = SourceRows(C) + SourceRows(U)
    <2> DEFINE all == [p \in C \cup U |-> p.multiplicity]
               left == [p \in C |-> p.multiplicity]
               right == [p \in U |-> p.multiplicity]
    <2>1. all \in [C \cup U -> Nat] /\ left \in [C -> Nat] /\ right \in [U -> Nat]
      BY <1>12, <1>13
    <2>2. (\A p \in C : left[p] = all[p]) /\ \A p \in U : right[p] = all[p]
      OBVIOUS
    <2>3. C \cup U \in SUBSET RowsOf(request)
      BY <1>12
    <2>4. IsFiniteSet(C \cup U)
      BY <1>9, <2>3, FS_Subset
    <2> HIDE DEF all, left, right
    <2>5. SumOf(all) = SumOf(left) + SumOf(right)
      BY <1>12, <2>1, <2>2, <2>4, SumOverParts
    <2> QED BY <2>5 DEF SourceRows, all, left, right
  <1>16. SourceRows(E) \in Nat /\ SourceRows(C) \in Nat /\ SourceRows(U) \in Nat
    <2>1. ASSUME NEW part \in SUBSET RowsOf(request) PROVE SourceRows(part) \in Nat
      <3> DEFINE count == [p \in part |-> p.multiplicity]
      <3>1. count \in [part -> Nat]
        BY <1>13
      <3>2. IsFiniteSet(part)
        BY <1>9, FS_Subset
      <3> HIDE DEF count
      <3>3. SumOf(count) \in Nat
        BY <3>1, <3>2, SumIsNumber
      <3> QED BY <3>3 DEF SourceRows, count
    <2> QED BY <1>12, <2>1
  <1>17. SourceRows(RowsOf(request)) = SumOf([r \in rows |-> exported[r]])
    BY <1>1, <1>3, SourceRowsAre
  <1>18. /\ selection.counts.eligibleSource = SourceRows(E)
         /\ selection.counts.conflictSource = SourceRows(C)
         /\ selection.counts.unavailableSource = SourceRows(U)
    BY <1>4 DEF ScalarCounts, E, C, U
  <1>19. selection.counts.eligibleSource + selection.counts.conflictSource
             + selection.counts.unavailableSource = SumOf([r \in rows |-> exported[r]])
    <2> HIDE DEF rows
    <2> QED BY <1>14, <1>15, <1>16, <1>17, <1>18
  <1> HIDE DEF rows, taken, eligible
  <1> QED BY <1>10, <1>11, <1>19 DEF CountsReconcile, rows, taken, eligible

\* A sample of each stratum is even.
LEMMA SampledEvenly ==
    ASSUME SelectionInv PROVE SampleIsEven
  <1> SUFFICES ASSUME selection # Missing, request.pairSet = "type3", request.mode = "sample"
               PROVE  SampleIsEven
    BY DEF SampleIsEven
  <1> DEFINE eligible == Eligible(request)
             allocation == EqualAllocation(eligible, request.size)
             Taken(i) == {f.key : f \in selection.frames} \cap InStratum(request, i)
             taken == [i \in DOMAIN Strata |-> Cardinality(Taken(i))]
  <1>1. Catalogued /\ Selected
    BY DEF SelectionInv, Staged
  <1>2. PICK chosen \in SUBSET Frames(request, EligibleRows(request)) :
           chosen \in Draws(request) /\ selection = Selection(request, chosen)
    BY <1>1, WhatIsSelected
  <1>3. chosen \in Type3Samples(request)
    BY <1>2 DEF Draws
  <1>4. \A i \in DOMAIN Strata : Cardinality(chosen \cap InStratum(request, i)) = allocation[i]
    BY <1>3 DEF Type3Samples
  <1>5. selection.frames = {Frame(request, k) : k \in chosen}
    BY <1>2 DEF Selection
  <1>6. \A k \in chosen : Frame(request, k).key = k
    BY DEF Frame
  <1>7. {f.key : f \in selection.frames} = chosen
    BY <1>5, <1>6
  <1>8. \A i \in DOMAIN Strata : taken[i] = allocation[i]
    BY <1>4, <1>7
  <1>9. request.size \in Nat
    <2>1. request \in Requests
      BY <1>1 DEF Selected
    <2>2. request.size \in SampleSizes
      BY <2>1 DEF Requests
    <2> QED BY <2>2, SampleSizesAssumption
  <1>10. Allocable(eligible, request.size)
    BY <1>1 DEF Selected, Drawable, Stratified
  <1>11. eligible \in [DOMAIN Strata -> Nat]
    <2>1. EligibleRows(request) \in SUBSET catalog
      BY DEF EligibleRows, RowsOf
    <2>2. IsFiniteSet(Frames(request, EligibleRows(request)))
      BY <1>1, <2>1, FramesAreFinite
    <2>3. ASSUME NEW i \in DOMAIN Strata PROVE Cardinality(InStratum(request, i)) \in Nat
      <3>1. InStratum(request, i) \in SUBSET Frames(request, EligibleRows(request))
        BY DEF InStratum
      <3>2. IsFiniteSet(InStratum(request, i))
        BY <2>2, <3>1, FS_Subset
      <3> QED BY <3>2, FS_CardinalityType
    <2> QED BY <2>3 DEF Eligible
  <1> HIDE DEF eligible
  <1>12. /\ allocation \in [DOMAIN Strata -> Nat]
         /\ SumOf(allocation) = LesserOf(request.size, SumOf(eligible))
         /\ \A i, j \in DOMAIN Strata :
               allocation[i] + 1 < allocation[j] => allocation[i] = eligible[i]
    BY <1>9, <1>10, <1>11, WaterfillIsEven
  <1>13. taken = allocation
    <2> HIDE DEF allocation
    <2> QED BY <1>8, <1>12
  <1> HIDE DEF allocation, taken
  <1>14. /\ SumOf(taken) = LesserOf(request.size, SumOf(eligible))
         /\ \A i, j \in DOMAIN Strata : taken[i] + 1 < taken[j] => taken[i] = eligible[i]
    BY <1>12, <1>13
  <1> QED BY <1>14 DEF SampleIsEven, eligible, taken

\* The tables take what is written, nothing is lost between the catalog and the
\* sample, and a sample of each stratum is even: for every bag of rows, every
\* source tree, every draw.
THEOREM SelectionAlwaysFair == CatalogSpec => []SelectionIsFair
  <1>1. SelectionInv => SelectionIsFair
    BY RecordsAreAdmitted, RowsReconciled, CountsReconciled, SampledEvenly DEF SelectionIsFair
  <1> QED BY <1>1, SelectionInvariant, PTL
=============================================================================
