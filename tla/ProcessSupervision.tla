------------------------- MODULE ProcessSupervision -------------------------
(***************************************************************************)
(* One call of run_supervised_process                                      *)
(* (srcmove_runtime/process_supervision.py) and the processes it           *)
(* supervises: the tool is the leader of a process group, forks, leaves    *)
(* the group, ends and writes as it likes; the supervisor polls, scans     *)
(* /proc entry by entry, signals the group when a deadline has passed, a   *)
(* callback has raised or the user interrupts, and reports.  A thread of   *)
(* it drains the tool's output (one of the two streams is modelled, the    *)
(* other one is alike) into the bounded capture.                           *)
(***************************************************************************)
EXTENDS BoundedCapture, FiniteSets

CONSTANTS
    Procs,          \* processes that may come to exist
    Leader,         \* the one Popen starts, with a session of its own
    PipeCapacity,   \* bytes the pipe holds
    CallbackRaises, \* whether on_started may raise
    MaxInterrupts   \* bound on KeyboardInterrupts

ASSUME ProcsAssumption == IsFiniteSet(Procs) /\ Leader \in Procs
ASSUME PipeAssumption == PipeCapacity \in Nat \ {0}
ASSUME InterruptAssumption == CallbackRaises \in BOOLEAN /\ MaxInterrupts \in Nat

VARIABLES
    \* the processes
    life,       \* what the kernel knows of each
    escaped,    \* those that left the group (setsid)
    produced,   \* bytes written to the pipe so far
    \* the supervisor
    pc,         \* where it is
    known,      \* `process` has been assigned
    handling,   \* it is in the except clause
    phase,      \* what the next wait or scan is for
    late,       \* the deadline of the current wait has passed
    unread,     \* /proc entries the scan has still to read
    observed,   \* observed_member of the scan
    signals,    \* signals_sent
    timedOut,   \* timed_out
    drain,      \* the drain thread
    finished,   \* stdout_finished
    cleaned,    \* process_group_cleaned
    interrupts, \* how many have been delivered
    newborn     \* history: processes forked during a scan, and their offspring

procVars == <<life, escaped, produced>>
scanVars == <<unread, observed>>
reportVars == <<signals, timedOut, finished, cleaned>>
callVars == <<known, handling, phase, late>>
vars == <<captureVars, procVars, scanVars, reportVars, callVars, pc, drain,
          interrupts, newborn>>

Lives == {"none", "alive", "zombie", "gone"}
Phases == {"none", "run", "grace", "final", "check", "verdict"}
Places == {"spawn", "spawned", "started", "wait", "scan", "term", "kill", "reap",
           "except", "join", "report", "returned", "raised", "escaped"}
Ended == {"returned", "raised", "escaped"}

Alive == {p \in Procs : life[p] = "alive"}
Members == {p \in Procs \ escaped : life[p] \in {"alive", "zombie"}}
LiveMembers == Alive \ escaped

Init ==
    /\ life = [p \in Procs |-> "none"] /\ escaped = {} /\ produced = 0
    /\ pc = "spawn" /\ known = FALSE /\ handling = FALSE
    /\ phase = "none" /\ late = FALSE
    /\ unread = {} /\ observed = FALSE
    /\ signals = {} /\ timedOut = FALSE /\ finished = FALSE /\ cleaned = FALSE
    /\ drain = "none" /\ interrupts = 0 /\ newborn = {}
    /\ CaptureInit

-----------------------------------------------------------------------------
(* The tool and its descendants: any code at all.                           *)

Fork(p, q) ==
    /\ p \in Alive /\ life[q] = "none" /\ q # Leader
    /\ life' = [life EXCEPT ![q] = "alive"]
    /\ escaped' = IF p \in escaped THEN escaped \cup {q} ELSE escaped
    /\ newborn' = IF pc = "scan" \/ p \in newborn THEN newborn \cup {q} ELSE newborn
    /\ UNCHANGED produced

\* setsid fails for the leader of a group.
LeaveGroup(p) ==
    /\ p \in LiveMembers \ {Leader}
    /\ escaped' = escaped \cup {p}
    /\ UNCHANGED <<life, produced, newborn>>

Exit(p) ==
    /\ p \in Alive
    /\ life' = [life EXCEPT ![p] = "zombie"]
    /\ UNCHANGED <<escaped, produced, newborn>>

\* A descendant's parent, or init, collects it; the leader's parent is the
\* supervisor.
Collect(p) ==
    /\ p # Leader /\ life[p] = "zombie"
    /\ life' = [life EXCEPT ![p] = "gone"]
    /\ UNCHANGED <<escaped, produced, newborn>>

\* Every process has inherited the pipe; a write waits for room in it.
Write(p) ==
    /\ p \in Alive
    /\ produced < MaxBytes /\ produced - total < PipeCapacity
    /\ produced' = produced + 1
    /\ UNCHANGED <<life, escaped, newborn>>

ProcessStep ==
    /\ \E p \in Procs : \/ \E q \in Procs : Fork(p, q)
                        \/ LeaveGroup(p) \/ Exit(p) \/ Collect(p) \/ Write(p)
    /\ UNCHANGED <<captureVars, scanVars, reportVars, callVars, pc, drain, interrupts>>

-----------------------------------------------------------------------------
(* The drain thread.                                                        *)

\* One read returns what is there, up to its block size.
ReadBlock ==
    /\ drain = "reading" /\ total < produced
    /\ \E n \in 1..(produced - total) : Add(NextBlock(n))
    /\ UNCHANGED drain

\* Faulty, unused: takes an empty pipe for the end of the stream.
ReadEndEarly ==
    /\ drain = "reading" /\ total = produced
    /\ drain' = "closed"
    /\ UNCHANGED captureVars

\* End of file: nothing is left to read and nobody can write any more.
ReadEnd ==
    /\ drain = "reading" /\ total = produced /\ Alive = {}
    /\ drain' = "closed"
    /\ UNCHANGED captureVars

DrainStep ==
    /\ ReadBlock \/ ReadEnd
    /\ UNCHANGED <<procVars, scanVars, reportVars, callVars, pc, interrupts, newborn>>

-----------------------------------------------------------------------------
(* Waiting for the group, and looking whether it still exists.              *)

WaitFor(what) == pc' = "wait" /\ phase' = what /\ late' = FALSE

BeginScan(what, lives) ==
    /\ pc' = "scan" /\ phase' = what
    /\ unread' = {p \in Procs : lives[p] \in {"alive", "zombie"}}
    /\ observed' = FALSE

\* Faulty, unused: timed_out only once SIGTERM did not help.
AfterWaitForgiving(done) ==
    /\ UNCHANGED <<known, handling, late>>
    /\ CASE phase = "run" -> /\ pc' = IF done THEN "reap" ELSE "term"
                             /\ UNCHANGED timedOut
         [] phase = "grace" -> /\ pc' = IF done THEN "reap" ELSE "kill"
                               /\ timedOut' = ~done
         [] phase = "final" -> pc' = "reap" /\ UNCHANGED timedOut
    /\ phase' = "none"
    /\ UNCHANGED <<signals, finished, cleaned>>

\* Where control goes once a wait or a scan for `phase` has its answer.
AfterWait(done) ==
    /\ UNCHANGED <<known, handling, late>>
    /\ CASE phase = "run" -> /\ timedOut' = ~done
                             /\ pc' = IF done THEN "reap" ELSE "term"
         [] phase = "grace" -> /\ pc' = IF done THEN "reap" ELSE "kill"
                               /\ UNCHANGED timedOut
         [] phase = "final" -> pc' = "reap" /\ UNCHANGED timedOut
    /\ phase' = "none"
    /\ UNCHANGED <<signals, finished, cleaned>>

AfterScan(exists) ==
    CASE phase = "check" ->
            /\ pc' = IF exists THEN "term" ELSE "join"
            /\ phase' = "none"
            /\ UNCHANGED <<known, handling, late, reportVars>>
      [] phase = "verdict" ->
            /\ cleaned' = ~exists /\ pc' = "report" /\ phase' = "none"
            /\ UNCHANGED <<known, handling, late, signals, timedOut, finished>>
      [] phase \in {"run", "grace", "final"} ->
            IF exists THEN pc' = "wait" /\ UNCHANGED <<callVars, reportVars>>
            ELSE AfterWait(TRUE)

\* process.poll() collects the leader if it has ended; only then is the group
\* looked at.
Reaped == [life EXCEPT ![Leader] = IF @ = "alive" THEN @ ELSE "gone"]

\* Faulty, unused: the group is done when its leader is.
PollLeaderOnly ==
    /\ pc = "wait" /\ ~late
    /\ life[Leader] # "alive" /\ life' = Reaped
    /\ AfterWait(TRUE)
    /\ UNCHANGED <<escaped, produced, scanVars, newborn>>

Poll ==
    /\ pc = "wait" /\ ~late
    /\ life[Leader] # "alive" /\ life' = Reaped
    /\ BeginScan(phase, Reaped)
    /\ UNCHANGED <<escaped, produced, known, handling, late, reportVars, newborn>>

\* The loop ends at its condition only.
DeadlinePasses ==
    /\ pc = "wait" /\ late
    /\ AfterWait(FALSE)
    /\ UNCHANGED <<procVars, scanVars, newborn>>

\* One stat file is read: a process that has gone, or is of another group, is
\* passed over, a live member ends the scan.
ReadEntry(p) ==
    /\ pc = "scan" /\ p \in unread
    /\ unread' = unread \ {p}
    /\ IF p \in LiveMembers
         THEN observed' = TRUE /\ AfterScan(TRUE)
         ELSE /\ observed' = (observed \/ p \in Members)
              /\ UNCHANGED <<pc, callVars, reportVars>>
    /\ UNCHANGED <<procVars, newborn>>

\* Only zombies were seen, or none at all: then killpg(0) decides.
EndScan ==
    /\ pc = "scan" /\ unread = {}
    /\ AfterScan(~observed /\ Members # {})
    /\ UNCHANGED <<procVars, scanVars, newborn>>

-----------------------------------------------------------------------------
(* The steps of run_supervised_process.                                     *)

Spawn ==
    /\ pc = "spawn" /\ pc' = "spawned"
    /\ life' = [life EXCEPT ![Leader] = "alive"]
    /\ UNCHANGED <<escaped, produced, scanVars, reportVars, callVars, drain, newborn>>

SpawnFails ==
    /\ pc = "spawn" /\ pc' = "join"
    /\ UNCHANGED <<procVars, scanVars, reportVars, callVars, drain, newborn>>

Assign ==
    /\ pc = "spawned" /\ pc' = "started" /\ known' = TRUE
    /\ UNCHANGED <<procVars, scanVars, reportVars, handling, phase, late, drain, newborn>>

\* on_started, the threads, the first wait.
Start ==
    /\ pc = "started" /\ WaitFor("run")
    /\ drain' = "reading"
    /\ UNCHANGED <<procVars, scanVars, reportVars, known, handling, newborn>>

CallbackFails ==
    /\ pc = "started" /\ CallbackRaises
    /\ pc' = "except" /\ handling' = TRUE
    /\ UNCHANGED <<procVars, scanVars, reportVars, known, phase, late, drain, newborn>>

\* killpg reaches every member at once; TERM may be caught or ignored.
SendTerm ==
    /\ pc = "term" /\ WaitFor("grace")
    /\ signals' = IF Members = {} THEN signals ELSE signals \cup {"TERM"}
    /\ \E dying \in SUBSET LiveMembers :
          life' = [p \in Procs |-> IF p \in dying THEN "zombie" ELSE life[p]]
    /\ UNCHANGED <<escaped, produced, scanVars, timedOut, finished, cleaned, known,
                   handling, drain, newborn>>

\* Faulty, unused: kills the leader, not its group.
KillLeader ==
    /\ pc = "kill" /\ Members # {}
    /\ WaitFor("final") /\ signals' = signals \cup {"KILL"}
    /\ life' = [life EXCEPT ![Leader] = IF @ = "alive" THEN "zombie" ELSE @]
    /\ UNCHANGED <<escaped, produced, scanVars, timedOut, finished, cleaned, known,
                   handling, drain, newborn>>

SendKill ==
    /\ pc = "kill" /\ Members # {}
    /\ WaitFor("final") /\ signals' = signals \cup {"KILL"}
    /\ life' = [p \in Procs |-> IF p \in LiveMembers THEN "zombie" ELSE life[p]]
    /\ UNCHANGED <<escaped, produced, scanVars, timedOut, finished, cleaned, known,
                   handling, drain, newborn>>

NothingToKill ==
    /\ pc = "kill" /\ Members = {}
    /\ pc' = "reap"
    /\ UNCHANGED <<procVars, scanVars, reportVars, callVars, drain, newborn>>

\* process.wait() has no timeout of its own.
Reap ==
    /\ pc = "reap" /\ pc' = "join"
    /\ life[Leader] # "alive" /\ life' = Reaped
    /\ UNCHANGED <<escaped, produced, scanVars, reportVars, callVars, drain, newborn>>

\* The except clause: nothing to do if Popen never returned or the group is gone.
CleanUp ==
    /\ pc = "except"
    /\ \/ /\ ~known /\ pc' = "join"
          /\ UNCHANGED <<life, scanVars, phase>>
       \/ /\ known /\ life[Leader] = "alive" /\ pc' = "term"
          /\ UNCHANGED <<life, scanVars, phase>>
       \/ /\ known /\ life[Leader] # "alive" /\ life' = Reaped
          /\ BeginScan("check", Reaped)
    /\ UNCHANGED <<escaped, produced, reportVars, known, handling, late, drain, newborn>>

\* Faulty, unused: joins the drain thread without a timeout.
JoinPatiently ==
    /\ pc = "join" /\ drain # "reading"
    /\ finished' = TRUE
    /\ IF known THEN BeginScan("verdict", life) /\ UNCHANGED cleaned
                ELSE /\ cleaned' = TRUE /\ pc' = "report"
                     /\ UNCHANGED <<phase, scanVars>>
    /\ UNCHANGED <<procVars, signals, timedOut, known, handling, late, drain, newborn>>

\* The join gives up after five seconds; then the group is looked at once more.
Join ==
    /\ pc = "join"
    /\ finished' = (drain # "reading")
    /\ IF known THEN BeginScan("verdict", life) /\ UNCHANGED cleaned
                ELSE /\ cleaned' = TRUE /\ pc' = "report"
                     /\ UNCHANGED <<phase, scanVars>>
    /\ UNCHANGED <<procVars, signals, timedOut, known, handling, late, drain, newborn>>

\* The result is returned, or handed to on_interrupted before the exception
\* goes on.
Report ==
    /\ pc = "report" /\ pc' = IF handling THEN "raised" ELSE "returned"
    /\ UNCHANGED <<procVars, scanVars, reportVars, callVars, drain, newborn>>

\* KeyboardInterrupt: in the try block it is handled there, after it or while
\* another exception is handled it leaves the call.
Interrupt ==
    /\ pc \notin Ended /\ interrupts < MaxInterrupts
    /\ interrupts' = interrupts + 1
    /\ IF handling \/ pc \in {"join", "report"} \/ phase = "verdict"
         THEN pc' = "escaped" /\ UNCHANGED handling
         ELSE pc' = "except" /\ handling' = TRUE
    /\ UNCHANGED <<captureVars, procVars, scanVars, reportVars, known, phase, late,
                   drain, newborn>>

\* The clock.
TimePasses ==
    /\ pc \in {"wait", "scan"} /\ ~late /\ late' = TRUE
    /\ UNCHANGED <<captureVars, procVars, scanVars, reportVars, known, handling,
                   phase, pc, drain, interrupts, newborn>>

WaitStep == /\ \/ Poll \/ DeadlinePasses \/ EndScan
               \/ \E p \in Procs : ReadEntry(p)
            /\ UNCHANGED drain
CallStep == \/ Spawn \/ SpawnFails \/ Assign \/ Start \/ CallbackFails
            \/ SendTerm \/ SendKill \/ NothingToKill \/ Reap \/ CleanUp
            \/ Join \/ Report
SupervisorStep ==
    (WaitStep \/ CallStep) /\ UNCHANGED <<captureVars, interrupts>>

Next == ProcessStep \/ DrainStep \/ SupervisorStep \/ Interrupt \/ TimePasses

\* The supervisor's thread and the clock go on; the tool owes nothing, and the
\* drain thread reads what there is.
Fairness == WF_vars(SupervisorStep) /\ WF_vars(TimePasses) /\ WF_vars(DrainStep)

Spec == Init /\ [][Next]_vars /\ Fairness

-----------------------------------------------------------------------------
(* Correctness.                                                             *)

\* Every variable keeps its type.
TypeOK ==
    /\ life \in [Procs -> Lives] /\ escaped \subseteq Procs
    /\ produced \in 0..MaxBytes /\ total \in 0..produced
    /\ head \in Seq(1..MaxBytes) /\ tail \in Seq(1..MaxBytes)
    /\ pc \in Places /\ phase \in Phases
    /\ known \in BOOLEAN /\ handling \in BOOLEAN /\ late \in BOOLEAN
    /\ unread \subseteq Procs /\ observed \in BOOLEAN
    /\ signals \subseteq {"TERM", "KILL"} /\ timedOut \in BOOLEAN
    /\ drain \in {"none", "reading", "closed"}
    /\ finished \in BOOLEAN /\ cleaned \in BOOLEAN
    /\ interrupts \in 0..MaxInterrupts /\ newborn \subseteq Procs

\* When the call is over, normally or by one exception, the group it started
\* has no live process left, whatever the tool caught, ignored or forked;
\* except that a process forked while /proc was being read may have been
\* overlooked.  (An interrupt before Popen has returned leaves the call without
\* the process it started, see known, and one that hits the except clause cuts
\* it short.)
NobodyLeftBehind ==
    /\ pc \in Ended /\ known
    /\ ~(pc = "escaped" /\ handling)
    => LiveMembers \subseteq newborn

\* SIGKILL is the last word: once it is sent no member of the group lives, and
\* none is born into the group.
KillIsFinal == "KILL" \in signals => LiveMembers = {}

\* The supervised group is over when the call is.
GroupIsEnded == NobodyLeftBehind /\ KillIsFinal

\* A capture that counts as complete holds all that any process ever wrote,
\* those that left the group included, and none of them can write any more.
CompleteIsAll == finished /\ known /\ drain # "none" => total = produced /\ Alive = {}

\* A result that is not timed out was never influenced by the supervisor: no
\* signal was sent, and the leader had ended by itself.
UntouchedUnlessTimedOut ==
    pc = "returned" /\ ~timedOut => signals = {} /\ life[Leader] \in {"none", "gone"}

\* What the result says of the process and of its output is so.
ReportIsTrue == TypeOK /\ CompleteIsAll /\ UntouchedUnlessTimedOut

\* The call ends: a tool that ignores SIGTERM, a group that outlives its
\* leader and a pipe that a detached process keeps open delay it, no more.
CallEnds == <>(pc \in Ended)
=============================================================================
