---------------------------- MODULE ToolAttempts -----------------------------
(***************************************************************************)
(* The attempt directories of benchmark tools (benchmarking/execution.py): *)
(* a directory is made, the tool started in it, started.json records its   *)
(* process, attempt.json seals what came of it, started.json goes.  A      *)
(* later process seals what an earlier one abandoned.  Directories are     *)
(* numbered in the order they are made; their order on disk is arbitrary.  *)
(***************************************************************************)
EXTENDS Naturals, Sequences

VARIABLE tools  \* the attempt directories below tool-attempts

Stages == {"srcdiff", "srcmove"}
Directories == DOMAIN tools

\* The process of a directory is "none" before it is spawned, and for good
\* when the output is a restored copy; "gone" when there is none any more.
Directory(stage, key, build) ==
    [stage |-> stage, key |-> key, build |-> build, process |-> "none",
     started |-> FALSE, seal |-> "open"]

NextDirectory == Len(tools) + 1

MakeDirectory(directory) == tools' = Append(tools, directory)

Spawn(d) ==
    /\ tools[d].process = "none"
    /\ tools' = [tools EXCEPT ![d].process = "alive"]

RecordStarted(d) ==
    /\ tools[d].process # "none"
    /\ tools[d].seal = "open" /\ ~tools[d].started
    /\ tools' = [tools EXCEPT ![d].started = TRUE]

\* The tool ends by itself, or its process group is killed.
ToolEnds(d) ==
    /\ tools[d].process = "alive"
    /\ tools' = [tools EXCEPT ![d].process = "gone"]

\* Only a tool that was supervised to its end can be admitted, and only when
\* it exited with 0, its output is valid and its streams were captured whole.
SealAttempt(d, verdict) ==
    /\ tools[d].process # "alive"
    /\ tools[d].seal = "open"
    /\ verdict = "admitted" => tools[d].started
    /\ tools' = [tools EXCEPT ![d].process = "gone", ![d].seal = verdict]

\* started.json is unlinked after attempt.json is in place.
ForgetStarted(d) ==
    /\ tools[d].seal # "open" /\ tools[d].started
    /\ tools' = [tools EXCEPT ![d].started = FALSE]

\* The supervision is left by an exception: the process group is killed and
\* the attempt sealed on the way out.
Interrupted(d) ==
    tools' = [tools EXCEPT ![d].process = "gone", ![d].seal = "interrupted",
                           ![d].started = FALSE]

AbandonedOpenOnly(d) == tools[d].started  \* faulty, unused
Abandoned(d) == tools[d].seal = "open" /\ tools[d].started

\* One directory of recover_interrupted_attempts.
Recover(d) ==
    tools' = IF tools[d].process = "alive" THEN tools
             ELSE [tools EXCEPT ![d].seal = "interrupted", ![d].started = FALSE]
=============================================================================
