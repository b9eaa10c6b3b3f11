----------------------------- MODULE Supervisor -----------------------------
(***************************************************************************)
(* The supervisor inside a container (supervisor.py run).  It starts the     *)
(* program, reads its output, polls what it uses, kills it over a limit,     *)
(* kills what it left behind, drains the pipe and classifies how it ended.   *)
(* The program and one process of its own run freely between these steps.    *)
(***************************************************************************)
EXTENDS Integers

CONSTANTS
  TimeLimit,      \* --time-ms: processor time
  WallLimit,      \* --wall-ms
  MemoryLimit,    \* --memory-mb
  MaxOutput,      \* --max-output
  PipeSize,       \* what a pipe holds, and what one read returns
  Environments,   \* SJX_SANDBOX: TRUE in the runner image, FALSE on a developer's machine
  MaxCpu, MaxWall, MaxMemory, MaxWritten    \* bounds: what a program uses at most

ASSUME SupervisorAssumption ==
  /\ {TimeLimit, WallLimit, MemoryLimit, MaxOutput, PipeSize} \subseteq Nat
  /\ {MaxCpu, MaxWall, MaxMemory, MaxWritten} \subseteq Nat
  /\ Environments \subseteq BOOLEAN

VARIABLES
  inSandbox,
  prog,       \* the program: running or how it ended, what it uses and has used
  offspring,  \* the process it may have started: none, in its group, in a session of its own, dead
  pipe,       \* [written, unread]: bytes written, and those of them not read yet
  kernel,     \* [wall, oom, oomBefore]: time since the start, out-of-memory kills in the container
  sup         \* the supervisor: its next step, what it sampled, why it killed, what it reported

supervisorVars == <<inSandbox, prog, offspring, pipe, kernel, sup>>

Signals == {"KILL", "XCPU", "XFSZ", "SEGV"}
Alive == {"group", "session"}

SupervisorTypeOK ==
  /\ inSandbox \in Environments
  /\ prog.end \in {"none", "zero", "nonzero"} \union Signals
  /\ prog.cpu \in 0 .. MaxCpu /\ prog.rss \in 0 .. prog.peak /\ prog.peak \in 0 .. MaxMemory
  /\ offspring \in {"none", "dead"} \union Alive
  /\ pipe.unread \in 0 .. PipeSize /\ pipe.written \in 0 .. MaxWritten
  /\ kernel.oomBefore <= kernel.oom /\ kernel.wall \in 0 .. MaxWall
  /\ sup.at \in {"pump", "wait", "sample", "decide", "leftovers", "drain", "done"}
  /\ sup.killed \in {"none", "TIMEOUT", "MEMORY", "OUTPUT_LIMIT"}
  /\ sup.status \in {"none", "EXITED", "SIGNALED", "TIMEOUT", "MEMORY", "OUTPUT_LIMIT"}

SupervisorInit ==
  /\ inSandbox \in Environments
  /\ prog = [end |-> "none", cpu |-> 0, rss |-> 0, peak |-> 0]
  /\ offspring = "none"
  /\ pipe = [written |-> 0, unread |-> 0]
  /\ kernel \in [wall : {0}, oom : {1}, oomBefore : {1}]
  /\ sup = [at |-> "pump", cpu |-> 0, rss |-> 0, killed |-> "none", status |-> "none"]

-----------------------------------------------------------------------------
(* The program, its offspring and the kernel                                *)

Lives == prog.end = "none"
EndsBy(how) == prog' = [prog EXCEPT !.end = how, !.rss = 0]

Burn ==
  /\ Lives /\ prog.cpu < MaxCpu
  /\ prog' = [prog EXCEPT !.cpu = prog.cpu + 1]
  /\ UNCHANGED <<inSandbox, offspring, pipe, kernel, sup>>

Allocate ==
  /\ Lives
  /\ \E kb \in 0 .. MaxMemory :
       prog' = [prog EXCEPT !.rss = kb, !.peak = IF kb > prog.peak THEN kb ELSE prog.peak]
  /\ UNCHANGED <<inSandbox, offspring, pipe, kernel, sup>>

\* A full pipe makes the writer wait.
Write ==
  /\ Lives \/ offspring \in Alive
  /\ pipe.unread < PipeSize /\ pipe.written < MaxWritten
  /\ pipe' = [pipe EXCEPT !.written = pipe.written + 1, !.unread = pipe.unread + 1]
  /\ UNCHANGED <<inSandbox, prog, offspring, kernel, sup>>

\* start_new_session gives the program a process group; what it starts may leave that group.
Spawn ==
  /\ Lives /\ offspring = "none"
  /\ offspring' \in Alive
  /\ UNCHANGED <<inSandbox, prog, pipe, kernel, sup>>

\* It returns, or ends by a signal: its own, another one of its making, or RLIMIT_CPU's and
\* RLIMIT_FSIZE's.
ProgramEnds ==
  /\ Lives
  /\ \E how \in {"zero", "nonzero"} \union Signals : EndsBy(how)
  /\ UNCHANGED <<inSandbox, offspring, pipe, kernel, sup>>

\* The cgroup limit of the container, which is above the problem's.
OomKill ==
  /\ kernel.oom = kernel.oomBefore
  /\ kernel' = [kernel EXCEPT !.oom = kernel.oom + 1]
  /\ \/ Lives /\ prog.rss > MemoryLimit /\ EndsBy("KILL") /\ UNCHANGED offspring
     \/ offspring \in Alive /\ offspring' = "dead" /\ UNCHANGED prog
  /\ UNCHANGED <<inSandbox, pipe, sup>>

TimePasses ==
  /\ kernel.wall < MaxWall /\ sup.at # "done"
  /\ kernel' = [kernel EXCEPT !.wall = kernel.wall + 1]
  /\ UNCHANGED <<inSandbox, prog, offspring, pipe, sup>>

-----------------------------------------------------------------------------
(* cmd_run                                                                 *)

GoesTo(stage) == sup' = [sup EXCEPT !.at = stage]

\* What was read, and whether it is over the cap; only the first MaxOutput bytes are kept.
BytesRead == pipe.written - pipe.unread
OutOver == BytesRead > MaxOutput

Pump ==
  /\ sup.at \in {"pump", "drain"} /\ (sup.at = "drain" => pipe.unread > 0)
  /\ pipe' = [pipe EXCEPT !.unread = 0]
  /\ GoesTo(IF sup.at = "pump" THEN "wait" ELSE "drain")
  /\ UNCHANGED <<inSandbox, prog, offspring, kernel>>

\* wait4 without waiting; a program that was killed is only waited for.
Wait4 ==
  /\ sup.at = "wait"
  /\ GoesTo(IF ~Lives THEN "leftovers" ELSE IF sup.killed # "none" THEN "pump" ELSE "sample")
  /\ UNCHANGED <<inSandbox, prog, offspring, pipe, kernel>>

\* /proc/<pid>/stat and status; one that ended since wait4 still has its processor time.
Sample ==
  /\ sup.at = "sample"
  /\ sup' = [sup EXCEPT !.at = "decide", !.cpu = prog.cpu, !.rss = prog.rss]
  /\ UNCHANGED <<inSandbox, prog, offspring, pipe, kernel>>

OverLimit ==
  IF OutOver THEN "OUTPUT_LIMIT"
  ELSE IF sup.cpu > TimeLimit \/ kernel.wall > WallLimit THEN "TIMEOUT"
  ELSE IF sup.rss > MemoryLimit THEN "MEMORY" ELSE "none"

\* The group of the program is killed.
Decide ==
  /\ sup.at = "decide"
  /\ sup' = [sup EXCEPT !.at = "pump", !.killed = OverLimit, !.cpu = 0, !.rss = 0]
  /\ IF OverLimit = "none"
     THEN UNCHANGED <<prog, offspring>>
     ELSE /\ IF Lives THEN EndsBy("KILL") ELSE UNCHANGED prog
          /\ offspring' = IF offspring = "group" THEN "dead" ELSE offspring
  /\ UNCHANGED <<inSandbox, pipe, kernel>>

\* In the sandbox every process of the user, elsewhere the group of the program.
KillLeftovers ==
  /\ sup.at = "leftovers"
  /\ offspring' = IF offspring = "group" \/ (inSandbox /\ offspring \in Alive) THEN "dead" ELSE offspring
  /\ GoesTo("drain")
  /\ UNCHANGED <<inSandbox, prog, pipe, kernel>>

\* A wrong Classify: the exit of the program is looked at before what it used.
ClassifyByExit ==
  IF sup.killed # "none" THEN sup.killed
  ELSE IF prog.end \in {"zero", "nonzero"} THEN "EXITED"
  ELSE IF kernel.oom > kernel.oomBefore /\ prog.end = "KILL" THEN "MEMORY"
  ELSE IF prog.end = "XCPU" \/ prog.cpu > TimeLimit THEN "TIMEOUT"
  ELSE IF prog.end = "XFSZ" THEN "OUTPUT_LIMIT" ELSE "SIGNALED"

\* classify, with the output limit that the last reads may have found.
Classify ==
  CASE sup.killed # "none" -> sup.killed
    [] sup.killed = "none" /\ OutOver -> "OUTPUT_LIMIT"
    [] sup.killed = "none" /\ ~OutOver /\ prog.end \in Signals ->
         IF kernel.oom > kernel.oomBefore /\ prog.end = "KILL" THEN "MEMORY"
         ELSE IF prog.end = "XCPU" \/ prog.cpu > TimeLimit THEN "TIMEOUT"
         ELSE IF prog.end = "XFSZ" THEN "OUTPUT_LIMIT" ELSE "SIGNALED"
    [] OTHER -> IF prog.cpu > TimeLimit THEN "TIMEOUT"
                ELSE IF prog.peak > MemoryLimit THEN "MEMORY" ELSE "EXITED"

\* The drain is over at the end of the stream or when DRAIN_SECONDS are, whatever is unread by
\* then: a supervisor that is not scheduled for that long reads nothing at all.
Report ==
  /\ sup.at = "drain"
  /\ sup' = [sup EXCEPT !.at = "done", !.status = Classify]
  /\ UNCHANGED <<inSandbox, prog, offspring, pipe, kernel>>

SupervisorNext ==
  \/ Burn \/ Allocate \/ Write \/ Spawn \/ ProgramEnds \/ OomKill \/ TimePasses
  \/ Pump \/ Wait4 \/ Sample \/ Decide \/ KillLeftovers \/ Report

SupervisorSpec == SupervisorInit /\ [][SupervisorNext]_supervisorVars

-----------------------------------------------------------------------------
(* Properties                                                              *)

\* What is reported is true of the program, however its end races the polls, and final: EXITED
\* means that it returned, used no more processor time and memory than it may, and wrote no more
\* than it may of what was read; each other status names a limit it broke or the signal that
\* ended it, and nothing that it started lives on into the next test of the same container.
\* EXITED does not say that it kept the wall-clock limit, which it may overrun between two polls,
\* nor that all it wrote was read, which the deadline of the drain may prevent.
ReportIsTrue ==
  /\ sup.status = "EXITED" =>
       /\ prog.end \in {"zero", "nonzero"} /\ prog.cpu <= TimeLimit /\ prog.peak <= MemoryLimit
       /\ BytesRead <= MaxOutput
  /\ sup.status = "TIMEOUT" => prog.cpu > TimeLimit \/ kernel.wall > WallLimit \/ prog.end = "XCPU"
  /\ sup.status = "MEMORY" => prog.peak > MemoryLimit \/ kernel.oom > kernel.oomBefore
  /\ sup.status = "OUTPUT_LIMIT" => BytesRead > MaxOutput \/ prog.end = "XFSZ"
  /\ sup.status = "SIGNALED" => prog.end \in Signals
  /\ sup.at = "done" /\ inSandbox => ~Lives /\ offspring \notin Alive
=============================================================================
