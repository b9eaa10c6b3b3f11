----------------------------- MODULE MCExecution -----------------------------
(***************************************************************************)
(* Small instances of what judges code and of what is made of the verdicts. *)
(* The components share no state, so each behaviour has one of them in focus *)
(* and leaves the others as they begin: the states are those of seven        *)
(* specifications, side by side.                                            *)
(***************************************************************************)
EXTENDS SubmissionLedger, Sandbox, Supervisor, Runs, Contests, Assistant, LiveView, TLC

CONSTANTS s1, s2, s3, s4, u1, u2, p1, p2

\* s1 and s2 are by u1 for p1, s3 by u1 for p2 and s4 by u2 for p1.
SomeOwners == s1 :> u1 @@ s2 :> u1 @@ s3 :> u1 @@ s4 :> u2
SomeProblems == s1 :> p1 @@ s2 :> p1 @@ s3 :> p2 @@ s4 :> p1

ASSUME WellFormedHolds == WellFormed

Program(compiles, public, stops, deserves) ==
  [compiles |-> compiles, public |-> public, stops |-> stops, deserves |-> deserves]

\* One that does not compile, an accepted one, one whose verdict depends on the order of the
\* tests, and one that is run on all of them.
SomePrograms ==
  {Program(FALSE, {1}, TRUE, <<"ACCEPTED", "ACCEPTED">>),
   Program(TRUE, {1}, TRUE, <<"ACCEPTED", "ACCEPTED">>),
   Program(TRUE, {2}, TRUE, <<"TIME_LIMIT_EXCEEDED", "WRONG_ANSWER">>),
   Program(TRUE, {2}, FALSE, <<"RUNTIME_ERROR", "ACCEPTED">>)}

VARIABLE focus  \* the component of this behaviour

executionVars ==
  <<focus, vars, sandboxVars, supervisorVars, runsVars, contestVars, assistantVars,
    liveVars>>

\* Everything is as its component begins; out of focus there is one beginning.
ExecutionInit ==
  /\ focus \in {"ledger", "sandbox", "supervisor", "runs", "contests", "assistant", "live"}
  /\ Init
  /\ SandboxInit /\ (focus # "sandbox" => \A w \in Judges : judge[w].at = "idle")
  /\ SupervisorInit /\ (focus # "supervisor" => inSandbox)
  /\ RunsInit /\ (focus # "runs" => broker)
  /\ ContestsInit /\ (focus # "contests" => contest.problems = {})
  /\ AssistantInit
  /\ LiveInit /\ (focus # "live" => page = "detail")

ExecutionNext ==
  \/ /\ focus = "ledger" /\ Next
     /\ UNCHANGED <<focus, sandboxVars, supervisorVars, runsVars, contestVars, assistantVars,
                    liveVars>>
  \/ /\ focus = "sandbox" /\ SandboxNext
     /\ UNCHANGED <<focus, vars, supervisorVars, runsVars, contestVars, assistantVars,
                    liveVars>>
  \/ /\ focus = "supervisor" /\ SupervisorNext
     /\ UNCHANGED <<focus, vars, sandboxVars, runsVars, contestVars, assistantVars,
                    liveVars>>
  \/ /\ focus = "runs" /\ RunsNext
     /\ UNCHANGED <<focus, vars, sandboxVars, supervisorVars, contestVars, assistantVars,
                    liveVars>>
  \/ /\ focus = "contests" /\ ContestsNext
     /\ UNCHANGED <<focus, vars, sandboxVars, supervisorVars, runsVars, assistantVars,
                    liveVars>>
  \/ /\ focus = "assistant" /\ AssistantNext
     /\ UNCHANGED <<focus, vars, sandboxVars, supervisorVars, runsVars, contestVars, liveVars>>
  \/ /\ focus = "live" /\ LiveNext
     /\ UNCHANGED <<focus, vars, sandboxVars, supervisorVars, runsVars, contestVars,
                    assistantVars>>

ExecutionSpec == ExecutionInit /\ [][ExecutionNext]_executionVars

-----------------------------------------------------------------------------
\* The component in focus keeps its types, the others stand still; nothing is stored in a
\* conversation that was deleted.
ExecutionTypeOK ==
  /\ focus = "ledger" => TypeOK
  /\ focus = "sandbox" => SandboxTypeOK
  /\ focus = "supervisor" => SupervisorTypeOK
  /\ focus = "runs" => RunsTypeOK
  /\ focus = "contests" => ContestsTypeOK
  /\ focus = "assistant" => AssistantTypeOK
  /\ focus = "live" => LiveTypeOK
=============================================================================
