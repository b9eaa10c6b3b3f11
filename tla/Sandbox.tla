------------------------------- MODULE Sandbox -------------------------------
(***************************************************************************)
(* Judging in containers.  A worker starts a container for each program,     *)
(* puts the source into it, compiles, runs the tests one after the other     *)
(* and removes the container, however the session ends.  Containers also     *)
(* destroy themselves, and are swept by the reaper and by every worker that  *)
(* starts.  Of the times only their order matters: BoxTtl < StaleAfter.      *)
(***************************************************************************)
EXTENDS Integers, FiniteSets, FiniteSetsExt, SequencesExt

CONSTANTS
  Judges,       \* worker processes, in ascending order
  Boxes,        \* bound: containers that are ever started, one for each program judged
  Tests,        \* positions of the tests of the problem; one without tests cannot be submitted to
  Programs,     \* what may be judged: whether it compiles, which tests are public, the verdict that
                \* each test deserves, and whether judging stops at a failure (Submit) or not (Run)
  BoxTtl,       \* DockerSandboxConfig.ttl_seconds
  StaleAfter,   \* settings.judge_stale_after
  LastTick      \* bound: how long the behaviour lasts

ASSUME SandboxAssumption ==
  /\ Judges \subseteq Nat \ {0} /\ Boxes \subseteq Nat \ {0} /\ Tests \subseteq Nat
  /\ IsFiniteSet(Tests) /\ Tests # {} /\ Programs # {} /\ {BoxTtl, StaleAfter, LastTick} \subseteq Nat
  /\ \A g \in Programs : g.public \subseteq Tests /\ DOMAIN g.deserves = Tests

VARIABLES
  now,
  box,      \* box[b]: a container, its age and what it holds
  judge,    \* judge[w]: a worker and its session
  sweep     \* containers that a sweep has listed and not removed yet

sandboxVars == <<now, box, judge, sweep>>

\* excused says why a container may outlive its session: its removal failed, its worker was
\* killed, or the daemon started it after the session had given up.
\* born is when its timer started, label the time that docker run was given.
NoBox == [at |-> "none", born |-> 0, label |-> 0, excused |-> FALSE]
NoReport == [verdict |-> "NONE", passed |-> 0, ran |-> 0]
Idle == [at |-> "idle", box |-> 0, program |-> CHOOSE g \in Programs : TRUE, report |-> NoReport]
Down == [Idle EXCEPT !.at = "down"]
InSession == {"starting", "source", "compile", "test", "removing"}

SandboxTypeOK ==
  /\ now \in 0 .. LastTick
  /\ \A b \in Boxes : /\ box[b].at \in {"none", "pending", "late", "up", "gone"}
                      /\ box[b].label <= box[b].born /\ box[b].born \in 0 .. now
  /\ \A w \in Judges : /\ judge[w].at \in {"idle", "down"} \union InSession
                       /\ judge[w].box \in Boxes \union {0} /\ judge[w].program \in Programs
                       /\ judge[w].report.passed <= judge[w].report.ran
                       /\ judge[w].report.ran <= Cardinality(Tests)
  /\ sweep \subseteq Boxes

SandboxInit ==
  /\ now = 0
  /\ box = [b \in Boxes |-> NoBox]
  /\ judge \in [Judges -> {Idle, Down}]
  /\ sweep = {}

-----------------------------------------------------------------------------
(* The engine: pure functions of a program and its tests                    *)

\* order_tests: public first, otherwise by position.
RunsBefore(g, s, t) ==
  \/ s \in g.public /\ t \notin g.public
  \/ (s \in g.public <=> t \in g.public) /\ s < t
OrderTests(g) ==
  CHOOSE o \in SetToSeqs(Tests) : \A i, j \in DOMAIN o : i < j => RunsBefore(g, o[i], o[j])

\* The report after one more test: the first failure decides the verdict.
Tested(g, r) ==
  LET verdict == g.deserves[OrderTests(g)[r.ran + 1]] IN
  [verdict |-> IF r.verdict = "ACCEPTED" THEN verdict ELSE r.verdict,
   ran |-> r.ran + 1,
   passed |-> r.passed + (IF verdict = "ACCEPTED" THEN 1 ELSE 0)]

AllTested(g, r) == (g.stops /\ r.verdict # "ACCEPTED") \/ r.ran = Cardinality(Tests)

\* What a program deserves: its first failure is the first among the public tests, or else
\* among the others.
Fails(g) == {t \in Tests : g.deserves[t] # "ACCEPTED"}
FirstFailure(g) ==
  IF Fails(g) \intersect g.public # {} THEN Min(Fails(g) \intersect g.public) ELSE Min(Fails(g))
Deserved(g) ==
  CASE ~g.compiles -> "COMPILATION_ERROR"
    [] g.compiles /\ Fails(g) = {} -> "ACCEPTED"
    [] OTHER -> g.deserves[FirstFailure(g)]

-----------------------------------------------------------------------------
(* A session                                                               *)

Up(b) == box[b].at = "up"
Gone(f, b) == [f EXCEPT ![b] = [NoBox EXCEPT !.at = "gone"]]
JudgeAt(w, stage) == judge[w].at = stage
Step(w, stage) == judge' = [judge EXCEPT ![w].at = stage]

\* Any SandboxError ends the session without a verdict about the program.
GivesUp(w) ==
  judge' = [judge EXCEPT ![w].at = "removing",
                         ![w].report = [NoReport EXCEPT !.verdict = "SYSTEM_ERROR"]]

StartBox(w) ==
  /\ JudgeAt(w, "idle")
  /\ \E b \in Boxes, g \in Programs :
       /\ box[b] = NoBox /\ \A c \in Boxes : c < b => box[c] # NoBox
       /\ box' = [box EXCEPT ![b] = [at |-> "pending", born |-> now, label |-> now, excused |-> FALSE]]
       /\ judge' = [judge EXCEPT ![w] = [at |-> "starting", box |-> b, program |-> g, report |-> NoReport]]
  /\ UNCHANGED <<now, sweep>>

\* docker run answers: started, not started, or not in time - then the container may still
\* come up later.
BoxStarted(w) ==
  LET b == judge[w].box IN
  /\ JudgeAt(w, "starting")
  /\ \/ box' = [box EXCEPT ![b].at = "up", ![b].born = now] /\ Step(w, "source")
     \/ box' = Gone(box, b) /\ GivesUp(w)
     \/ box' = [box EXCEPT ![b].at = "late", ![b].excused = TRUE] /\ GivesUp(w)
  /\ UNCHANGED <<now, sweep>>

StartsLate(b) ==
  /\ box[b].at = "late"
  /\ box' = [box EXCEPT ![b].at = "up", ![b].born = now]
  /\ UNCHANGED <<now, judge, sweep>>

PutSource(w) ==
  /\ JudgeAt(w, "source") /\ Up(judge[w].box)
  /\ Step(w, "compile")
  /\ UNCHANGED <<now, box, sweep>>

Compile(w) ==
  LET g == judge[w].program IN
  /\ JudgeAt(w, "compile") /\ Up(judge[w].box)
  /\ judge' = [judge EXCEPT ![w].at = IF g.compiles THEN "test" ELSE "removing",
                            ![w].report.verdict = IF g.compiles THEN "ACCEPTED" ELSE "COMPILATION_ERROR"]
  /\ UNCHANGED <<now, box, sweep>>

RunTest(w) ==
  LET r == Tested(judge[w].program, judge[w].report) IN
  /\ JudgeAt(w, "test") /\ Up(judge[w].box)
  /\ judge' = [judge EXCEPT ![w].at = IF AllTested(judge[w].program, r) THEN "removing" ELSE "test",
                            ![w].report = r]
  /\ UNCHANGED <<now, box, sweep>>

\* A wrong ExecFails: a container that is gone while a test runs looks like a crash.
ExecFailsAsCrash(w) ==
  /\ judge[w].at \in {"source", "compile", "test"}
  /\ judge' = [judge EXCEPT ![w].at = "removing", ![w].report.verdict =
       IF JudgeAt(w, "test") /\ ~Up(judge[w].box) THEN "RUNTIME_ERROR" ELSE "SYSTEM_ERROR"]
  /\ UNCHANGED <<now, box, sweep>>

\* docker exec fails, takes too long or answers nonsense, or the task is cancelled by its
\* time limit: the container is gone, or anything else.
ExecFails(w) ==
  /\ judge[w].at \in {"source", "compile", "test"}
  /\ GivesUp(w)
  /\ UNCHANGED <<now, box, sweep>>

\* A wrong RemoveBox: a container is removed only after a session that went well.
RemoveAfterVerdict(w) ==
  LET b == judge[w].box IN
  /\ JudgeAt(w, "removing")
  /\ box' = IF judge[w].report.verdict # "SYSTEM_ERROR" /\ Up(b) THEN Gone(box, b) ELSE box
  /\ judge' = [judge EXCEPT ![w] = Idle]
  /\ UNCHANGED <<now, sweep>>

\* The finally of a session: docker rm, best effort; then the report is handed on.
RemoveBox(w) ==
  LET b == judge[w].box IN
  /\ JudgeAt(w, "removing")
  /\ box' \in IF Up(b) THEN {Gone(box, b), [box EXCEPT ![b].excused = TRUE]} ELSE {box}
  /\ judge' = [judge EXCEPT ![w] = Idle]
  /\ UNCHANGED <<now, sweep>>

\* The process is killed: its session is forgotten, and docker run may have come far enough.
KillJudge(w) ==
  LET b == judge[w].box IN
  /\ judge[w] # Down
  /\ judge' = [judge EXCEPT ![w] = Down]
  /\ box' = IF b = 0 THEN box
            ELSE IF box[b].at = "pending" THEN [box EXCEPT ![b].at = "late", ![b].excused = TRUE]
            ELSE [box EXCEPT ![b].excused = TRUE]
  /\ UNCHANGED <<now, sweep>>

-----------------------------------------------------------------------------
(* Sweeps and time                                                         *)

\* reap_stale: containers of at least an age are listed ...
Listed(age) == {b \in Boxes : Up(b) /\ box[b].label + age <= now}

\* A worker that becomes ready sweeps everything that runs ("nothing of ours can be running
\* yet"), also what other workers have started; a process that replaces another one in the
\* pool of a worker does not.
JudgeStarts(w) ==
  /\ JudgeAt(w, "down") /\ sweep = {}
  /\ judge' = [judge EXCEPT ![w] = Idle]
  /\ sweep' \in {Listed(0), {}}
  /\ UNCHANGED <<now, box>>

ReapContainers ==
  /\ sweep = {} /\ Listed(StaleAfter) # {}
  /\ sweep' = Listed(StaleAfter)
  /\ UNCHANGED <<now, box, judge>>

\* ... and removed one by one.
SweepOne ==
  /\ sweep # {}
  /\ LET b == Min(sweep) IN
       /\ sweep' = sweep \ {b}
       /\ box' \in IF Up(b) THEN {Gone(box, b), box} ELSE {box}
  /\ UNCHANGED <<now, judge>>

\* The container's own timer.
BoxExpires(b) ==
  /\ Up(b) /\ now >= box[b].born + BoxTtl
  /\ box' = Gone(box, b)
  /\ UNCHANGED <<now, judge, sweep>>

\* Timers are on time.
SandboxTick ==
  /\ now < LastTick
  /\ \A b \in Boxes : Up(b) => now < box[b].born + BoxTtl
  /\ now' = now + 1
  /\ UNCHANGED <<box, judge, sweep>>

SandboxNext ==
  \/ \E w \in Judges :
       \/ StartBox(w) \/ BoxStarted(w) \/ PutSource(w) \/ Compile(w) \/ RunTest(w)
       \/ ExecFails(w) \/ RemoveBox(w) \/ KillJudge(w) \/ JudgeStarts(w)
  \/ \E b \in Boxes : StartsLate(b) \/ BoxExpires(b)
  \/ ReapContainers \/ SweepOne \/ SandboxTick

SandboxSpec == SandboxInit /\ [][SandboxNext]_sandboxVars

-----------------------------------------------------------------------------
(* Properties                                                              *)

\* A failure of the sandbox never becomes a verdict about the program: whatever removes a
\* container under a running judge - another worker's start, the reaper, the container's own
\* timer - the report is what the program deserves, or SYSTEM_ERROR.
VerdictIsDeserved ==
  \A w \in Judges :
    LET r == judge[w].report IN
    JudgeAt(w, "removing") =>
      \/ r.verdict = "SYSTEM_ERROR"
      \/ /\ r.verdict = Deserved(judge[w].program)
         /\ judge[w].program.compiles /\ ~judge[w].program.stops =>
              r.passed = Cardinality(Tests \ Fails(judge[w].program))

\* A container lives while its session does; one whose removal failed, whose worker was
\* killed or that came up too late is gone when its timer is over.
NoBoxIsForgotten ==
  \A b \in Boxes : Up(b) =>
    /\ now <= box[b].born + BoxTtl
    /\ box[b].excused \/ \E w \in Judges : judge[w].at \in InSession /\ judge[w].box = b
=============================================================================
