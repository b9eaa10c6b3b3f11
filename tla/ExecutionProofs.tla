--------------------------- MODULE ExecutionProofs ---------------------------
(***************************************************************************)
(* What judges code and what is made of the verdicts: the supervisor inside  *)
(* a container, the containers of the judges and what they report, the       *)
(* standings of a contest, the assistant, and all of these side by side.     *)
(* The components share no state; each has its own invariant.                *)
(***************************************************************************)
EXTENDS MCExecution, SubmissionLedgerProofs, ResultsProofs, FiniteSetTheorems,
        WellFoundedInduction, TLAPS

-----------------------------------------------------------------------------
(* The supervisor                                                          *)

\* What the program and the pipe are, and what the supervisor has seen of them.
SupervisorKept ==
  /\ inSandbox \in Environments
  /\ prog \in [end : {"none", "zero", "nonzero"} \union Signals, cpu : 0 .. MaxCpu,
               rss : 0 .. MaxMemory, peak : 0 .. MaxMemory]
  /\ prog.rss <= prog.peak
  /\ offspring \in {"none", "dead"} \union Alive
  /\ pipe \in [written : 0 .. MaxWritten, unread : 0 .. PipeSize]
  /\ pipe.unread <= pipe.written
  /\ kernel \in [wall : 0 .. MaxWall, oom : Nat, oomBefore : Nat]
  /\ kernel.oomBefore <= kernel.oom
  /\ sup \in [at : {"pump", "wait", "sample", "decide", "leftovers", "drain", "done"},
              cpu : 0 .. MaxCpu, rss : 0 .. MaxMemory,
              killed : {"none", "TIMEOUT", "MEMORY", "OUTPUT_LIMIT"},
              status : {"none", "EXITED", "SIGNALED", "TIMEOUT", "MEMORY", "OUTPUT_LIMIT"}]

\* What was sampled is no more than what was used: the program goes on meanwhile.
Sampled == sup.cpu <= prog.cpu /\ sup.rss <= prog.peak

\* The program was killed for a limit that it had broken, and it is not looked at again.
KilledFor ==
  /\ sup.killed = "TIMEOUT" => prog.cpu > TimeLimit \/ kernel.wall > WallLimit
  /\ sup.killed = "MEMORY" => prog.peak > MemoryLimit
  /\ sup.killed = "OUTPUT_LIMIT" => OutOver
  /\ sup.killed # "none" => ~Lives /\ sup.at \notin {"sample", "decide"}

\* How far the supervisor is says what is over.
Done ==
  /\ sup.at \in {"leftovers", "drain", "done"} => ~Lives
  /\ sup.at \in {"drain", "done"} /\ inSandbox => offspring \notin Alive
  /\ (sup.status = "none") <=> (sup.at # "done")

\* All of it, with the property.
SupervisorInv == SupervisorKept /\ Sampled /\ KilledFor /\ Done /\ ReportIsTrue

\* What the program and the kernel do between two steps of the supervisor: what is used only
\* grows, what was read was read, and what is over stays as it ended.
GoesOn ==
  /\ UNCHANGED <<inSandbox, sup>>
  /\ prog.cpu <= prog'.cpu /\ prog.peak <= prog'.peak
  /\ kernel.wall <= kernel'.wall /\ kernel.oom <= kernel'.oom
  /\ kernel'.oomBefore = kernel.oomBefore
  /\ BytesRead' = BytesRead
  /\ ~Lives => prog' = prog
  /\ offspring' \in Alive => offspring \in Alive \/ Lives

\* The steps of the program and the kernel.
Outside == Burn \/ Allocate \/ Write \/ Spawn \/ ProgramEnds \/ OomKill \/ TimePasses

\* The program ends, whatever ends it.
LEMMA Ending ==
  ASSUME SupervisorKept, Lives, NEW how \in {"zero", "nonzero"} \union Signals, EndsBy(how)
  PROVE  /\ prog' \in [end : {"none", "zero", "nonzero"} \union Signals, cpu : 0 .. MaxCpu,
                       rss : 0 .. MaxMemory, peak : 0 .. MaxMemory]
         /\ prog'.rss <= prog'.peak /\ prog'.end = how
         /\ prog'.cpu = prog.cpu /\ prog'.peak = prog.peak
<1>1. 0 \in 0 .. MaxMemory /\ 0 <= prog.peak
  BY SupervisorAssumption DEF SupervisorKept
<1>2. prog' = [[prog EXCEPT !.end = how] EXCEPT !.rss = 0]
  BY DEF SupervisorKept, EndsBy
<1>3. /\ prog' \in [end : {"none", "zero", "nonzero"} \union Signals, cpu : 0 .. MaxCpu,
                    rss : 0 .. MaxMemory, peak : 0 .. MaxMemory]
      /\ prog'.rss = 0 /\ prog'.end = how /\ prog'.cpu = prog.cpu /\ prog'.peak = prog.peak
  BY <1>1, <1>2 DEF SupervisorKept
<1>4. QED
  BY <1>1, <1>3

\* Whatever happens outside of the supervisor is of that kind.
LEMMA OutsideStep ==
  ASSUME SupervisorKept, Outside
  PROVE  SupervisorKept' /\ GoesOn
<1> USE SupervisorAssumption DEF SupervisorKept, BytesRead, GoesOn
<1>1. CASE Burn
  <2>1. prog.cpu + 1 \in 0 .. MaxCpu
    BY <1>1 DEF Burn
  <2>2. QED
    BY <1>1, <2>1 DEF Burn, Lives
<1>2. CASE Allocate
  <2>1. PICK kb \in 0 .. MaxMemory :
          prog' = [prog EXCEPT !.rss = kb, !.peak = IF kb > prog.peak THEN kb ELSE prog.peak]
    BY <1>2 DEF Allocate
  <2> DEFINE high == IF kb > prog.peak THEN kb ELSE prog.peak
  <2>2. high \in 0 .. MaxMemory /\ prog.peak <= high /\ kb <= high
    OBVIOUS
  <2>3. prog' = [[prog EXCEPT !.rss = kb] EXCEPT !.peak = high]
    BY <2>1
  <2> HIDE DEF high
  <2>4. /\ prog' \in [end : {"none", "zero", "nonzero"} \union Signals, cpu : 0 .. MaxCpu,
                      rss : 0 .. MaxMemory, peak : 0 .. MaxMemory]
        /\ prog'.rss <= prog'.peak /\ prog.peak <= prog'.peak /\ prog'.cpu = prog.cpu
    BY <2>2, <2>3
  <2>5. QED
    BY <1>2, <2>4 DEF Allocate, Lives
<1>3. CASE Write
  <2>1. /\ pipe.written + 1 \in 0 .. MaxWritten /\ pipe.unread + 1 \in 0 .. PipeSize
    BY <1>3 DEF Write
  <2>2. pipe' = [[pipe EXCEPT !.written = pipe.written + 1] EXCEPT !.unread = pipe.unread + 1]
    BY <1>3 DEF Write
  <2>3. /\ pipe' \in [written : 0 .. MaxWritten, unread : 0 .. PipeSize]
        /\ pipe'.written = pipe.written + 1 /\ pipe'.unread = pipe.unread + 1
    BY <2>1, <2>2
  <2>4. QED
    BY <1>3, <2>3 DEF Write
<1>4. CASE Spawn
  BY <1>4 DEF Spawn, Lives
<1>5. CASE ProgramEnds
  <2>1. PICK how \in {"zero", "nonzero"} \union Signals : EndsBy(how)
    BY <1>5 DEF ProgramEnds
  <2>2. QED
    BY <1>5, <2>1, Ending DEF ProgramEnds, Signals, Lives
<1>6. CASE OomKill
  <2>1. /\ kernel' \in [wall : 0 .. MaxWall, oom : Nat, oomBefore : Nat]
        /\ kernel'.wall = kernel.wall /\ kernel.oom <= kernel'.oom
        /\ kernel'.oomBefore = kernel.oomBefore
    BY <1>6 DEF OomKill
  <2>2. CASE Lives /\ EndsBy("KILL") /\ UNCHANGED offspring
    <3>1. "KILL" \in {"zero", "nonzero"} \union Signals
      BY DEF Signals
    <3>2. QED
      BY <1>6, <2>1, <2>2, <3>1, Ending DEF OomKill
  <2>3. CASE offspring' = "dead" /\ UNCHANGED prog
    BY <1>6, <2>1, <2>3 DEF OomKill, Alive
  <2>4. QED
    BY <1>6, <2>2, <2>3 DEF OomKill
<1>7. CASE TimePasses
  <2>1. kernel.wall + 1 \in 0 .. MaxWall
    BY <1>7 DEF TimePasses
  <2>2. QED
    BY <1>7, <2>1 DEF TimePasses
<1>8. QED
  BY <1>1, <1>2, <1>3, <1>4, <1>5, <1>6, <1>7 DEF Outside

\* It leaves what the supervisor knows and has said true.
LEMMA StaysTrue ==
  ASSUME SupervisorInv, SupervisorKept', GoesOn
  PROVE  SupervisorInv'
<1> USE SupervisorAssumption DEF SupervisorInv, SupervisorKept, GoesOn
<1>1. ~Lives => ~Lives'
  BY DEF Lives
<1>2. OutOver' <=> OutOver
  BY DEF OutOver
<1>3. Sampled'
  BY DEF Sampled
<1>4. KilledFor'
  BY <1>1, <1>2 DEF KilledFor
<1>5. Done'
  BY <1>1 DEF Done
<1>6. sup.at = "done" => prog' = prog
  BY DEF Done
<1>7. ReportIsTrue'
  BY <1>1, <1>5, <1>6 DEF ReportIsTrue, Done
<1>8. QED
  BY <1>3, <1>4, <1>5, <1>7

\* The supervisor looks, and decides over what it saw.
LEMMA WatchStep ==
  ASSUME SupervisorInv, Pump \/ Wait4 \/ Sample \/ Decide
  PROVE  SupervisorInv'
<1> USE SupervisorAssumption
    DEF SupervisorInv, SupervisorKept, BytesRead, GoesTo, Sampled, KilledFor, Done
<1>0. sup.at # "done" /\ sup'.at # "done" /\ sup.status = "none" /\ sup'.status = "none"
  BY DEF Pump, Wait4, Sample, Decide
<1>1. ReportIsTrue'
  BY <1>0 DEF ReportIsTrue
<1>2. CASE Pump
  <2>1. /\ pipe' = [pipe EXCEPT !.unread = 0]
        /\ sup'.at \in {"wait", "drain"} /\ (sup'.at = "drain" => sup.at = "drain")
        /\ sup' = [sup EXCEPT !.at = sup'.at]
    BY <1>2 DEF Pump
  <2>2. SupervisorKept'
    BY <1>2, <2>1 DEF Pump
  <2>3. OutOver => OutOver'
    BY <2>1 DEF OutOver
  <2>4. QED
    BY <1>1, <1>2, <2>1, <2>2, <2>3 DEF Pump, Lives
<1>3. CASE Wait4
  <2>1. /\ sup' = [sup EXCEPT !.at = sup'.at]
        /\ sup'.at \in {"leftovers", "pump", "sample"}
        /\ sup'.at = "leftovers" => ~Lives
        /\ sup'.at = "sample" => Lives /\ sup.killed = "none"
    BY <1>3 DEF Wait4
  <2>2. SupervisorKept'
    BY <1>3, <2>1 DEF Wait4
  <2>3. QED
    BY <1>1, <1>3, <2>1, <2>2 DEF Wait4, Lives, OutOver
<1>4. CASE Sample
  <2>1. sup' = [sup EXCEPT !.at = "decide", !.cpu = prog.cpu, !.rss = prog.rss]
    BY <1>4 DEF Sample
  <2>2. SupervisorKept'
    BY <1>4, <2>1 DEF Sample
  <2>3. QED
    BY <1>1, <1>4, <2>1, <2>2 DEF Sample, Lives, OutOver
<1>5. CASE Decide
  <2>1. /\ sup' = [sup EXCEPT !.at = "pump", !.killed = OverLimit, !.cpu = 0, !.rss = 0]
        /\ OverLimit \in {"none", "TIMEOUT", "MEMORY", "OUTPUT_LIMIT"}
        /\ OverLimit = "TIMEOUT" => prog.cpu > TimeLimit \/ kernel.wall > WallLimit
        /\ OverLimit = "MEMORY" => prog.peak > MemoryLimit
        /\ OverLimit = "OUTPUT_LIMIT" => OutOver
    BY <1>5 DEF Decide, OverLimit
  <2>2. OverLimit = "none" => UNCHANGED <<prog, offspring>>
    BY <1>5 DEF Decide
  <2>3. /\ SupervisorKept' /\ prog'.cpu = prog.cpu /\ prog'.peak = prog.peak
        /\ pipe'.unread = pipe.unread /\ pipe'.written = pipe.written
        /\ OverLimit # "none" => ~Lives'
    <3>1. sup' \in [at : {"pump"}, cpu : 0 .. MaxCpu, rss : 0 .. MaxMemory,
                    killed : {"none", "TIMEOUT", "MEMORY", "OUTPUT_LIMIT"}, status : {"none"}]
      <4>1. sup' = [[[[sup EXCEPT !.at = "pump"] EXCEPT !.killed = OverLimit]
                      EXCEPT !.cpu = 0] EXCEPT !.rss = 0]
        BY <2>1
      <4>2. 0 \in 0 .. MaxCpu /\ 0 \in 0 .. MaxMemory
        OBVIOUS
      <4>3. QED
        BY <1>0, <2>1, <4>1, <4>2
    <3>2. offspring' \in {"none", "dead"} \union Alive /\ UNCHANGED <<inSandbox, pipe, kernel>>
      BY <1>5 DEF Decide
    <3>3. CASE UNCHANGED prog /\ (OverLimit = "none" \/ ~Lives)
      BY <3>1, <3>2, <3>3 DEF Lives
    <3>4. CASE Lives /\ EndsBy("KILL")
      <4>1. "KILL" \in {"zero", "nonzero"} \union Signals
        BY DEF Signals
      <4>2. QED
        BY <3>1, <3>2, <3>4, <4>1, Ending DEF Lives
    <3>5. QED
      BY <1>5, <2>2, <3>3, <3>4 DEF Decide
  <2>4. /\ sup'.at = "pump" /\ sup'.killed = OverLimit /\ sup'.cpu = 0 /\ sup'.rss = 0
        /\ UNCHANGED kernel /\ (OutOver' <=> OutOver)
    BY <1>5, <2>1, <2>3 DEF Decide, OutOver
  <2>5. KilledFor'
    BY <2>1, <2>3, <2>4
  <2>6. QED
    BY <1>0, <1>1, <2>3, <2>4, <2>5
<1>6. QED
  BY <1>2, <1>3, <1>4, <1>5

\* It clears up, and reports.
LEMMA CloseStep ==
  ASSUME SupervisorInv, KillLeftovers \/ Report
  PROVE  SupervisorInv'
<1> USE SupervisorAssumption DEF SupervisorInv, SupervisorKept, GoesTo
<1>1. CASE KillLeftovers
  <2>1. /\ sup' = [sup EXCEPT !.at = "drain"]
        /\ sup.at = "leftovers" /\ UNCHANGED <<inSandbox, prog, pipe, kernel>>
        /\ offspring' \in {offspring, "dead"} /\ (inSandbox => offspring' \notin Alive)
    BY <1>1 DEF KillLeftovers, Alive
  <2>2. SupervisorKept' /\ Sampled' /\ KilledFor' /\ Done'
    BY <2>1 DEF Sampled, KilledFor, Done, Lives, OutOver, BytesRead
  <2>3. ReportIsTrue'
    BY <2>1 DEF ReportIsTrue, Done
  <2>4. QED
    BY <2>2, <2>3
<1>2. CASE Report
  <2>1. /\ sup' = [sup EXCEPT !.at = "done", !.status = Classify]
        /\ sup.at = "drain" /\ UNCHANGED <<inSandbox, prog, offspring, pipe, kernel>>
    BY <1>2 DEF Report
  <2>2. Classify \in {"EXITED", "SIGNALED", "TIMEOUT", "MEMORY", "OUTPUT_LIMIT"}
    BY DEF Classify
  <2>3. /\ sup'.status = Classify /\ sup'.at = "done" /\ sup'.killed = sup.killed
        /\ sup'.cpu = sup.cpu /\ sup'.rss = sup.rss
        /\ SupervisorKept'
    BY <2>1, <2>2
  <2>4. Sampled' /\ KilledFor' /\ Done'
    BY <2>1, <2>2, <2>3 DEF Sampled, KilledFor, Done, Lives, OutOver, BytesRead
  <2>5. prog.end \in {"zero", "nonzero"} \union Signals
    BY <2>1 DEF Done, Lives
  <2>6. ReportIsTrue'
    <3>1. CASE sup.killed # "none"
      <4>1. Classify = sup.killed
        BY <3>1 DEF Classify
      <4>2. QED
        BY <2>1, <2>3, <2>4, <3>1, <4>1 DEF ReportIsTrue, KilledFor, Done, OutOver, BytesRead
    <3>2. CASE sup.killed = "none" /\ OutOver
      <4>1. Classify = "OUTPUT_LIMIT"
        BY <3>2 DEF Classify
      <4>2. QED
        BY <2>1, <2>3, <2>4, <3>2, <4>1 DEF ReportIsTrue, Done, OutOver, BytesRead
    <3>3. CASE sup.killed = "none" /\ ~OutOver
      <4>1. /\ Classify = "EXITED" => /\ prog.end \notin Signals /\ prog.cpu <= TimeLimit
                                      /\ prog.peak <= MemoryLimit
            /\ Classify = "TIMEOUT" => prog.cpu > TimeLimit \/ prog.end = "XCPU"
            /\ Classify = "MEMORY" => prog.peak > MemoryLimit \/ kernel.oom > kernel.oomBefore
            /\ Classify = "OUTPUT_LIMIT" => prog.end = "XFSZ"
            /\ Classify = "SIGNALED" => prog.end \in Signals
        BY <3>3 DEF Classify
      <4>2. BytesRead \in Int /\ BytesRead <= MaxOutput
        BY <3>3 DEF OutOver, BytesRead
      <4>3. BytesRead' = BytesRead
        BY <2>1 DEF BytesRead
      <4>4. QED
        BY <2>1, <2>3, <2>4, <2>5, <4>1, <4>2, <4>3 DEF ReportIsTrue, Done
    <3>4. QED
      BY <3>1, <3>2, <3>3
  <2>7. QED
    BY <2>3, <2>4, <2>6
<1>3. QED
  BY <1>1, <1>2

\* The invariant holds at the beginning, and every step preserves it.
LEMMA SupervisorInitInv == SupervisorInit => SupervisorInv
BY SupervisorAssumption
DEF SupervisorInit, SupervisorInv, SupervisorKept, Sampled, KilledFor, Done, ReportIsTrue

\* Every step of the supervisor, the program or the kernel keeps it.
LEMMA SupervisorNextInv == SupervisorInv /\ [SupervisorNext]_supervisorVars => SupervisorInv'
<1>1. SupervisorInv /\ UNCHANGED supervisorVars => SupervisorInv'
  BY DEF supervisorVars, SupervisorInv, SupervisorKept, Sampled, KilledFor, Done, ReportIsTrue,
         Lives, OutOver, BytesRead
<1>2. SupervisorInv /\ SupervisorNext => SupervisorInv'
  <2>1. SupervisorInv /\ Outside => SupervisorInv'
    BY OutsideStep, StaysTrue DEF SupervisorInv
  <2>2. QED
    BY <2>1, WatchStep, CloseStep DEF SupervisorNext, Outside
<1>3. QED
  BY <1>1, <1>2

\* The invariant of the loop of cmd_run against a program that moves between its steps.
THEOREM SupervisorInvariant == SupervisorSpec => []SupervisorInv
BY SupervisorInitInv, SupervisorNextInv, PTL DEF SupervisorSpec

\* The supervisor and what it watches keep their types.
THEOREM SupervisorTyped == SupervisorSpec => []SupervisorTypeOK
<1>1. SupervisorInv => SupervisorTypeOK
  BY SupervisorAssumption DEF SupervisorInv, SupervisorKept, SupervisorTypeOK
<1>2. QED
  BY <1>1, SupervisorInvariant, PTL

\* What cmd_run and classify report of a program is true of it, and final.
THEOREM ReportsAreTrue == SupervisorSpec => []ReportIsTrue
<1>1. SupervisorInv => ReportIsTrue
  BY DEF SupervisorInv
<1>2. QED
  BY <1>1, SupervisorInvariant, PTL

-----------------------------------------------------------------------------
(* Containers                                                              *)

\* The types; a container is a row of this.
BoxRecords ==
  [at : {"none", "pending", "late", "up", "gone"}, born : Nat, label : Nat, excused : BOOLEAN]

\* The clock, the containers, the sweep and the sessions are of their types.
BoxesKept ==
  /\ now \in Nat
  /\ box \in [Boxes -> BoxRecords]
  /\ sweep \subseteq Boxes
  /\ DOMAIN judge = Judges
  /\ \A w \in Judges : /\ DOMAIN judge[w] = {"at", "box", "program", "report"}
                       /\ judge[w].at \in {"idle", "down"} \union InSession
                       /\ judge[w].box \in Boxes \union {0}

\* A session and its container: it is not started yet, or it has been.
Holds(w) ==
  /\ (judge[w].at \in InSession) <=> (judge[w].box # 0)
  /\ judge[w].at = "starting" => box[judge[w].box].at = "pending"
  /\ judge[w].at \in InSession \ {"starting"} =>
       box[judge[w].box].at \in {"up", "late", "gone"}

\* No container has two sessions.
Alone == \A v, w \in Judges : judge[v].box = judge[w].box /\ judge[v].box # 0 => v = w

\* A container without a session is excused, and none outlives its timer.
Cared(b) ==
  /\ box[b].at \in {"up", "pending"} =>
       box[b].excused \/ \E w \in Judges : judge[w].at \in InSession /\ judge[w].box = b
  /\ box[b].at = "late" => box[b].excused
  /\ box[b].at = "up" => now <= box[b].born + BoxTtl

\* All of it, for every session and every container.
BoxesInv ==
  BoxesKept /\ (\A w \in Judges : Holds(w)) /\ Alone /\ \A b \in Boxes : Cared(b)

\* What the steps make of a container, and that they leave the others alone.
LEMMA BoxBecomes ==
  ASSUME BoxesKept, NEW b \in Boxes, NEW new \in BoxRecords, box' = [box EXCEPT ![b] = new]
  PROVE  /\ box' \in [Boxes -> BoxRecords] /\ box'[b] = new
         /\ \A c \in Boxes \ {b} : box'[c] = box[c]
BY DEF BoxesKept

\* A container that starts counts its time from now, and stays excused if it was.
LEMMA BoxUp ==
  ASSUME BoxesKept, NEW b \in Boxes, box' = [box EXCEPT ![b].at = "up", ![b].born = now]
  PROVE  /\ box' \in [Boxes -> BoxRecords]
         /\ box'[b].at = "up" /\ box'[b].born = now /\ box'[b].excused = box[b].excused
         /\ \A c \in Boxes \ {b} : box'[c] = box[c]
<1>1. PICK new : new = [[box[b] EXCEPT !.at = "up"] EXCEPT !.born = now]
  OBVIOUS
<1>2. box[b] \in BoxRecords /\ now \in Nat
  BY DEF BoxesKept
<1>3. /\ new \in BoxRecords /\ new.at = "up" /\ new.born = now
      /\ new.excused = box[b].excused
  BY <1>1, <1>2 DEF BoxRecords
<1>4. box' = [box EXCEPT ![b] = new]
  BY <1>1, <1>2 DEF BoxRecords
<1>5. QED
  BY <1>3, <1>4, BoxBecomes

\* A container that is removed is gone, whatever it was.
LEMMA BoxGone ==
  ASSUME BoxesKept, NEW b \in Boxes, box' = Gone(box, b)
  PROVE  /\ box' \in [Boxes -> BoxRecords] /\ box'[b].at = "gone"
         /\ \A c \in Boxes \ {b} : box'[c] = box[c]
<1>1. PICK new : new = [NoBox EXCEPT !.at = "gone"]
  OBVIOUS
<1>2. new \in BoxRecords /\ new.at = "gone"
  BY <1>1 DEF NoBox, BoxRecords
<1>3. box' = [box EXCEPT ![b] = new]
  BY <1>1 DEF Gone
<1>4. QED
  BY <1>2, <1>3, BoxBecomes

\* A container that is left behind is excused, wherever it is in its life.
LEMMA BoxExcused ==
  ASSUME BoxesKept, NEW b \in Boxes, NEW at \in {"up", "late", "gone"},
         \/ box' = [box EXCEPT ![b].at = at, ![b].excused = TRUE]
         \/ box' = [box EXCEPT ![b].excused = TRUE] /\ at = box[b].at
  PROVE  /\ box' \in [Boxes -> BoxRecords]
         /\ box'[b].at = at /\ box'[b].excused /\ box'[b].born = box[b].born
         /\ \A c \in Boxes \ {b} : box'[c] = box[c]
<1>1. PICK new : new = [[box[b] EXCEPT !.at = at] EXCEPT !.excused = TRUE]
  OBVIOUS
<1>2. box[b] \in BoxRecords
  BY DEF BoxesKept
<1>3. new \in BoxRecords /\ new.at = at /\ new.excused /\ new.born = box[b].born
  BY <1>1, <1>2 DEF BoxRecords
<1>4. box' = [box EXCEPT ![b] = new]
  BY <1>1, <1>2 DEF BoxRecords
<1>5. QED
  BY <1>3, <1>4, BoxBecomes

\* A step of one session disturbs its own container, and no other session.
LEMMA SessionKept ==
  ASSUME BoxesInv, NEW w \in Judges, NEW b \in Boxes,
         judge[w].box \in {b, 0}, \A v \in Judges \ {w} : judge[v].box # b,
         DOMAIN judge' = Judges, \A v \in Judges \ {w} : judge'[v] = judge[v],
         DOMAIN judge'[w] = {"at", "box", "program", "report"},
         judge'[w].at \in {"idle", "down"} \union InSession, judge'[w].box \in {b, 0},
         box' \in [Boxes -> BoxRecords], \A c \in Boxes \ {b} : box'[c] = box[c],
         UNCHANGED <<now, sweep>>, Holds(w)', Cared(b)'
  PROVE  BoxesInv'
<1> USE SandboxAssumption
<1>1. BoxesKept /\ Alone /\ b # 0 /\ 0 \notin Boxes
  BY DEF BoxesInv
<1>2. BoxesKept'
  BY <1>1 DEF BoxesKept
<1>3. ASSUME NEW v \in Judges
      PROVE  Holds(v)'
  <2>1. CASE v = w
    BY <2>1
  <2>2. CASE v # w
    <3>1. Holds(v) /\ judge'[v] = judge[v] /\ judge[v].box \in Boxes \union {0}
      BY <1>1, <2>2 DEF BoxesInv, BoxesKept
    <3>2. judge[v].box # 0 => box'[judge[v].box] = box[judge[v].box]
      BY <2>2, <3>1
    <3>3. QED
      BY <3>1, <3>2 DEF Holds, InSession
  <2>3. QED
    BY <2>1, <2>2
<1>4. Alone'
  BY <1>1 DEF Alone
<1>5. ASSUME NEW c \in Boxes
      PROVE  Cared(c)'
  <2>1. CASE c = b
    BY <2>1
  <2>2. CASE c # b
    <3>1. Cared(c) /\ box'[c] = box[c] /\ judge[w].box # c
      BY <1>1, <2>2 DEF BoxesInv
    <3>2. \A v \in Judges : judge[v].at \in InSession /\ judge[v].box = c =>
                              judge'[v].at \in InSession /\ judge'[v].box = c
      BY <2>2, <3>1
    <3>3. QED
      BY <3>1, <3>2 DEF Cared
  <2>3. QED
    BY <2>1, <2>2
<1>6. QED
  BY <1>2, <1>3, <1>4, <1>5 DEF BoxesInv

\* A session begins with a container that nobody had.
LEMMA StartStep ==
  ASSUME BoxesInv, NEW w \in Judges, StartBox(w)
  PROVE  BoxesInv'
<1>1. BoxesKept /\ Holds(w)
  BY DEF BoxesInv
<1>2. PICK b \in Boxes, g \in Programs :
        /\ box[b] = NoBox
        /\ box' = [box EXCEPT ![b] = [at |-> "pending", born |-> now, label |-> now,
                                      excused |-> FALSE]]
        /\ judge' = [judge EXCEPT ![w] = [at |-> "starting", box |-> b, program |-> g,
                                          report |-> NoReport]]
  BY DEF StartBox
<1>3. judge[w].box = 0 /\ b # 0 /\ UNCHANGED <<now, sweep>>
  BY <1>1, SandboxAssumption DEF StartBox, JudgeAt, Holds, InSession
<1>4. \A v \in Judges \ {w} : judge[v].box # b
  <2> SUFFICES ASSUME NEW v \in Judges, judge[v].box = b
               PROVE  FALSE
    OBVIOUS
  <2>1. Holds(v)
    BY DEF BoxesInv
  <2>2. QED
    BY <1>2, <1>3, <2>1 DEF Holds, NoBox
<1>5. /\ box' \in [Boxes -> BoxRecords] /\ \A c \in Boxes \ {b} : box'[c] = box[c]
      /\ box'[b].at = "pending"
  BY <1>1, <1>2 DEF BoxesKept, BoxRecords
<1>6. /\ DOMAIN judge' = Judges /\ \A v \in Judges \ {w} : judge'[v] = judge[v]
      /\ DOMAIN judge'[w] = {"at", "box", "program", "report"}
      /\ judge'[w].at = "starting" /\ judge'[w].box = b
  BY <1>1, <1>2 DEF BoxesKept
<1>7. Holds(w)' /\ Cared(b)'
  BY <1>3, <1>5, <1>6 DEF Holds, Cared, InSession
<1>8. "starting" \in InSession
  BY DEF InSession
<1>9. QED
  BY <1>3, <1>4, <1>5, <1>6, <1>7, <1>8, SessionKept

\* A session that goes on keeps its container, and is past its start.
LEMMA JudgeGoesOn ==
  ASSUME BoxesKept, NEW w \in Judges,
         BoxStarted(w) \/ PutSource(w) \/ Compile(w) \/ RunTest(w) \/ ExecFails(w)
  PROVE  /\ DOMAIN judge' = Judges /\ \A v \in Judges \ {w} : judge'[v] = judge[v]
         /\ DOMAIN judge'[w] = {"at", "box", "program", "report"}
         /\ judge'[w].at \in InSession \ {"starting"} /\ judge'[w].box = judge[w].box
         /\ judge[w].at \in InSession
<1> USE DEF JudgeAt, Step, GivesUp, BoxesKept, InSession
<1>1. CASE BoxStarted(w)
  BY <1>1 DEF BoxStarted
<1>2. CASE PutSource(w)
  BY <1>2 DEF PutSource
<1>3. CASE Compile(w)
  <2>1. PICK at \in {"test", "removing"} :
          judge' = [judge EXCEPT ![w].at = at,
                                 ![w].report.verdict = IF judge[w].program.compiles
                                                       THEN "ACCEPTED" ELSE "COMPILATION_ERROR"]
    BY <1>3 DEF Compile
  <2>2. QED
    BY <1>3, <2>1 DEF Compile
<1>4. CASE RunTest(w)
  BY <1>4 DEF RunTest
<1>5. CASE ExecFails(w)
  BY <1>5 DEF ExecFails
<1>6. QED
  BY <1>1, <1>2, <1>3, <1>4, <1>5

\* A session goes on inside its container, or finds that it is gone.
LEMMA GoesOnStep ==
  ASSUME BoxesInv, NEW w \in Judges,
         BoxStarted(w) \/ PutSource(w) \/ Compile(w) \/ RunTest(w) \/ ExecFails(w)
  PROVE  BoxesInv'
<1> USE SandboxAssumption
<1>1. BoxesKept /\ Holds(w) /\ judge[w].at \in InSession /\ judge'[w].box = judge[w].box
  BY JudgeGoesOn DEF BoxesInv
<1>2. PICK b \in Boxes : b = judge[w].box
  BY <1>1 DEF BoxesKept, Holds
<1>3. b # 0 /\ \A v \in Judges \ {w} : judge[v].box # b
  BY <1>2 DEF BoxesInv, Alone
<1>4. UNCHANGED <<now, sweep>> /\ Cared(b)
  BY DEF BoxStarted, PutSource, Compile, RunTest, ExecFails, BoxesInv
<1>5. /\ box' \in [Boxes -> BoxRecords] /\ \A c \in Boxes \ {b} : box'[c] = box[c]
      /\ \/ box'[b].at = "up" /\ box'[b].born = now
         \/ box'[b].at = "gone"
         \/ box'[b].at = "late" /\ box'[b].excused
         \/ box'[b] = box[b] /\ judge[w].at # "starting"
  <2>1. CASE BoxStarted(w)
    <3>1. \/ box' = [box EXCEPT ![b].at = "up", ![b].born = now]
          \/ box' = Gone(box, b)
          \/ box' = [box EXCEPT ![b].at = "late", ![b].excused = TRUE]
      BY <1>2, <2>1 DEF BoxStarted
    <3>2. QED
      BY <1>1, <3>1, BoxUp, BoxGone, BoxExcused
  <2>2. CASE ~BoxStarted(w)
    BY <1>1, <2>2 DEF BoxesKept, PutSource, Compile, RunTest, ExecFails, JudgeAt
  <2>3. QED
    BY <2>1, <2>2
<1>6. Holds(w)'
  BY <1>1, <1>2, <1>3, <1>5, JudgeGoesOn DEF Holds, InSession
<1>7. Cared(b)'
  BY <1>1, <1>2, <1>4, <1>5, <1>6, JudgeGoesOn DEF Cared, BoxesKept
<1>8. judge'[w].at \in {"idle", "down"} \union InSession
  BY <1>1, JudgeGoesOn
<1>9. QED
  BY <1>1, <1>2, <1>3, <1>4, <1>5, <1>6, <1>7, <1>8, JudgeGoesOn, SessionKept

\* A session ends, or its worker is killed: its container is gone, late or excused.
LEMMA EndOfSessionStep ==
  ASSUME BoxesInv, NEW w \in Judges, judge[w].box # 0, RemoveBox(w) \/ KillJudge(w)
  PROVE  BoxesInv'
<1> USE SandboxAssumption
<1>1. BoxesKept /\ Holds(w)
  BY DEF BoxesInv
<1>2. PICK b \in Boxes : b = judge[w].box
  BY <1>1 DEF BoxesKept
<1>3. b # 0 /\ \A v \in Judges \ {w} : judge[v].box # b
  BY <1>2 DEF BoxesInv, Alone
<1>4. UNCHANGED <<now, sweep>> /\ Cared(b)
  BY DEF RemoveBox, KillJudge, BoxesInv
<1>5. /\ DOMAIN judge' = Judges /\ \A v \in Judges \ {w} : judge'[v] = judge[v]
      /\ DOMAIN judge'[w] = {"at", "box", "program", "report"}
      /\ judge'[w].at \in {"idle", "down"} /\ judge'[w].box = 0
  <2>1. judge' = [judge EXCEPT ![w] = Idle] \/ judge' = [judge EXCEPT ![w] = Down]
    BY DEF RemoveBox, KillJudge
  <2>2. /\ DOMAIN Idle = {"at", "box", "program", "report"} /\ Idle.at = "idle" /\ Idle.box = 0
        /\ DOMAIN Down = {"at", "box", "program", "report"} /\ Down.at = "down" /\ Down.box = 0
    BY DEF Idle, Down
  <2>3. QED
    BY <1>1, <2>1, <2>2 DEF BoxesKept
<1>6. /\ box' \in [Boxes -> BoxRecords] /\ \A c \in Boxes \ {b} : box'[c] = box[c]
      /\ \/ box'[b].at = "gone"
         \/ /\ box'[b].excused /\ box'[b].born = box[b].born
            /\ box'[b].at \in {"late", "up"} /\ (box'[b].at = "up" => box[b].at = "up")
  <2>1. CASE RemoveBox(w)
    <3>1. box[b].at \in {"up", "late", "gone"}
      BY <1>1, <1>2, <1>3, <2>1 DEF RemoveBox, JudgeAt, Holds, InSession
    <3>2. CASE box' = Gone(box, b)
      BY <1>1, <3>2, BoxGone
    <3>3. CASE box' = [box EXCEPT ![b].excused = TRUE] /\ box[b].at = "up"
      BY <1>1, <3>3, BoxExcused
    <3>4. CASE box' = box /\ box[b].at # "up"
      BY <1>1, <1>4, <3>1, <3>4 DEF BoxesKept, Cared
    <3>5. QED
      BY <1>2, <2>1, <3>2, <3>3, <3>4 DEF RemoveBox, Up
  <2>2. CASE KillJudge(w)
    <3>1. box[b].at \in {"pending", "up", "late", "gone"}
      BY <1>1, <1>2, <1>3 DEF Holds
    <3>2. CASE box[b].at = "pending"
      <4>1. box' = [box EXCEPT ![b].at = "late", ![b].excused = TRUE]
        BY <1>2, <1>3, <2>2, <3>2 DEF KillJudge
      <4>2. QED
        BY <1>1, <4>1, BoxExcused
    <3>3. CASE box[b].at # "pending"
      <4>1. box' = [box EXCEPT ![b].excused = TRUE]
        BY <1>2, <1>3, <2>2, <3>3 DEF KillJudge
      <4>2. box[b].at \in {"up", "late", "gone"}
        BY <3>1, <3>3
      <4>3. QED
        BY <1>1, <4>1, <4>2, BoxExcused
    <3>4. QED
      BY <3>2, <3>3
  <2>3. QED
    BY <2>1, <2>2
<1>7. Holds(w)'
  BY <1>5 DEF Holds, InSession
<1>8. Cared(b)'
  BY <1>4, <1>6 DEF Cared
<1>9. QED
  BY <1>2, <1>3, <1>4, <1>5, <1>6, <1>7, <1>8, SessionKept

\* A worker without a session starts or stops: containers and sessions stay as they are.
LEMMA WorkerStep ==
  ASSUME BoxesInv, NEW w \in Judges, judge[w].box = 0, KillJudge(w) \/ JudgeStarts(w)
  PROVE  BoxesInv'
<1> USE SandboxAssumption
<1>1. BoxesKept /\ Holds(w)
  BY DEF BoxesInv
<1>2. UNCHANGED <<now, box>> /\ sweep' \subseteq Boxes
  BY <1>1 DEF KillJudge, JudgeStarts, Listed, BoxesKept
<1>3. /\ DOMAIN judge' = Judges /\ \A v \in Judges \ {w} : judge'[v] = judge[v]
      /\ DOMAIN judge'[w] = {"at", "box", "program", "report"}
      /\ judge'[w].at \in {"idle", "down"} /\ judge'[w].box = 0
  <2>1. judge' = [judge EXCEPT ![w] = Idle] \/ judge' = [judge EXCEPT ![w] = Down]
    BY DEF JudgeStarts, KillJudge
  <2>2. /\ DOMAIN Idle = {"at", "box", "program", "report"} /\ Idle.at = "idle" /\ Idle.box = 0
        /\ DOMAIN Down = {"at", "box", "program", "report"} /\ Down.at = "down" /\ Down.box = 0
    BY DEF Idle, Down
  <2>3. QED
    BY <1>1, <2>1, <2>2 DEF BoxesKept
<1>4. BoxesKept'
  BY <1>1, <1>2, <1>3 DEF BoxesKept
<1>5. ASSUME NEW v \in Judges
      PROVE  Holds(v)'
  BY <1>1, <1>2, <1>3 DEF Holds, BoxesInv, InSession
<1>6. Alone'
  BY <1>3 DEF Alone, BoxesInv
<1>7. ASSUME NEW c \in Boxes
      PROVE  Cared(c)'
  <2>1. Cared(c) /\ c # 0
    BY DEF BoxesInv
  <2>2. \A v \in Judges : judge[v].box = c => judge'[v] = judge[v]
    BY <1>3, <2>1
  <2>3. QED
    BY <1>2, <2>1, <2>2 DEF Cared
<1>8. QED
  BY <1>4, <1>5, <1>6, <1>7 DEF BoxesInv

\* A container is removed, or starts late, without its session.
LEMMA BoxStep ==
  ASSUME BoxesInv, SweepOne \/ ReapContainers \/ (\E b \in Boxes : StartsLate(b) \/ BoxExpires(b))
  PROVE  BoxesInv'
<1> USE SandboxAssumption
<1>1. BoxesKept
  BY DEF BoxesInv
<1>2. UNCHANGED <<now, judge>> /\ sweep' \subseteq Boxes
  BY <1>1 DEF SweepOne, ReapContainers, StartsLate, BoxExpires, BoxesKept, Listed
<1>3. /\ box' \in [Boxes -> BoxRecords]
      /\ \A b \in Boxes : \/ box'[b] = box[b]
                          \/ box[b].at = "up" /\ box'[b].at = "gone"
                          \/ /\ box[b].at = "late" /\ box'[b].at = "up"
                             /\ box'[b].excused = box[b].excused /\ box'[b].born = now
  <2>1. ASSUME NEW b \in Boxes, box' = Gone(box, b), box[b].at = "up"
        PROVE  /\ box' \in [Boxes -> BoxRecords]
               /\ \A c \in Boxes : box'[c] = box[c] \/ (box[c].at = "up" /\ box'[c].at = "gone")
    BY <1>1, <2>1, BoxGone
  <2>2. CASE SweepOne
    <3>1. box' = box \/ (box[Min(sweep)].at = "up" /\ box' = Gone(box, Min(sweep)))
      BY <2>2 DEF SweepOne, Up
    <3>2. CASE Min(sweep) \in Boxes
      BY <1>1, <2>1, <3>1, <3>2 DEF BoxesKept
    <3>3. CASE Min(sweep) \notin Boxes
      <4>1. box' = box
        BY <1>1, <3>1, <3>3 DEF BoxesKept, Gone
      <4>2. QED
        BY <1>1, <4>1 DEF BoxesKept
    <3>4. QED
      BY <3>2, <3>3
  <2>3. CASE ReapContainers
    BY <1>1, <2>3 DEF ReapContainers, BoxesKept
  <2>4. ASSUME NEW b \in Boxes, BoxExpires(b)
        PROVE  /\ box' \in [Boxes -> BoxRecords]
               /\ \A c \in Boxes : box'[c] = box[c] \/ (box[c].at = "up" /\ box'[c].at = "gone")
    BY <1>1, <2>1, <2>4 DEF BoxExpires, Up
  <2>5. ASSUME NEW b \in Boxes, StartsLate(b)
        PROVE  /\ box' \in [Boxes -> BoxRecords]
               /\ \A c \in Boxes : \/ box'[c] = box[c]
                                   \/ /\ box[c].at = "late" /\ box'[c].at = "up"
                                      /\ box'[c].excused = box[c].excused /\ box'[c].born = now
    BY <1>1, <2>5, BoxUp DEF StartsLate
  <2>6. QED
    BY <2>2, <2>3, <2>4, <2>5
<1>4. BoxesKept'
  BY <1>1, <1>2, <1>3 DEF BoxesKept
<1>5. ASSUME NEW w \in Judges
      PROVE  Holds(w)'
  <2>1. Holds(w) /\ judge'[w] = judge[w] /\ judge[w].box \in Boxes \union {0}
    BY <1>1, <1>2 DEF BoxesInv, BoxesKept
  <2>2. QED
    BY <1>3, <2>1 DEF Holds, InSession
<1>6. Alone'
  BY <1>2 DEF Alone, BoxesInv
<1>7. ASSUME NEW c \in Boxes
      PROVE  Cared(c)'
  <2>1. Cared(c) /\ now <= now + BoxTtl
    BY <1>1 DEF BoxesInv, BoxesKept
  <2>2. CASE box'[c] = box[c]
    BY <1>2, <2>1, <2>2 DEF Cared
  <2>3. CASE box'[c].at = "gone"
    BY <2>3 DEF Cared
  <2>4. CASE /\ box[c].at = "late" /\ box'[c].at = "up"
             /\ box'[c].excused = box[c].excused /\ box'[c].born = now
    BY <1>2, <2>1, <2>4 DEF Cared
  <2>5. QED
    BY <1>3, <2>2, <2>3, <2>4
<1>8. QED
  BY <1>4, <1>5, <1>6, <1>7 DEF BoxesInv

\* Time passes, but no timer is late.
LEMMA SandboxTickStep ==
  ASSUME BoxesInv, SandboxTick
  PROVE  BoxesInv'
<1> USE SandboxAssumption
<1>1. BoxesKept' /\ Alone' /\ \A w \in Judges : Holds(w)'
  BY DEF SandboxTick, BoxesInv, BoxesKept, Alone, Holds
<1>2. ASSUME NEW c \in Boxes
      PROVE  Cared(c)'
  <2>1. Cared(c) /\ box[c].born \in Nat /\ now \in Nat
    BY DEF BoxesInv, BoxesKept, BoxRecords
  <2>2. UNCHANGED <<box, judge>> /\ now' = now + 1
    BY DEF SandboxTick
  <2>3. box[c].at = "up" => now' <= box[c].born + BoxTtl
    <3>1. box[c].at = "up" => now < box[c].born + BoxTtl
      BY DEF SandboxTick, Up
    <3>2. box[c].born + BoxTtl \in Nat
      BY <2>1
    <3>3. QED
      BY <2>1, <2>2, <3>1, <3>2
  <2>4. QED
    BY <2>1, <2>2, <2>3 DEF Cared
<1>3. QED
  BY <1>1, <1>2 DEF BoxesInv

\* The invariant holds at the beginning, and every step preserves it.
LEMMA BoxesInitInv == SandboxInit => BoxesInv
<1> SUFFICES ASSUME SandboxInit
             PROVE  BoxesInv
  OBVIOUS
<1>1. \A w \in Judges : /\ DOMAIN judge[w] = {"at", "box", "program", "report"}
                        /\ judge[w].at \in {"idle", "down"} /\ judge[w].box = 0
  <2>1. /\ DOMAIN Idle = {"at", "box", "program", "report"} /\ Idle.at = "idle" /\ Idle.box = 0
        /\ DOMAIN Down = {"at", "box", "program", "report"} /\ Down.at = "down" /\ Down.box = 0
    BY DEF Idle, Down
  <2>2. \A w \in Judges : judge[w] = Idle \/ judge[w] = Down
    BY DEF SandboxInit
  <2>3. QED
    BY <2>1, <2>2
<1>2. BoxesKept
  BY <1>1 DEF SandboxInit, BoxesKept, BoxRecords, NoBox
<1>3. QED
  BY <1>1, <1>2 DEF SandboxInit, BoxesInv, Holds, Alone, Cared, NoBox, InSession

\* Whatever a judge, the runtime or the sweep does next, the invariant stays.
LEMMA BoxesNextInv == BoxesInv /\ [SandboxNext]_sandboxVars => BoxesInv'
<1>1. BoxesInv /\ UNCHANGED sandboxVars => BoxesInv'
  BY DEF sandboxVars, BoxesInv, BoxesKept, Holds, Alone, Cared
<1>2. ASSUME BoxesInv, SandboxNext
      PROVE  BoxesInv'
  <2>1. ASSUME NEW w \in Judges, RemoveBox(w) \/ KillJudge(w) \/ JudgeStarts(w)
        PROVE  BoxesInv'
    <3>1. Holds(w)
      BY <1>2 DEF BoxesInv
    <3>2. RemoveBox(w) => judge[w].box # 0
      BY <3>1 DEF RemoveBox, JudgeAt, Holds, InSession
    <3>3. JudgeStarts(w) => judge[w].box = 0
      BY <3>1 DEF JudgeStarts, JudgeAt, Holds, InSession
    <3>4. QED
      BY <1>2, <2>1, <3>2, <3>3, EndOfSessionStep, WorkerStep
  <2>2. QED
    BY <1>2, <2>1, StartStep, GoesOnStep, BoxStep, SandboxTickStep DEF SandboxNext
<1>3. QED
  BY <1>1, <1>2

\* The invariant of sessions and containers, with crashes, timers and sweeps.
THEOREM BoxesInvariant == SandboxSpec => []BoxesInv
BY BoxesInitInv, BoxesNextInv, PTL DEF SandboxSpec

\* A container that has lost its session is gone when its timer is over: docker_sandbox.py
\* leaves none behind, whoever crashed.
THEOREM EveryBoxGoes == SandboxSpec => []NoBoxIsForgotten
<1>1. BoxesInv => NoBoxIsForgotten
  BY DEF BoxesInv, Cared, Up, NoBoxIsForgotten
<1>2. QED
  BY <1>1, BoxesInvariant, PTL

-----------------------------------------------------------------------------
(* The verdicts of the judge                                               *)

\* A set of numbers has a least one.
LEMMA Least ==
  ASSUME NEW T, T \subseteq Nat, T # {}
  PROVE  Min(T) \in T /\ \A y \in T : Min(T) <= y
<1>1. PICK R : R = OpToRel(<, Nat)
  OBVIOUS
<1>2. IsWellFoundedOn(R, Nat)
  BY <1>1, NatLessThanWellFounded
<1>3. PICK x \in T : \A y \in T : ~ (<<y, x>> \in R)
  BY <1>2, WFMin
<1>4. ASSUME NEW y \in T
      PROVE  x <= y
  <2>1. <<y, x>> \notin OpToRel(<, Nat)
    BY <1>1, <1>3
  <2>2. ~(y < x)
    BY <2>1 DEF OpToRel
  <2>3. QED
    BY <2>2
<1>5. \E z \in T : \A y \in T : z <= y
  BY <1>4
<1>6. QED
  BY <1>5 DEF Min

\* Some of the tests in the order in which they are run.
Orderly(g, T, o) ==
  /\ o \in [1 .. Cardinality(T) -> T]
  /\ \A i, j \in 1 .. Cardinality(T) : i < j => o[i] # o[j] /\ RunsBefore(g, o[i], o[j])

\* A session and its report, of their types.
ReportRows ==
  [verdict : {"NONE", "SYSTEM_ERROR", "ACCEPTED", "COMPILATION_ERROR"}
               \union {g.deserves[t] : g \in Programs, t \in Tests},
   passed : Nat, ran : Nat]
JudgeRows ==
  [at : {"idle", "down"} \union InSession, box : Boxes \union {0}, program : Programs,
   report : ReportRows]

\* A report on the first tests of a program: it counts the tests that it passed, and its
\* verdict is that of the first failure among them.
FailsFirst(g, i) ==
  /\ OrderTests(g)[i] \in Fails(g)
  /\ \A j \in 1 .. i - 1 : OrderTests(g)[j] \notin Fails(g)
Passing(g, n) == {OrderTests(g)[i] : i \in 1 .. n} \ Fails(g)
Reported(g, r) ==
  /\ r.ran \in 0 .. Cardinality(Tests)
  /\ r.passed = Cardinality(Passing(g, r.ran))
  /\ r.verdict = "ACCEPTED" => \A i \in 1 .. r.ran : OrderTests(g)[i] \notin Fails(g)
  /\ r.verdict # "ACCEPTED" =>
       \E i \in 1 .. r.ran : FailsFirst(g, i) /\ r.verdict = g.deserves[OrderTests(g)[i]]

\* A session that is past its compilation has such a report, and one that is being tested has
\* not come to an end.
Gave(r, verdict) == r = [NoReport EXCEPT !.verdict = verdict]
Sound(w) ==
  LET g == judge[w].program
      r == judge[w].report
  IN /\ judge[w].at \notin {"test", "removing"} => r = NoReport
     /\ judge[w].at = "test" => g.compiles /\ Reported(g, r) /\ ~AllTested(g, r)
     /\ judge[w].at = "removing" =>
          \/ Gave(r, "SYSTEM_ERROR")
          \/ ~g.compiles /\ Gave(r, "COMPILATION_ERROR")
          \/ g.compiles /\ Reported(g, r) /\ AllTested(g, r)

\* All of it, for every session.
VerdictInv == judge \in [Judges -> JudgeRows] /\ \A w \in Judges : Sound(w)

\* Among subsets of a finite set, one has none of the others inside it.
LEMMA LeastOfSubsets ==
  ASSUME NEW T, IsFiniteSet(T), NEW B \in SUBSET (SUBSET T), B # {}
  PROVE  \E s \in B : \A u \in SUBSET s : u \in B => u = s
<1>1. IsWellFoundedOn(StrictSubsetOrdering(T), SUBSET T)
  BY FS_StrictSubsetOrderingWellFounded, FS_FiniteSubsetsOfFinite
<1>2. PICK s \in B : \A u \in B : ~ (<<u, s>> \in StrictSubsetOrdering(T))
  BY <1>1, WFMin
<1>3. \A u \in SUBSET s : u \in B => u = s
  BY <1>2 DEF StrictSubsetOrdering
<1>4. QED
  BY <1>3

\* Some test is run before all others of a set.
LEMMA OneRunsFirst ==
  ASSUME NEW g, NEW U, U \subseteq Nat, U # {}
  PROVE  \E m \in U : \A x \in U \ {m} : RunsBefore(g, m, x)
<1>1. CASE U \intersect g.public # {}
  <2>1. PICK P : P = U \intersect g.public
    OBVIOUS
  <2>2. PICK m \in P : \A y \in P : m <= y
    BY <1>1, <2>1, Least
  <2>3. ASSUME NEW x \in U \ {m}
        PROVE  RunsBefore(g, m, x)
    <3>1. CASE x \in g.public
      <4>1. x \in Nat /\ m \in Nat /\ m <= x /\ m # x
        BY <2>1, <2>2, <3>1
      <4>2. m < x
        BY <4>1
      <4>3. QED
        BY <2>1, <3>1, <4>2 DEF RunsBefore
    <3>2. CASE x \notin g.public
      BY <2>1, <3>2 DEF RunsBefore
    <3>3. QED
      BY <3>1, <3>2
  <2>4. QED
    BY <2>1, <2>3
<1>2. CASE U \intersect g.public = {}
  <2>1. PICK m \in U : \A y \in U : m <= y
    BY Least
  <2>2. ASSUME NEW x \in U \ {m}
        PROVE  RunsBefore(g, m, x)
    <3>1. x \in Nat /\ m \in Nat /\ m <= x /\ m # x
      BY <2>1
    <3>2. m < x
      BY <3>1
    <3>3. x \notin g.public /\ m \notin g.public
      BY <1>2
    <3>4. QED
      BY <3>2, <3>3 DEF RunsBefore
  <2>3. QED
    BY <2>2
<1>3. QED
  BY <1>1, <1>2

\* Every set of tests can be put in order.
LEMMA TestsCanBeOrdered ==
  ASSUME NEW g, NEW T, IsFiniteSet(T), T \subseteq Nat
  PROVE  \E o : Orderly(g, T, o)
<1> DEFINE B == {U \in SUBSET T : ~ \E o : Orderly(g, U, o)}
<1> SUFFICES ASSUME B # {} PROVE FALSE
  OBVIOUS
<1>1. B \in SUBSET (SUBSET T) /\ IsFiniteSet(T)
  OBVIOUS
<1>2. PICK U \in B : \A V \in SUBSET U : V \in B => V = U
  <2> HIDE DEF B
  <2>1. QED
    BY ONLY <1>1, B # {}, LeastOfSubsets
<1>3. U \in SUBSET T /\ IsFiniteSet(U)
  BY FS_Subset
<1>4. CASE U = {}
  <2>1. Cardinality(U) = 0
    BY <1>4, FS_EmptySet
  <2>2. [i \in 1 .. 0 |-> 0] \in [1 .. 0 -> U]
    OBVIOUS
  <2>3. Orderly(g, U, [i \in 1 .. 0 |-> 0])
    BY <2>1, <2>2 DEF Orderly
  <2>4. QED
    BY <2>3
<1>5. CASE U # {}
  <2>1. PICK m \in U : \A x \in U \ {m} : RunsBefore(g, m, x)
    BY <1>3, <1>5, OneRunsFirst
  <2>2. PICK V : V = U \ {m}
    OBVIOUS
  <2>3. V \in SUBSET U /\ V # U /\ V \in SUBSET T
    BY <1>3, <2>2
  <2>4. PICK o : Orderly(g, V, o)
    BY <1>2, <2>3
  <2>5. PICK k : k = Cardinality(V)
    OBVIOUS
  <2>6. k \in Nat /\ Cardinality(U) = k + 1
    <3>1. IsFiniteSet(V) /\ m \notin V /\ U = V \union {m}
      BY <1>3, <2>2, FS_Subset
    <3>2. Cardinality(V \union {m}) = Cardinality(V) + 1
      BY <3>1, FS_AddElement
    <3>3. QED
      BY <2>5, <3>1, <3>2, FS_CardinalityType
  <2>7. /\ o \in [1 .. k -> V]
        /\ \A i, j \in 1 .. k : i < j => o[i] # o[j] /\ RunsBefore(g, o[i], o[j])
    BY <2>4, <2>5 DEF Orderly
  <2>8. PICK n : n = [i \in 1 .. k + 1 |-> IF i = 1 THEN m ELSE o[i - 1]]
    OBVIOUS
  <2>9. ASSUME NEW i \in 1 .. k + 1
        PROVE  n[i] \in U /\ (i = 1 => n[i] = m) /\ (i # 1 => i - 1 \in 1 .. k /\ n[i] = o[i - 1])
    BY <2>2, <2>6, <2>7, <2>8
  <2>10. n \in [1 .. k + 1 -> U]
    BY <2>8, <2>9
  <2>11. ASSUME NEW i \in 1 .. k + 1, NEW j \in 1 .. k + 1, i < j
         PROVE  n[i] # n[j] /\ RunsBefore(g, n[i], n[j])
    <3>1. j # 1 /\ n[j] = o[j - 1] /\ o[j - 1] \in V
      BY <2>6, <2>7, <2>9, <2>11
    <3>2. CASE i = 1
      BY <2>1, <2>2, <2>9, <3>1, <3>2
    <3>3. CASE i # 1
      <4>1. PICK a, b : a = i - 1 /\ b = j - 1
        OBVIOUS
      <4>2. a \in 1 .. k /\ b \in 1 .. k /\ a < b /\ n[i] = o[a] /\ n[j] = o[b]
        BY <2>6, <2>9, <2>11, <3>1, <3>3, <4>1
      <4>3. QED
        BY <2>7, <4>2
    <3>4. QED
      BY <3>2, <3>3
  <2>12. Orderly(g, U, n)
    BY <2>6, <2>10, <2>11 DEF Orderly
  <2>13. QED
    BY <2>12
<1>6. QED
  BY <1>4, <1>5

\* The tests of the problem: some number, not zero.
LEMMA ThereAreTests ==
  IsFiniteSet(Tests) /\ Tests \subseteq Nat /\ Cardinality(Tests) \in Nat \ {0}
<1>1. IsFiniteSet(Tests) /\ Tests \subseteq Nat /\ Tests # {}
  BY SandboxAssumption
<1>2. QED
  BY <1>1, FS_CardinalityType, FS_EmptySet

\* What order_tests returns: each test once, in order.
LEMMA OrderIsOrderly ==
  ASSUME NEW g
  PROVE  /\ OrderTests(g) \in [1 .. Cardinality(Tests) -> Tests]
         /\ \A i, j \in 1 .. Cardinality(Tests) : i < j =>
              /\ OrderTests(g)[i] # OrderTests(g)[j]
              /\ RunsBefore(g, OrderTests(g)[i], OrderTests(g)[j])
         /\ \A t \in Tests : \E i \in 1 .. Cardinality(Tests) : OrderTests(g)[i] = t
<1>1. PICK n : n = Cardinality(Tests)
  OBVIOUS
<1>2. n \in Nat \ {0} /\ IsFiniteSet(Tests) /\ Tests \subseteq Nat
  BY <1>1, ThereAreTests
<1>3. PICK o : Orderly(g, Tests, o)
  BY <1>2, TestsCanBeOrdered
<1>4. /\ o \in [1 .. n -> Tests]
      /\ \A i, j \in 1 .. n : i < j => o[i] # o[j] /\ RunsBefore(g, o[i], o[j])
  BY <1>1, <1>3 DEF Orderly
<1>5. o \in SetToSeqs(Tests)
  <2>1. \A i, j \in 1 .. n : i # j => o[i] # o[j]
    BY <1>2, <1>4
  <2>2. QED
    BY <1>1, <1>4, <2>1 DEF SetToSeqs
<1>6. \A i, j \in DOMAIN o : i < j => RunsBefore(g, o[i], o[j])
  BY <1>4
<1>7. PICK p : p = OrderTests(g)
  OBVIOUS
<1>8. p \in SetToSeqs(Tests) /\ \A i, j \in DOMAIN p : i < j => RunsBefore(g, p[i], p[j])
  BY <1>5, <1>6, <1>7 DEF OrderTests
<1>9. p \in [1 .. n -> Tests] /\ \A i, j \in 1 .. n : i # j => p[i] # p[j]
  BY <1>1, <1>8 DEF SetToSeqs
<1>10. \A i, j \in 1 .. n : i < j => p[i] # p[j] /\ RunsBefore(g, p[i], p[j])
  BY <1>2, <1>8, <1>9
<1>11. \A t \in Tests : \E i \in 1 .. n : p[i] = t
  <2>1. IsFiniteSet(1 .. n) /\ Cardinality(1 .. n) = n
    BY <1>2, FS_Interval
  <2>2. p \in Injection(1 .. n, Tests)
    BY <1>9 DEF Injection, IsInjective
  <2>3. p \in Surjection(1 .. n, Tests)
    BY <1>1, <1>2, <2>1, <2>2, FS_Injection
  <2>4. QED
    BY <2>3 DEF Surjection
<1>12. QED
  BY <1>1, <1>7, <1>9, <1>10, <1>11

\* The failure that comes first in that order is what the verdict should be about.
LEMMA FirstOfTheFailures ==
  ASSUME NEW g, NEW i \in 1 .. Cardinality(Tests), FailsFirst(g, i)
  PROVE  OrderTests(g)[i] = FirstFailure(g) /\ Fails(g) # {}
<1>1. PICK n : n = Cardinality(Tests)
  OBVIOUS
<1>2. PICK o : o = OrderTests(g)
  OBVIOUS
<1>3. /\ n \in Nat /\ i \in 1 .. n /\ o \in [1 .. n -> Tests] /\ Tests \subseteq Nat
      /\ \A j, k \in 1 .. n : j < k => o[j] # o[k] /\ RunsBefore(g, o[j], o[k])
      /\ \A t \in Tests : \E j \in 1 .. n : o[j] = t
  BY <1>1, <1>2, ThereAreTests, OrderIsOrderly
<1>4. PICK x : x = o[i]
  OBVIOUS
<1>5. x \in Fails(g) /\ \A j \in 1 .. i - 1 : o[j] \notin Fails(g)
  BY <1>2, <1>4 DEF FailsFirst
<1>6. Fails(g) \subseteq Nat
  BY <1>3 DEF Fails
<1>7. ASSUME NEW t \in Fails(g)
      PROVE  t = x \/ RunsBefore(g, x, t)
  <2>1. PICK j \in 1 .. n : o[j] = t
    BY <1>3 DEF Fails
  <2>2. ~(j < i)
    BY <1>3, <1>5, <2>1
  <2>3. j = i \/ i < j
    BY <1>3, <2>2
  <2>4. QED
    BY <1>3, <1>4, <2>1, <2>3
<1>8. CASE Fails(g) \intersect g.public # {}
  <2>1. PICK P : P = Fails(g) \intersect g.public
    OBVIOUS
  <2>2. x \in P /\ \A t \in P : x <= t
    BY <1>5, <1>6, <1>7, <1>8, <2>1 DEF RunsBefore
  <2>3. P \subseteq Nat /\ Min(P) \in P /\ \A t \in P : Min(P) <= t
    BY <1>6, <2>1, <2>2, Least
  <2>4. x = Min(P)
    <3>1. PICK least : least = Min(P)
      OBVIOUS
    <3>2. least \in Nat /\ x \in Nat /\ x <= least /\ least <= x
      BY <2>2, <2>3, <3>1
    <3>3. QED
      BY <3>1, <3>2
  <2>5. QED
    BY <1>2, <1>4, <1>8, <2>1, <2>4 DEF FirstFailure
<1>9. CASE Fails(g) \intersect g.public = {}
  <2>1. PICK P : P = Fails(g)
    OBVIOUS
  <2>2. x \in P /\ \A t \in P : x <= t
    BY <1>5, <1>6, <1>7, <1>9, <2>1 DEF RunsBefore
  <2>3. P \subseteq Nat /\ Min(P) \in P /\ \A t \in P : Min(P) <= t
    BY <1>6, <2>1, <2>2, Least
  <2>4. x = Min(P)
    <3>1. PICK least : least = Min(P)
      OBVIOUS
    <3>2. least \in Nat /\ x \in Nat /\ x <= least /\ least <= x
      BY <2>2, <2>3, <3>1
    <3>3. QED
      BY <3>1, <3>2
  <2>5. QED
    BY <1>2, <1>4, <1>5, <1>9, <2>1, <2>4 DEF FirstFailure
<1>10. QED
  BY <1>8, <1>9

\* One more test is passed, or it is a failure.
LEMMA PassingGrows ==
  ASSUME NEW g, NEW n \in Nat, n + 1 <= Cardinality(Tests)
  PROVE  /\ IsFiniteSet(Passing(g, n)) /\ Cardinality(Passing(g, n)) \in Nat
         /\ Cardinality(Passing(g, n + 1)) =
              Cardinality(Passing(g, n)) + (IF OrderTests(g)[n + 1] \in Fails(g) THEN 0 ELSE 1)
<1>1. PICK c : c = Cardinality(Tests)
  OBVIOUS
<1>2. PICK o : o = OrderTests(g)
  OBVIOUS
<1>3. /\ c \in Nat /\ n + 1 <= c /\ o \in [1 .. c -> Tests]
      /\ \A i, j \in 1 .. c : i < j => o[i] # o[j]
  BY <1>1, <1>2, ThereAreTests, OrderIsOrderly
<1>4. PICK P : P = Passing(g, n)
  OBVIOUS
<1>5. PICK t : t = o[n + 1]
  OBVIOUS
<1>6. P = {o[i] : i \in 1 .. n} \ Fails(g)
  BY <1>2, <1>4 DEF Passing
<1>7. P \subseteq Tests /\ t \notin P
  BY <1>3, <1>5, <1>6
<1>8. Passing(g, n + 1) = IF t \in Fails(g) THEN P ELSE P \union {t}
  <2>1. {o[i] : i \in 1 .. n + 1} = {o[i] : i \in 1 .. n} \union {o[n + 1]}
    <3>1. 1 .. n + 1 = (1 .. n) \union {n + 1}
      OBVIOUS
    <3>2. QED
      BY <3>1
  <2>2. QED
    BY <1>2, <1>5, <1>6, <2>1 DEF Passing
<1>9. IsFiniteSet(P) /\ Cardinality(P) \in Nat
  BY <1>7, ThereAreTests, FS_Subset, FS_CardinalityType
<1>10. Cardinality(P \union {t}) = Cardinality(P) + 1
  BY <1>7, <1>9, FS_AddElement
<1>11. QED
  BY <1>2, <1>4, <1>5, <1>8, <1>9, <1>10

\* Nothing is reported before the first test, ...
LEMMA NothingReported ==
  ASSUME NEW g, NEW r, r = [verdict |-> "ACCEPTED", passed |-> 0, ran |-> 0]
  PROVE  r \in ReportRows /\ Reported(g, r) /\ ~AllTested(g, r)
<1>1. Passing(g, 0) = {}
  BY DEF Passing
<1>2. Cardinality({}) = 0 /\ Cardinality(Tests) \in Nat \ {0}
  BY ThereAreTests, FS_EmptySet
<1>3. r.ran = 0 /\ r.passed = 0 /\ r.verdict = "ACCEPTED"
  OBVIOUS
<1>4. Reported(g, r)
  BY <1>1, <1>2, <1>3 DEF Reported
<1>5. r \in ReportRows
  BY DEF ReportRows
<1>6. ~AllTested(g, r)
  BY <1>2, <1>3 DEF AllTested
<1>7. QED
  BY <1>4, <1>5, <1>6

\* ... and each test adds to the report what it is worth.
LEMMA TestedReports ==
  ASSUME NEW g \in Programs, NEW r \in ReportRows, Reported(g, r), ~AllTested(g, r)
  PROVE  Tested(g, r) \in ReportRows /\ Reported(g, Tested(g, r))
<1>1. PICK n, v : n = r.ran /\ v = r.verdict
  OBVIOUS
<1>2. PICK c : c = Cardinality(Tests)
  OBVIOUS
<1>3. PICK o : o = OrderTests(g)
  OBVIOUS
<1>4. c \in Nat /\ o \in [1 .. c -> Tests] /\ n \in 0 .. c /\ n # c
  BY <1>1, <1>2, <1>3, ThereAreTests, OrderIsOrderly DEF Reported, AllTested
<1>5. PICK m \in 1 .. c : m = n + 1
  BY <1>4
<1>6. PICK t \in Tests : t = o[m]
  BY <1>4, <1>5
<1>7. PICK worth : worth = g.deserves[t]
  OBVIOUS
<1>8. PICK q : q = Tested(g, r)
  OBVIOUS
<1>9. /\ q = [verdict |-> IF v = "ACCEPTED" THEN worth ELSE v, ran |-> m,
              passed |-> r.passed + (IF worth = "ACCEPTED" THEN 1 ELSE 0)]
      /\ worth = "ACCEPTED" <=> t \notin Fails(g)
  BY <1>1, <1>3, <1>5, <1>6, <1>7, <1>8 DEF Tested, Fails
<1>10. q.ran = m /\ q.verdict = IF v = "ACCEPTED" THEN worth ELSE v
  BY <1>9
<1>11. q.passed = Cardinality(Passing(g, m)) /\ q.passed \in Nat
  <2>1. r.passed = Cardinality(Passing(g, n))
    BY <1>1 DEF Reported
  <2>2. n \in Nat /\ n + 1 <= Cardinality(Tests)
    BY <1>2, <1>4, <1>5
  <2>3. /\ Cardinality(Passing(g, n)) \in Nat
        /\ Cardinality(Passing(g, m)) =
             Cardinality(Passing(g, n)) + (IF t \in Fails(g) THEN 0 ELSE 1)
    BY <1>3, <1>5, <1>6, <2>2, PassingGrows
  <2>4. QED
    BY <1>9, <2>1, <2>3
<1>12. q \in ReportRows
  <2>1. /\ worth \in {h.deserves[s] : h \in Programs, s \in Tests}
        /\ v \in {"NONE", "SYSTEM_ERROR", "ACCEPTED", "COMPILATION_ERROR"}
                   \union {h.deserves[s] : h \in Programs, s \in Tests}
    BY <1>1, <1>7 DEF ReportRows
  <2>2. m \in Nat
    BY <1>4, <1>5
  <2>3. QED
    BY <1>9, <1>11, <2>1, <2>2 DEF ReportRows
<1>13. v = "ACCEPTED" => \A i \in 1 .. n : o[i] \notin Fails(g)
  BY <1>1, <1>3 DEF Reported
<1>14. v # "ACCEPTED" => \E i \in 1 .. n : FailsFirst(g, i) /\ v = g.deserves[o[i]]
  BY <1>1, <1>3 DEF Reported
<1>15. q.verdict = "ACCEPTED" => \A i \in 1 .. m : o[i] \notin Fails(g)
  <2>1. SUFFICES ASSUME q.verdict = "ACCEPTED" PROVE \A i \in 1 .. m : o[i] \notin Fails(g)
    OBVIOUS
  <2>2. CASE v = "ACCEPTED"
    <3>1. t \notin Fails(g)
      BY <1>9, <1>10, <2>1, <2>2
    <3>2. \A i \in 1 .. m : i \in 1 .. n \/ i = m
      BY <1>4, <1>5
    <3>3. QED
      BY <1>6, <1>13, <2>2, <3>1, <3>2
  <2>3. CASE v # "ACCEPTED"
    BY <1>10, <2>1, <2>3
  <2>4. QED
    BY <2>2, <2>3
<1>16. q.verdict # "ACCEPTED" =>
         \E i \in 1 .. m : FailsFirst(g, i) /\ q.verdict = g.deserves[o[i]]
  <2>1. SUFFICES ASSUME q.verdict # "ACCEPTED"
                 PROVE  \E i \in 1 .. m : FailsFirst(g, i) /\ q.verdict = g.deserves[o[i]]
    OBVIOUS
  <2>2. CASE v = "ACCEPTED"
    <3>1. t \in Fails(g) /\ q.verdict = worth
      BY <1>9, <1>10, <2>1, <2>2
    <3>2. \A i \in 1 .. m - 1 : i \in 1 .. n
      BY <1>4, <1>5
    <3>3. FailsFirst(g, m)
      BY <1>3, <1>6, <1>13, <2>2, <3>1, <3>2 DEF FailsFirst
    <3>4. m \in 1 .. m
      BY <1>5, <1>4
    <3>5. QED
      BY <1>6, <1>7, <3>1, <3>3, <3>4
  <2>3. CASE v # "ACCEPTED"
    <3>1. PICK i \in 1 .. n : FailsFirst(g, i) /\ v = g.deserves[o[i]]
      BY <1>14, <2>3
    <3>2. i \in 1 .. m
      BY <1>4, <1>5, <3>1
    <3>3. QED
      BY <1>10, <2>3, <3>1, <3>2
  <2>4. QED
    BY <2>2, <2>3
<1>17. QED
  BY <1>2, <1>3, <1>5, <1>8, <1>10, <1>11, <1>12, <1>15, <1>16 DEF Reported

\* A worker without a session has no report.
LEMMA WithoutSession ==
  /\ Idle \in JudgeRows /\ Idle.at = "idle" /\ Idle.report = NoReport
  /\ Down \in JudgeRows /\ Down.at = "down" /\ Down.report = NoReport
  /\ NoReport \in ReportRows
<1>1. PICK g \in Programs : g = CHOOSE h \in Programs : TRUE
  BY SandboxAssumption
<1>2. NoReport \in ReportRows
  BY DEF NoReport, ReportRows
<1>3. Idle = [at |-> "idle", box |-> 0, program |-> g, report |-> NoReport]
  BY <1>1 DEF Idle
<1>4. Down = [at |-> "down", box |-> 0, program |-> g, report |-> NoReport]
  BY <1>3 DEF Down
<1>5. QED
  BY <1>2, <1>3, <1>4 DEF JudgeRows

\* A step of one worker leaves the sessions of the others alone.
LEMMA OneSession ==
  ASSUME VerdictInv, NEW w \in Judges, NEW job \in JudgeRows, judge' = [judge EXCEPT ![w] = job],
         job.at \notin {"test", "removing"} => job.report = NoReport,
         job.at = "test" => /\ job.program.compiles /\ Reported(job.program, job.report)
                            /\ ~AllTested(job.program, job.report),
         job.at = "removing" =>
           \/ Gave(job.report, "SYSTEM_ERROR")
           \/ ~job.program.compiles /\ Gave(job.report, "COMPILATION_ERROR")
           \/ /\ job.program.compiles /\ Reported(job.program, job.report)
              /\ AllTested(job.program, job.report)
  PROVE  VerdictInv'
<1>1. judge' \in [Judges -> JudgeRows] /\ judge'[w] = job
      /\ \A v \in Judges \ {w} : judge'[v] = judge[v]
  BY DEF VerdictInv
<1>2. Sound(w)'
  BY <1>1 DEF Sound
<1>3. ASSUME NEW v \in Judges \ {w}
      PROVE  Sound(v)'
  BY <1>1 DEF Sound, VerdictInv
<1>4. QED
  BY <1>1, <1>2, <1>3 DEF VerdictInv

\* A session that gives up reports an error of the sandbox, whatever it was about.
LEMMA GivesUpStep ==
  ASSUME VerdictInv, NEW w \in Judges, GivesUp(w)
  PROVE  VerdictInv'
<1>1. PICK none : none = [NoReport EXCEPT !.verdict = "SYSTEM_ERROR"]
  OBVIOUS
<1>2. PICK job : job = [[judge[w] EXCEPT !.at = "removing"] EXCEPT !.report = none]
  OBVIOUS
<1>3. none \in ReportRows /\ Gave(none, "SYSTEM_ERROR")
  BY <1>1 DEF Gave, NoReport, ReportRows
<1>4. job \in JudgeRows /\ job.at = "removing" /\ job.report = none
  BY <1>2, <1>3 DEF VerdictInv, JudgeRows, InSession
<1>5. judge' = [judge EXCEPT ![w] = job]
  BY <1>1, <1>2 DEF GivesUp, VerdictInv, JudgeRows
<1>6. QED
  BY <1>3, <1>4, <1>5, OneSession

\* A session that starts, or goes on before its compilation, has nothing to report.
LEMMA EarlyStep ==
  ASSUME VerdictInv, NEW w \in Judges, StartBox(w) \/ BoxStarted(w) \/ PutSource(w)
  PROVE  VerdictInv'
<1>1. CASE StartBox(w)
  <2>1. PICK b \in Boxes, g \in Programs :
          judge' = [judge EXCEPT ![w] = [at |-> "starting", box |-> b, program |-> g,
                                         report |-> NoReport]]
    BY <1>1 DEF StartBox
  <2>2. PICK job : job = [at |-> "starting", box |-> b, program |-> g, report |-> NoReport]
    OBVIOUS
  <2>3. job \in JudgeRows /\ job.at = "starting" /\ job.report = NoReport
    BY <2>2, WithoutSession DEF JudgeRows, InSession
  <2>4. QED
    BY <2>1, <2>2, <2>3, OneSession
<1>2. ASSUME NEW stage \in {"source", "compile"}, Step(w, stage),
             judge[w].at \notin {"test", "removing"}
      PROVE  VerdictInv'
  <2>1. PICK job : job = [judge[w] EXCEPT !.at = stage]
    OBVIOUS
  <2>2. judge[w] \in JudgeRows /\ judge[w].report = NoReport
    BY <1>2 DEF VerdictInv, Sound
  <2>3. job \in JudgeRows /\ job.at = stage /\ job.report = NoReport
    BY <2>1, <2>2 DEF JudgeRows, InSession
  <2>4. judge' = [judge EXCEPT ![w] = job]
    BY <1>2, <2>1 DEF Step
  <2>5. QED
    BY <2>3, <2>4, OneSession
<1>3. CASE BoxStarted(w)
  BY <1>2, <1>3, GivesUpStep DEF BoxStarted, JudgeAt
<1>4. CASE PutSource(w)
  BY <1>2, <1>4 DEF PutSource, JudgeAt
<1>5. QED
  BY <1>1, <1>3, <1>4

\* The compilation decides whether there is anything to test.
LEMMA CompileStep ==
  ASSUME VerdictInv, NEW w \in Judges, Compile(w)
  PROVE  VerdictInv'
<1>1. PICK g \in Programs : g = judge[w].program
  BY DEF VerdictInv, JudgeRows
<1>2. PICK at \in {"test", "removing"} : at = IF g.compiles THEN "test" ELSE "removing"
  OBVIOUS
<1>3. PICK verdict \in {"ACCEPTED", "COMPILATION_ERROR"} :
        verdict = IF g.compiles THEN "ACCEPTED" ELSE "COMPILATION_ERROR"
  OBVIOUS
<1>4. judge' = [judge EXCEPT ![w].at = at, ![w].report.verdict = verdict]
  BY <1>1, <1>2, <1>3 DEF Compile
<1>5. judge[w] \in JudgeRows /\ judge[w].report = NoReport
  BY DEF Compile, JudgeAt, VerdictInv, Sound
<1>6. PICK r : r = [verdict |-> verdict, passed |-> 0, ran |-> 0]
  OBVIOUS
<1>7. r = [NoReport EXCEPT !.verdict = verdict] /\ r \in ReportRows
  BY <1>6 DEF NoReport, ReportRows
<1>8. PICK job : job = [[judge[w] EXCEPT !.at = at] EXCEPT !.report = r]
  OBVIOUS
<1>9. job \in JudgeRows /\ job.at = at /\ job.report = r /\ job.program = g
  BY <1>1, <1>5, <1>7, <1>8 DEF JudgeRows, InSession
<1>10. judge' = [judge EXCEPT ![w] = job]
  <2>1. judge[w].report = NoReport /\ DOMAIN judge[w] = {"at", "box", "program", "report"}
    BY <1>5 DEF JudgeRows
  <2>2. judge' = [judge EXCEPT ![w] = [[judge[w] EXCEPT !.at = at] EXCEPT !.report =
                                         [judge[w].report EXCEPT !.verdict = verdict]]]
    BY <1>4, <1>5 DEF VerdictInv, JudgeRows
  <2>3. QED
    BY <1>7, <1>8, <2>1, <2>2
<1>11. CASE g.compiles
  <2>1. at = "test" /\ verdict = "ACCEPTED"
    BY <1>2, <1>3, <1>11
  <2>2. Reported(g, r) /\ ~AllTested(g, r)
    BY <1>6, <2>1, NothingReported
  <2>3. QED
    BY <1>9, <1>10, <1>11, <2>1, <2>2, OneSession
<1>12. CASE ~g.compiles
  <2>1. at = "removing" /\ Gave(r, "COMPILATION_ERROR")
    BY <1>2, <1>3, <1>7, <1>12 DEF Gave
  <2>2. QED
    BY <1>9, <1>10, <1>12, <2>1, OneSession
<1>13. QED
  BY <1>11, <1>12

\* A test is run, and the session ends with the last one.
LEMMA RunTestStep ==
  ASSUME VerdictInv, NEW w \in Judges, RunTest(w)
  PROVE  VerdictInv'
<1>1. PICK g \in Programs : g = judge[w].program
  BY DEF VerdictInv, JudgeRows
<1>2. PICK old \in ReportRows : old = judge[w].report
  BY DEF VerdictInv, JudgeRows
<1>3. PICK r : r = Tested(g, old)
  OBVIOUS
<1>4. g.compiles /\ Reported(g, old) /\ ~AllTested(g, old)
  BY <1>1, <1>2 DEF RunTest, JudgeAt, VerdictInv, Sound
<1>5. r \in ReportRows /\ Reported(g, r)
  BY <1>3, <1>4, TestedReports
<1>6. PICK at \in {"test", "removing"} : at = IF AllTested(g, r) THEN "removing" ELSE "test"
  OBVIOUS
<1>7. judge' = [judge EXCEPT ![w].at = at, ![w].report = r]
  BY <1>1, <1>2, <1>3, <1>6 DEF RunTest
<1>8. PICK job : job = [[judge[w] EXCEPT !.at = at] EXCEPT !.report = r]
  OBVIOUS
<1>9. judge[w] \in JudgeRows
  BY DEF VerdictInv
<1>10. job \in JudgeRows /\ job.at = at /\ job.report = r /\ job.program = g
  BY <1>1, <1>5, <1>8, <1>9 DEF JudgeRows, InSession
<1>11. judge' = [judge EXCEPT ![w] = job]
  BY <1>7, <1>8, <1>9 DEF VerdictInv, JudgeRows
<1>12. QED
  BY <1>4, <1>5, <1>6, <1>10, <1>11, OneSession

\* The invariant holds at the beginning, and every step preserves it.
LEMMA VerdictInitInv == SandboxInit => VerdictInv
<1> SUFFICES ASSUME SandboxInit PROVE VerdictInv
  OBVIOUS
<1>1. judge \in [Judges -> {Idle, Down}]
  BY DEF SandboxInit
<1>2. judge \in [Judges -> JudgeRows]
  BY <1>1, WithoutSession
<1>3. ASSUME NEW w \in Judges
      PROVE  Sound(w)
  BY <1>1, WithoutSession DEF Sound
<1>4. QED
  BY <1>2, <1>3 DEF VerdictInv

\* Whatever happens to a container, a report stays what the tests made of it.
LEMMA VerdictNextInv == VerdictInv /\ [SandboxNext]_sandboxVars => VerdictInv'
<1> SUFFICES ASSUME VerdictInv, [SandboxNext]_sandboxVars PROVE VerdictInv'
  OBVIOUS
<1>1. CASE UNCHANGED judge
  BY <1>1 DEF VerdictInv, Sound
<1>2. ASSUME NEW w \in Judges, RemoveBox(w) \/ KillJudge(w) \/ JudgeStarts(w)
      PROVE  VerdictInv'
  <2>1. PICK job \in {Idle, Down} : judge' = [judge EXCEPT ![w] = job]
    BY <1>2 DEF RemoveBox, KillJudge, JudgeStarts
  <2>2. job \in JudgeRows /\ job.at \notin {"test", "removing"} /\ job.report = NoReport
    BY WithoutSession
  <2>3. QED
    BY <2>1, <2>2, OneSession
<1>3. ASSUME NEW w \in Judges, ExecFails(w)
      PROVE  VerdictInv'
  BY <1>3, GivesUpStep DEF ExecFails
<1>4. \/ UNCHANGED judge
      \/ \E w \in Judges :
           \/ StartBox(w) \/ BoxStarted(w) \/ PutSource(w) \/ Compile(w) \/ RunTest(w)
           \/ ExecFails(w) \/ RemoveBox(w) \/ KillJudge(w) \/ JudgeStarts(w)
  BY DEF SandboxNext, sandboxVars, StartsLate, BoxExpires, ReapContainers, SweepOne, SandboxTick
<1>5. QED
  BY <1>1, <1>2, <1>3, <1>4, EarlyStep, CompileStep, RunTestStep

\* The invariant of the reports, with crashes, timers and sweeps.
THEOREM VerdictInvariant == SandboxSpec => []VerdictInv
BY VerdictInitInv, VerdictNextInv, PTL DEF SandboxSpec

\* When all has been tested, the report is what the program deserves.
LEMMA CompleteReport ==
  ASSUME NEW g \in Programs, NEW r \in ReportRows, g.compiles, Reported(g, r), AllTested(g, r)
  PROVE  /\ r.verdict = Deserved(g)
         /\ ~g.stops => r.passed = Cardinality(Tests \ Fails(g))
<1>1. PICK c : c = Cardinality(Tests)
  OBVIOUS
<1>2. PICK o : o = OrderTests(g)
  OBVIOUS
<1>3. PICK n \in 0 .. c : n = r.ran
  BY <1>1 DEF Reported
<1>4. c \in Nat /\ o \in [1 .. c -> Tests] /\ \A t \in Tests : \E i \in 1 .. c : o[i] = t
  BY <1>1, <1>2, ThereAreTests, OrderIsOrderly
<1>5. ASSUME r.verdict = "ACCEPTED"
      PROVE  r.verdict = Deserved(g)
  <2>1. n = c /\ \A i \in 1 .. c : o[i] \notin Fails(g)
    BY <1>1, <1>2, <1>3, <1>5 DEF Reported, AllTested
  <2>2. Fails(g) = {}
    BY <1>4, <2>1 DEF Fails
  <2>3. Deserved(g) = "ACCEPTED"
    BY <2>2, Zenon DEF Deserved
  <2>4. QED
    BY <1>5, <2>3
<1>6. ASSUME r.verdict # "ACCEPTED"
      PROVE  r.verdict = Deserved(g)
  <2>1. PICK i \in 1 .. n : FailsFirst(g, i) /\ r.verdict = g.deserves[o[i]]
    BY <1>2, <1>3, <1>6 DEF Reported
  <2>2. i \in 1 .. Cardinality(Tests)
    BY <1>1, <1>4, <2>1
  <2>3. o[i] = FirstFailure(g) /\ Fails(g) # {}
    BY <1>2, <2>1, <2>2, FirstOfTheFailures
  <2>4. Deserved(g) = g.deserves[FirstFailure(g)]
    BY <2>3, Zenon DEF Deserved
  <2>5. QED
    BY <2>1, <2>3, <2>4
<1>7. ASSUME ~g.stops
      PROVE  r.passed = Cardinality(Tests \ Fails(g))
  <2>1. n = c
    BY <1>1, <1>3, <1>7 DEF AllTested
  <2>2. {o[i] : i \in 1 .. c} = Tests
    BY <1>4
  <2>3. Passing(g, c) = Tests \ Fails(g)
    BY <1>2, <2>2 DEF Passing
  <2>4. QED
    BY <1>3, <2>1, <2>3 DEF Reported
<1>8. QED
  BY <1>5, <1>6, <1>7

\* A container that is removed under a judge never becomes a verdict about the program:
\* engine.py reports what the program deserves, or a system error.
THEOREM VerdictsAreDeserved == SandboxSpec => []VerdictIsDeserved
<1>1. ASSUME VerdictInv, NEW w \in Judges, JudgeAt(w, "removing")
      PROVE  LET r == judge[w].report IN
               \/ r.verdict = "SYSTEM_ERROR"
               \/ /\ r.verdict = Deserved(judge[w].program)
                  /\ judge[w].program.compiles /\ ~judge[w].program.stops =>
                       r.passed = Cardinality(Tests \ Fails(judge[w].program))
  <2>1. PICK g \in Programs, r \in ReportRows : g = judge[w].program /\ r = judge[w].report
    BY <1>1 DEF VerdictInv, JudgeRows
  <2>2. \/ Gave(r, "SYSTEM_ERROR")
        \/ ~g.compiles /\ Gave(r, "COMPILATION_ERROR")
        \/ g.compiles /\ Reported(g, r) /\ AllTested(g, r)
    BY <1>1, <2>1 DEF VerdictInv, Sound, JudgeAt
  <2>3. CASE Gave(r, "SYSTEM_ERROR")
    BY <2>1, <2>3 DEF Gave, NoReport
  <2>4. CASE ~g.compiles /\ Gave(r, "COMPILATION_ERROR")
    BY <2>1, <2>4 DEF Gave, NoReport, Deserved
  <2>5. CASE g.compiles /\ Reported(g, r) /\ AllTested(g, r)
    BY <2>1, <2>5, CompleteReport
  <2>6. QED
    BY <2>2, <2>3, <2>4, <2>5
<1>2. VerdictInv => VerdictIsDeserved
  BY <1>1 DEF VerdictIsDeserved
<1>3. QED
  BY <1>2, VerdictInvariant, PTL

\* A container is started no earlier than it was ordered, and not after now.
Times == now <= LastTick /\ \A b \in Boxes : box[b].label <= box[b].born /\ box[b].born <= now

\* What a step makes of the times of one container.
LEMMA TimesKept ==
  ASSUME BoxesKept, Times, UNCHANGED now, NEW b \in Boxes, NEW new \in BoxRecords,
         box' = [box EXCEPT ![b] = new], new.label <= new.born, new.born <= now
  PROVE  Times'
BY BoxBecomes DEF Times

\* A container comes up with the time of that moment, and one that is gone has none.
LEMMA BoxTimes ==
  ASSUME BoxesKept, Times, UNCHANGED now, NEW b \in Boxes,
         \/ box' = [box EXCEPT ![b].at = "up", ![b].born = now]
         \/ box' = Gone(box, b)
         \/ box' = [box EXCEPT ![b].at = "late", ![b].excused = TRUE]
         \/ box' = [box EXCEPT ![b].excused = TRUE]
         \/ box' = [box EXCEPT ![b] = [at |-> "pending", born |-> now, label |-> now,
                                       excused |-> FALSE]]
  PROVE  Times'
<1>1. /\ box[b] \in BoxRecords /\ now \in Nat /\ box[b].label \in Nat /\ box[b].born \in Nat
      /\ box[b].label <= box[b].born /\ box[b].born <= now /\ DOMAIN box = Boxes
  BY DEF BoxesKept, Times, BoxRecords
<1>2. CASE box' = [box EXCEPT ![b].at = "up", ![b].born = now]
  <2>1. PICK new : new = [[box[b] EXCEPT !.at = "up"] EXCEPT !.born = now]
    OBVIOUS
  <2>2. new \in BoxRecords /\ new.label = box[b].label /\ new.born = now
    BY <1>1, <2>1 DEF BoxRecords
  <2>3. box' = [box EXCEPT ![b] = new]
    BY <1>1, <1>2, <2>1 DEF BoxRecords
  <2>4. new.label <= new.born /\ new.born <= now
    BY <1>1, <2>2
  <2>5. QED
    BY <2>2, <2>3, <2>4, TimesKept
<1>3. CASE box' = Gone(box, b)
  <2>1. PICK new : new = [NoBox EXCEPT !.at = "gone"]
    OBVIOUS
  <2>2. new \in BoxRecords /\ new.label = 0 /\ new.born = 0
    BY <2>1 DEF NoBox, BoxRecords
  <2>3. box' = [box EXCEPT ![b] = new]
    BY <1>3, <2>1 DEF Gone
  <2>4. new.label <= new.born /\ new.born <= now
    BY <1>1, <2>2
  <2>5. QED
    BY <2>2, <2>3, <2>4, TimesKept
<1>4. ASSUME NEW at \in {box[b].at, "late"},
             \/ box' = [box EXCEPT ![b].at = at, ![b].excused = TRUE]
             \/ box' = [box EXCEPT ![b].excused = TRUE] /\ at = box[b].at
      PROVE  Times'
  <2>1. PICK new : new = [[box[b] EXCEPT !.at = at] EXCEPT !.excused = TRUE]
    OBVIOUS
  <2>2. new \in BoxRecords /\ new.label = box[b].label /\ new.born = box[b].born
    BY <1>1, <1>4, <2>1 DEF BoxRecords
  <2>3. box' = [box EXCEPT ![b] = new]
    <3>1. CASE box' = [box EXCEPT ![b].at = at, ![b].excused = TRUE]
      BY <1>1, <2>1, <3>1
    <3>2. CASE box' = [box EXCEPT ![b].excused = TRUE] /\ at = box[b].at
      <4>1. [box[b] EXCEPT !.at = at] = box[b]
        BY <1>1, <3>2 DEF BoxRecords
      <4>2. QED
        BY <1>1, <2>1, <3>2, <4>1
    <3>3. QED
      BY <1>4, <3>1, <3>2
  <2>4. new.label <= new.born /\ new.born <= now
    BY <1>1, <2>2
  <2>5. QED
    BY <2>2, <2>3, <2>4, TimesKept
<1>5. CASE box' = [box EXCEPT ![b] = [at |-> "pending", born |-> now, label |-> now,
                                      excused |-> FALSE]]
  <2>1. PICK new : new = [at |-> "pending", born |-> now, label |-> now, excused |-> FALSE]
    OBVIOUS
  <2>2. new \in BoxRecords /\ new.label = now /\ new.born = now
    BY <1>1, <2>1 DEF BoxRecords
  <2>3. new.label <= new.born /\ new.born <= now
    BY <1>1, <2>2
  <2>4. QED
    BY <1>5, <2>1, <2>2, <2>3, TimesKept
<1>6. QED
  BY <1>2, <1>3, <1>4, <1>5

\* Whatever happens next, the times stay in order.
LEMMA TimesNext == BoxesInv /\ Times /\ [SandboxNext]_sandboxVars => Times'
<1> SUFFICES ASSUME BoxesInv, Times, [SandboxNext]_sandboxVars PROVE Times'
  OBVIOUS
<1>1. BoxesKept /\ DOMAIN box = Boxes /\ (\A w \in Judges : Holds(w)) /\ 0 \notin Boxes
  BY SandboxAssumption DEF BoxesInv, BoxesKept
<1>2. CASE UNCHANGED <<now, box>>
  BY <1>2 DEF Times
<1>3. ASSUME NEW w \in Judges, StartBox(w) \/ BoxStarted(w) \/ RemoveBox(w) \/ KillJudge(w)
      PROVE  Times'
  <2>1. CASE StartBox(w)
    BY <1>1, <2>1, BoxTimes DEF StartBox
  <2>2. CASE judge[w].box = 0
    BY <1>1, <1>2, <1>3, <2>1, <2>2 DEF BoxStarted, RemoveBox, KillJudge, JudgeAt, Holds, InSession
  <2>3. CASE judge[w].box # 0 /\ ~StartBox(w)
    <3>1. PICK b \in Boxes : b = judge[w].box
      BY <1>1, <2>3 DEF BoxesKept
    <3>2. /\ UNCHANGED now
          /\ \/ box' = box
             \/ box' = [box EXCEPT ![b].at = "up", ![b].born = now]
             \/ box' = Gone(box, b)
             \/ box' = [box EXCEPT ![b].at = "late", ![b].excused = TRUE]
             \/ box' = [box EXCEPT ![b].excused = TRUE]
      <4>1. CASE BoxStarted(w)
        BY <3>1, <4>1 DEF BoxStarted
      <4>2. CASE RemoveBox(w)
        BY <3>1, <4>2 DEF RemoveBox
      <4>3. CASE KillJudge(w)
        BY <3>1, <4>3, <2>3 DEF KillJudge
      <4>4. QED
        BY <1>3, <2>3, <4>1, <4>2, <4>3
    <3>3. QED
      BY <1>1, <1>2, <3>2, BoxTimes
  <2>4. QED
    BY <2>1, <2>2, <2>3
<1>4. ASSUME NEW b \in Boxes, StartsLate(b) \/ BoxExpires(b)
      PROVE  Times'
  BY <1>1, <1>4, BoxTimes DEF StartsLate, BoxExpires
<1>5. CASE SweepOne
  <2>1. UNCHANGED now /\ (box' = box \/ box' = Gone(box, Min(sweep)))
    BY <1>5 DEF SweepOne
  <2>2. CASE Min(sweep) \in Boxes
    BY <1>1, <1>2, <2>1, <2>2, BoxTimes
  <2>3. CASE Min(sweep) \notin Boxes
    <3>1. Gone(box, Min(sweep)) = box
      BY <1>1, <2>3 DEF Gone, BoxesKept
    <3>2. QED
      BY <1>2, <2>1, <3>1
  <2>4. QED
    BY <2>2, <2>3
<1>6. CASE SandboxTick
  <2>1. now < LastTick /\ now' = now + 1 /\ UNCHANGED box /\ now \in Nat /\ LastTick \in Nat
    BY <1>1, <1>6, SandboxAssumption DEF SandboxTick, BoxesKept
  <2>2. now' <= LastTick
    BY <2>1
  <2>3. ASSUME NEW b \in Boxes
        PROVE  box[b].label <= box[b].born /\ box[b].born <= now'
    <3>1. box[b].label <= box[b].born /\ box[b].born <= now /\ box[b].born \in Nat
      BY <1>1 DEF Times, BoxesKept, BoxRecords
    <3>2. QED
      BY <2>1, <3>1
  <2>4. QED
    BY <2>1, <2>2, <2>3 DEF Times
<1>7. \/ UNCHANGED <<now, box>>
      \/ \E w \in Judges : StartBox(w) \/ BoxStarted(w) \/ RemoveBox(w) \/ KillJudge(w)
      \/ (\E b \in Boxes : StartsLate(b) \/ BoxExpires(b)) \/ SweepOne \/ SandboxTick
  BY DEF SandboxNext, sandboxVars, PutSource, Compile, RunTest, ExecFails, JudgeStarts,
         ReapContainers
<1>8. QED
  BY <1>2, <1>3, <1>4, <1>5, <1>6, <1>7

\* No more tests are passed than were run.
LEMMA PassedAtMostRan ==
  ASSUME NEW g, NEW n \in 0 .. Cardinality(Tests)
  PROVE  Cardinality(Passing(g, n)) <= n
<1>1. PICK o : o = OrderTests(g)
  OBVIOUS
<1>2. PICK P : P = Passing(g, n)
  OBVIOUS
<1>3. \A t \in P : \E i \in 1 .. n : o[i] = t
  BY <1>1, <1>2 DEF Passing
<1>4. PICK f : f = [t \in P |-> CHOOSE i \in 1 .. n : o[i] = t]
  OBVIOUS
<1>5. \A t \in P : f[t] \in 1 .. n /\ o[f[t]] = t
  BY <1>3, <1>4
<1>6. f \in [P -> 1 .. n] /\ \A s, t \in P : f[s] = f[t] => s = t
  BY <1>4, <1>5
<1>7. f \in Injection(P, 1 .. n)
  BY <1>6 DEF Injection, IsInjective
<1>8. n \in Nat /\ IsFiniteSet(1 .. n) /\ Cardinality(1 .. n) = n
  <2>1. n \in Nat
    BY ThereAreTests
  <2>2. QED
    BY <2>1, FS_Interval
<1>9. Cardinality(P) <= Cardinality(1 .. n)
  BY <1>7, <1>8, FS_Injection
<1>10. QED
  BY <1>2, <1>8, <1>9

\* The containers, the sessions and their reports keep their types, and the times their order.
THEOREM SandboxTyped == SandboxSpec => []SandboxTypeOK
<1>1. SandboxInit => Times
  BY SandboxAssumption DEF SandboxInit, Times, NoBox
<1>2. SandboxSpec => []Times
  BY <1>1, TimesNext, BoxesInvariant, PTL DEF SandboxSpec
<1>3. ASSUME BoxesInv, VerdictInv, Times
      PROVE  SandboxTypeOK
  <2>1. BoxesKept
    BY <1>3 DEF BoxesInv
  <2>2. now \in 0 .. LastTick /\ sweep \subseteq Boxes
    BY <1>3, <2>1, SandboxAssumption DEF BoxesKept, Times
  <2>3. ASSUME NEW b \in Boxes
        PROVE  /\ box[b].at \in {"none", "pending", "late", "up", "gone"}
               /\ box[b].label <= box[b].born /\ box[b].born \in 0 .. now
    BY <1>3, <2>1 DEF BoxesKept, BoxRecords, Times
  <2>4. ASSUME NEW w \in Judges
        PROVE  /\ judge[w].at \in {"idle", "down"} \union InSession
               /\ judge[w].box \in Boxes \union {0} /\ judge[w].program \in Programs
               /\ judge[w].report.passed <= judge[w].report.ran
               /\ judge[w].report.ran <= Cardinality(Tests)
    <3>1. judge[w] \in JudgeRows /\ Sound(w)
      BY <1>3 DEF VerdictInv
    <3>2. PICK g \in Programs, r \in ReportRows : g = judge[w].program /\ r = judge[w].report
      BY <3>1 DEF JudgeRows
    <3>3. (r.passed = 0 /\ r.ran = 0) \/ Reported(g, r)
      BY <3>1, <3>2 DEF Sound, Gave, NoReport, JudgeRows
    <3>4. r.passed <= r.ran /\ r.ran <= Cardinality(Tests)
      <4>1. CASE r.passed = 0 /\ r.ran = 0
        BY <4>1, ThereAreTests
      <4>2. CASE Reported(g, r)
        <5>1. PICK n \in 0 .. Cardinality(Tests) : n = r.ran
          BY <4>2 DEF Reported
        <5>2. r.passed = Cardinality(Passing(g, n))
          BY <4>2, <5>1 DEF Reported
        <5>3. Cardinality(Passing(g, n)) <= n /\ n <= Cardinality(Tests)
          BY PassedAtMostRan, ThereAreTests
        <5>4. QED
          BY <5>1, <5>2, <5>3
      <4>3. QED
        BY <3>3, <4>1, <4>2
    <3>5. QED
      BY <3>1, <3>2, <3>4 DEF JudgeRows
  <2>5. QED
    BY <2>2, <2>3, <2>4 DEF SandboxTypeOK
<1>4. QED
  BY <1>2, <1>3, BoxesInvariant, VerdictInvariant, PTL

-----------------------------------------------------------------------------
(* Contests                                                                *)

\* The types: where a submission may be, the contest, the edit and the registrations.
Statuses == {"absent", "checked", "QUEUED", "COMPLETED", "FAILED"}

ContestKept ==
  /\ clock \in 0 .. MaxClock
  /\ contest \in [published : BOOLEAN, start : Starts, end : Ends,
                  problems : SUBSET ContestProblems]
  /\ edit \in {NoEdit} \union
       [at : {"checked"}, since : Nat, start : Starts, end : Ends,
        problems : SUBSET ContestProblems]
  /\ registered \subseteq Participants
  /\ DOMAIN sub = Subs
  /\ \A s \in Subs : /\ DOMAIN sub[s] = {"status", "by", "problem", "at", "verdict", "judged"}
                     /\ sub[s].status \in Statuses /\ sub[s].judged \in BOOLEAN
                     /\ sub[s].status = "COMPLETED" => sub[s].judged

\* The stored standings and the copy of each viewer, with their times.
Entries == [present : BOOLEAN, time : Nat, old : Nat]
\* The types of both.
CachesTyped == cache \in Entries /\ view \in [Viewers -> Entries] /\ overran \in BOOLEAN

\* An edit was checked before the contest began.
EditInTime == edit # NoEdit => edit.since < contest.start

\* What a viewer computed is as old as the computation at most; what is stored ends with the
\* time to live that began after it.
CacheIsFresh ==
  /\ \A v \in Viewers : view[v].present =>
       view[v].time <= clock /\ clock <= view[v].time + Delay /\ view[v].time <= view[v].old
  /\ cache.present =>
       /\ clock <= cache.time /\ cache.time <= clock + CacheTtl
       /\ cache.time <= cache.old + Delay + CacheTtl

\* All of it.
ContestInv == ContestKept /\ CachesTyped /\ EditInTime /\ CacheIsFresh

\* The smaller of two times.
LEMMA Earlier ==
  ASSUME NEW a \in Nat, NEW b \in Nat
  PROVE  Min({a, b}) \in {a, b} /\ Min({a, b}) <= a /\ Min({a, b}) <= b
<1>1. \E x \in {a, b} : \A y \in {a, b} : x <= y
  OBVIOUS
<1>2. QED
  BY <1>1 DEF Min

\* What is out of date since now is as old as before, or out of date since now.
LEMMA Ageing ==
  ASSUME NEW e \in Entries, clock \in Nat
  PROVE  /\ Aged(e) \in Entries
         /\ (Aged(e).present <=> e.present) /\ Aged(e).time = e.time
         /\ e.present => Aged(e).old \in {e.old, clock}
<1>1. CASE ~e.present
  BY <1>1 DEF Aged
<1>2. CASE e.present
  <2>1. PICK old : old = Min({e.old, clock})
    OBVIOUS
  <2>2. old \in Nat /\ old \in {e.old, clock}
    BY <2>1, Earlier DEF Entries
  <2>3. Aged(e) = [e EXCEPT !.old = old]
    BY <1>2, <2>1 DEF Aged
  <2>4. QED
    BY <2>2, <2>3 DEF Entries
<1>3. QED
  BY <1>1, <1>2

\* A change of the standings leaves computed results as fresh as they were.
LEMMA StaysFresh ==
  ASSUME ContestInv, UNCHANGED <<clock, overran>> \/ (UNCHANGED clock /\ overran' \in BOOLEAN),
         StandingsMayChange \/ UNCHANGED <<cache, view>>
  PROVE  CachesTyped' /\ CacheIsFresh'
<1> USE ContestsAssumption
<1>1. CachesTyped /\ CacheIsFresh /\ clock \in Nat
  BY DEF ContestInv, ContestKept
<1>2. CASE UNCHANGED <<cache, view>>
  BY <1>1, <1>2 DEF CachesTyped, CacheIsFresh
<1>3. CASE cache' = Aged(cache) /\ view' = [v \in Viewers |-> Aged(view[v])]
  <2>1. /\ cache' \in Entries /\ (cache'.present <=> cache.present) /\ cache'.time = cache.time
        /\ cache.present => cache'.old \in {cache.old, clock}
    BY <1>1, <1>3, Ageing DEF CachesTyped
  <2>2. ASSUME NEW v \in Viewers
        PROVE  /\ view'[v] \in Entries /\ (view'[v].present <=> view[v].present)
               /\ view'[v].time = view[v].time
               /\ view[v].present => view'[v].old \in {view[v].old, clock}
    BY <1>1, <1>3, Ageing DEF CachesTyped
  <2>3. CachesTyped'
    <3>1. view' \in [Viewers -> Entries]
      BY <1>3, <2>2
    <3>2. QED
      BY <1>1, <2>1, <3>1 DEF CachesTyped
  <2>4. ASSUME NEW v \in Viewers, view'[v].present
        PROVE  /\ view'[v].time <= clock /\ clock <= view'[v].time + Delay
               /\ view'[v].time <= view'[v].old
    BY <1>1, <2>2, <2>4 DEF CacheIsFresh
  <2>5. ASSUME cache'.present
        PROVE  /\ clock <= cache'.time /\ cache'.time <= clock + CacheTtl
               /\ cache'.time <= cache'.old + Delay + CacheTtl
    <3>1. cache.time \in Nat /\ Delay \in Nat /\ CacheTtl \in Nat
      BY <1>1 DEF CachesTyped, Entries
    <3>2. QED
      BY <1>1, <2>1, <2>5, <3>1 DEF CacheIsFresh
  <2>6. QED
    BY <2>3, <2>4, <2>5 DEF CacheIsFresh
<1>4. QED
  BY <1>2, <1>3 DEF StandingsMayChange

\* The judge's and the participants' steps leave the contest and its edit alone.
LEMMA SubmissionStep ==
  ASSUME ContestInv,
         NEW s \in Subs, \/ SubmitCheck(s) \/ SubmitInsert(s)
                         \/ JudgeEnds(s) \/ JudgeGivesUp(s) \/ OverwriteCompleted(s)
  PROVE  ContestInv'
<1> USE DEF ContestKept, Statuses
<1>1. ContestKept
  BY DEF ContestInv
<1>2. UNCHANGED <<clock, contest, edit, registered, overran>>
  BY DEF SubmitCheck, SubmitInsert, JudgeEnds, JudgeGivesUp, OverwriteCompleted
<1>3. /\ DOMAIN sub' = Subs
      /\ \A o \in Subs : /\ DOMAIN sub'[o] = {"status", "by", "problem", "at", "verdict", "judged"}
                         /\ sub'[o].status \in Statuses /\ sub'[o].judged \in BOOLEAN
                         /\ sub'[o].status = "COMPLETED" => sub'[o].judged
  <2>1. CASE SubmitCheck(s)
    <3>1. PICK new : /\ sub' = [sub EXCEPT ![s] = new] /\ new.status = "checked"
                     /\ new.judged = FALSE
                     /\ DOMAIN new = {"status", "by", "problem", "at", "verdict", "judged"}
      <4>1. PICK u \in registered, p \in contest.problems :
              sub' = [sub EXCEPT ![s] = [NoSub EXCEPT !.status = "checked", !.by = u,
                                                      !.problem = p, !.at = clock]]
        BY <2>1 DEF SubmitCheck
      <4>2. /\ [NoSub EXCEPT !.status = "checked", !.by = u, !.problem = p, !.at = clock].status
                  = "checked"
            /\ [NoSub EXCEPT !.status = "checked", !.by = u, !.problem = p, !.at = clock].judged
                  = FALSE
            /\ DOMAIN [NoSub EXCEPT !.status = "checked", !.by = u, !.problem = p, !.at = clock]
                  = {"status", "by", "problem", "at", "verdict", "judged"}
        BY DEF NoSub
      <4>3. QED
        BY <4>1, <4>2
    <3>2. QED
      BY <1>1, <3>1
  <2>2. CASE SubmitInsert(s)
    BY <1>1, <2>2 DEF SubmitInsert
  <2>3. CASE JudgeEnds(s)
    <3>1. PICK v \in ContestVerdicts :
            sub' = [sub EXCEPT ![s] = [[[sub[s] EXCEPT !.status = "COMPLETED"]
                                         EXCEPT !.verdict = v] EXCEPT !.judged = TRUE]]
      BY <1>1, <2>3 DEF JudgeEnds
    <3>2. PICK new : new = [[[sub[s] EXCEPT !.status = "COMPLETED"]
                              EXCEPT !.verdict = v] EXCEPT !.judged = TRUE]
      OBVIOUS
    <3>3. /\ DOMAIN new = {"status", "by", "problem", "at", "verdict", "judged"}
          /\ new.status = "COMPLETED" /\ new.judged = TRUE
      BY <1>1, <3>2
    <3>4. QED
      BY <1>1, <3>1, <3>2, <3>3
  <2>4. CASE JudgeGivesUp(s)
    BY <1>1, <2>4 DEF JudgeGivesUp
  <2>5. CASE OverwriteCompleted(s)
    BY <1>1, <2>5 DEF OverwriteCompleted
  <2>6. QED
    BY <2>1, <2>2, <2>3, <2>4, <2>5
<1>4. ContestKept' /\ EditInTime'
  BY <1>1, <1>2, <1>3 DEF EditInTime, ContestInv
<1>5. CachesTyped' /\ CacheIsFresh'
  BY <1>2, StaysFresh DEF SubmitCheck, SubmitInsert, JudgeEnds, JudgeGivesUp, OverwriteCompleted
<1>6. QED
  BY <1>4, <1>5 DEF ContestInv

\* Admins edit and publish, participants register.
LEMMA AdminStep ==
  ASSUME ContestInv,
         UpdateCheck \/ UpdateCommit \/ SetPublished \/ (\E u \in Participants : Register(u))
  PROVE  ContestInv'
<1> USE ContestsAssumption DEF ContestKept
<1>1. ContestKept /\ EditInTime /\ overran \in BOOLEAN
  BY DEF ContestInv, CachesTyped
<1>2. UNCHANGED <<clock, sub>> /\ overran' \in BOOLEAN
  BY <1>1 DEF UpdateCheck, UpdateCommit, SetPublished, Register
<1>3. ContestKept' /\ EditInTime'
  <2>1. CASE UpdateCheck
    <3>1. PICK a \in Starts, b \in Ends, ps \in SUBSET ContestProblems :
            edit' = [at |-> "checked", since |-> clock, start |-> a, end |-> b, problems |-> ps]
      BY <2>1 DEF UpdateCheck
    <3>2. edit'.since < contest.start
      BY <1>1, <2>1, <3>1 DEF UpdateCheck, Started
    <3>3. edit' \in [at : {"checked"}, since : Nat, start : Starts, end : Ends,
                     problems : SUBSET ContestProblems]
      BY <1>1, <3>1
    <3>4. QED
      BY <1>1, <2>1, <3>2, <3>3 DEF UpdateCheck, EditInTime
  <2>2. CASE UpdateCommit
    <3>1. edit \in [at : {"checked"}, since : Nat, start : Starts, end : Ends,
                    problems : SUBSET ContestProblems]
      BY <1>1, <2>2 DEF UpdateCommit
    <3>2. contest' = [[[contest EXCEPT !.start = edit.start] EXCEPT !.end = edit.end]
                       EXCEPT !.problems = edit.problems]
      BY <1>1, <2>2 DEF UpdateCommit
    <3>3. contest' \in [published : BOOLEAN, start : Starts, end : Ends,
                        problems : SUBSET ContestProblems]
      BY <1>1, <3>1, <3>2
    <3>4. QED
      BY <1>1, <1>2, <2>2, <3>3 DEF UpdateCommit, EditInTime
  <2>3. CASE SetPublished
    <3>1. PICK published \in BOOLEAN : contest' = [contest EXCEPT !.published = published]
      BY <1>1, <2>3 DEF SetPublished
    <3>2. /\ contest' \in [published : BOOLEAN, start : Starts, end : Ends,
                           problems : SUBSET ContestProblems]
          /\ contest'.start = contest.start
      BY <1>1, <3>1
    <3>3. QED
      BY <1>1, <2>3, <3>2 DEF SetPublished, EditInTime
  <2>4. CASE \E u \in Participants : Register(u)
    BY <1>1, <2>4 DEF Register, EditInTime
  <2>5. QED
    BY <2>1, <2>2, <2>3, <2>4
<1>4. CachesTyped' /\ CacheIsFresh'
  BY <1>2, StaysFresh DEF UpdateCheck, UpdateCommit, SetPublished, Register
<1>5. QED
  BY <1>3, <1>4 DEF ContestInv

\* Viewers compute and store, entries end, time passes.
LEMMA ViewStep ==
  ASSUME ContestInv,
         \/ \E v \in Viewers : ComputeStandings(v) \/ StoreStandings(v)
         \/ DropStandings \/ ContestTick
  PROVE  ContestInv'
<1> USE ContestsAssumption DEF NoStandings, Never
<1>1. ContestKept /\ EditInTime /\ CachesTyped /\ CacheIsFresh /\ clock \in Nat /\ clock <= MaxClock
  BY DEF ContestInv, ContestKept
<1>2. /\ UNCHANGED <<contest, edit, registered, sub, overran>>
      /\ clock' = clock \/ (clock' = clock + 1 /\ ContestTick)
  BY DEF ComputeStandings, StoreStandings, DropStandings, ContestTick
<1>3. ContestKept' /\ EditInTime'
  <2>1. clock' \in 0 .. MaxClock
    BY <1>1, <1>2 DEF ContestTick
  <2>2. QED
    BY <1>1, <1>2, <2>1 DEF ContestKept, EditInTime
<1>4. NoStandings \in Entries
  BY DEF Entries
<1>5. ASSUME NEW v \in Viewers, ComputeStandings(v)
      PROVE  CachesTyped' /\ CacheIsFresh'
  <2>1. PICK new : new = [present |-> TRUE, time |-> clock, old |-> MaxClock + 1]
    OBVIOUS
  <2>2. /\ new \in Entries /\ new.present /\ new.time = clock /\ new.old = MaxClock + 1
    BY <1>1, <2>1 DEF Entries
  <2>3. view' = [view EXCEPT ![v] = new] /\ UNCHANGED <<clock, cache>>
    BY <1>5, <2>1 DEF ComputeStandings
  <2>4. view' \in [Viewers -> Entries] /\ \A o \in Viewers : view'[o] \in {view[o], new}
    BY <1>1, <2>2, <2>3 DEF CachesTyped
  <2>5. ASSUME NEW o \in Viewers, view'[o].present
        PROVE  /\ view'[o].time <= clock /\ clock <= view'[o].time + Delay
               /\ view'[o].time <= view'[o].old
    BY <1>1, <2>2, <2>4, <2>5 DEF CacheIsFresh
  <2>6. QED
    BY <1>1, <1>2, <2>3, <2>4, <2>5 DEF CachesTyped, CacheIsFresh
<1>6. ASSUME NEW v \in Viewers, StoreStandings(v)
      PROVE  CachesTyped' /\ CacheIsFresh'
  <2>1. PICK new : new = [view[v] EXCEPT !.time = clock + CacheTtl]
    OBVIOUS
  <2>2. view[v] \in Entries /\ view[v].present
    BY <1>1, <1>6 DEF StoreStandings, CachesTyped
  <2>3. /\ new \in Entries /\ new.time = clock + CacheTtl /\ new.old = view[v].old
    BY <1>1, <2>1, <2>2 DEF Entries
  <2>4. /\ cache' \in {cache, new} /\ UNCHANGED clock
        /\ view' = [view EXCEPT ![v] = NoStandings]
    BY <1>6, <2>1 DEF StoreStandings
  <2>5. view' \in [Viewers -> Entries] /\ \A o \in Viewers : view'[o] \in {view[o], NoStandings}
    BY <1>1, <1>4, <2>4 DEF CachesTyped
  <2>6. /\ view[v].time \in Nat /\ view[v].old \in Nat
        /\ clock <= view[v].time + Delay /\ view[v].time <= view[v].old
    BY <1>1, <2>2 DEF CacheIsFresh, Entries
  <2>7. ASSUME cache'.present
        PROVE  /\ clock <= cache'.time /\ cache'.time <= clock + CacheTtl
               /\ cache'.time <= cache'.old + Delay + CacheTtl
    <3>1. CASE cache' = cache
      BY <1>1, <2>7, <3>1 DEF CacheIsFresh
    <3>2. CASE cache' = new
      BY <1>1, <2>3, <2>6, <3>2
    <3>3. QED
      BY <2>4, <3>1, <3>2
  <2>8. QED
    BY <1>1, <1>2, <2>3, <2>4, <2>5, <2>7 DEF CachesTyped, CacheIsFresh
<1>7. CASE DropStandings
  <2>1. UNCHANGED <<clock, view, overran>> /\ cache' \in Entries /\ ~cache'.present
    BY <1>4, <1>7 DEF DropStandings
  <2>2. CachesTyped' /\ CacheIsFresh'
    BY <1>1, <2>1 DEF CachesTyped, CacheIsFresh
  <2>3. QED
    BY <1>3, <2>2 DEF ContestInv
<1>8. CASE ContestTick
  <2>1. UNCHANGED <<cache, view>> /\ clock' = clock + 1
    BY <1>8 DEF ContestTick
  <2>2. ASSUME NEW v \in Viewers, view[v].present
        PROVE  /\ view[v].time <= clock' /\ clock' <= view[v].time + Delay
               /\ view[v].time <= view[v].old
    BY <1>1, <1>8, <2>1, <2>2 DEF ContestTick, CacheIsFresh, CachesTyped, Entries
  <2>3. ASSUME cache.present
        PROVE  /\ clock' <= cache.time /\ cache.time <= clock' + CacheTtl
               /\ cache.time <= cache.old + Delay + CacheTtl
    BY <1>1, <1>8, <2>1, <2>3 DEF ContestTick, CacheIsFresh, CachesTyped, Entries
  <2>4. CachesTyped'
    BY <1>1, <1>2, <2>1 DEF CachesTyped
  <2>5. CacheIsFresh'
    BY <2>1, <2>2, <2>3 DEF CacheIsFresh
  <2>6. QED
    BY <1>3, <2>4, <2>5 DEF ContestInv
<1>9. QED
  BY <1>3, <1>5, <1>6, <1>7, <1>8 DEF ContestInv

\* The invariant holds at the beginning, and every step preserves it.
LEMMA ContestInitInv == ContestsInit => ContestInv
<1> SUFFICES ASSUME ContestsInit
             PROVE  ContestInv
  OBVIOUS
<1>1. ContestKept /\ EditInTime
  <2>1. PICK a \in Starts, b \in Ends, ps \in SUBSET ContestProblems :
          contest = [published |-> FALSE, start |-> a, end |-> b, problems |-> ps]
    BY DEF ContestsInit
  <2>2. contest \in [published : BOOLEAN, start : Starts, end : Ends,
                     problems : SUBSET ContestProblems]
    BY <2>1
  <2>3. /\ clock \in 0 .. MaxClock /\ edit = NoEdit /\ registered \subseteq Participants
    BY ContestsAssumption DEF ContestsInit
  <2>4. /\ DOMAIN sub = Subs
        /\ \A s \in Subs : /\ DOMAIN sub[s] = {"status", "by", "problem", "at", "verdict", "judged"}
                           /\ sub[s].status \in Statuses /\ sub[s].judged \in BOOLEAN
                           /\ sub[s].status = "COMPLETED" => sub[s].judged
    BY DEF ContestsInit, NoSub, Statuses
  <2>5. QED
    BY <2>2, <2>3, <2>4 DEF ContestKept, EditInTime
<1>2. NoStandings \in Entries /\ ~NoStandings.present
  BY ContestsAssumption DEF NoStandings, Entries, Never
<1>3. CachesTyped /\ CacheIsFresh
  BY <1>2 DEF ContestsInit, CachesTyped, CacheIsFresh
<1>4. QED
  BY <1>1, <1>3 DEF ContestInv

\* Every step of a participant, a judge, an admin or a viewer keeps it.
LEMMA ContestNextInv == ContestInv /\ [ContestsNext]_contestVars => ContestInv'
<1>1. ContestInv /\ UNCHANGED contestVars => ContestInv'
  BY DEF contestVars, ContestInv, ContestKept, CachesTyped, EditInTime, CacheIsFresh
<1>2. ContestInv /\ ContestsNext => ContestInv'
  BY SubmissionStep, AdminStep, ViewStep DEF ContestsNext
<1>3. QED
  BY <1>1, <1>2

\* The invariant of a contest, its submissions and its cached standings.
THEOREM ContestInvariant == ContestsSpec => []ContestInv
BY ContestInitInv, ContestNextInv, PTL DEF ContestsSpec

\* A cached result that a newer one contradicts is gone within the cache's lifetime after the
\* change (compute_standings).
THEOREM CachedStandingsEnd == ContestsSpec => []CacheCatchesUp
<1>1. ContestInv => CacheCatchesUp
  <2> SUFFICES ASSUME ContestInv, cache.present
               PROVE  clock <= cache.old + Delay + CacheTtl
    BY DEF CacheCatchesUp
  <2>1. /\ clock <= cache.time /\ cache.time <= cache.old + Delay + CacheTtl
        /\ clock \in Nat /\ cache.time \in Nat /\ cache.old \in Nat
    BY DEF ContestInv, ContestKept, CacheIsFresh, CachesTyped, Entries
  <2>2. QED
    BY <2>1, ContestsAssumption
<1>2. QED
  BY <1>1, ContestInvariant, PTL

-----------------------------------------------------------------------------
(* Standings over time                                                     *)

\* The times and the problems of the contest.
Rules == <<contest.start, contest.end, contest.problems>>

\* What a step does to the contest: an edit is checked before the start, so that one that
\* is written later overran; everything else leaves the rules alone.
LEMMA RulesStay ==
  ASSUME ContestInv, [ContestsNext]_contestVars
  PROVE  \/ UpdateCommit /\ (Started => overran')
         \/ UNCHANGED Rules /\ ~UpdateCommit
<1> USE ContestsAssumption DEF Rules
<1>1. ContestKept /\ EditInTime
  BY DEF ContestInv
<1>2. CASE UpdateCommit
  BY <1>1, <1>2 DEF UpdateCommit, EditInTime
<1>3. CASE ~UpdateCommit
  <2>1. CASE SetPublished
    BY <1>1, <1>3, <2>1 DEF SetPublished, ContestKept
  <2>2. CASE UNCHANGED contest
    BY <1>3, <2>2
  <2>3. QED
    BY <1>3, <2>1, <2>2
    DEF ContestsNext, contestVars, UpdateCheck, Register, SubmitCheck, SubmitInsert, JudgeEnds,
        JudgeGivesUp, OverwriteCompleted, ComputeStandings, StoreStandings, DropStandings,
        ContestTick
<1>4. QED
  BY <1>2, <1>3

\* A submission changes until it is completed; it is completed by the judge only, once, and
\* keeps the time it was made at.  After that it may only be overwritten as failed.
LEMMA SubsMove ==
  ASSUME ContestInv, [ContestsNext]_contestVars, NEW s \in Subs
  PROVE  \/ sub'[s] = sub[s]
         \/ sub[s].status # "COMPLETED" /\ sub'[s].status # "COMPLETED"
         \/ /\ sub[s].status \in {"QUEUED", "FAILED"} /\ ~sub[s].judged
            /\ sub'[s].at = sub[s].at
         \/ sub[s].status = "COMPLETED" /\ sub'[s].status # "COMPLETED"
<1>1. ContestKept
  BY DEF ContestInv
<1>2. ASSUME NEW o \in Subs, SubmitCheck(o) \/ SubmitInsert(o)
      PROVE  \/ sub'[s] = sub[s]
             \/ sub[s].status # "COMPLETED" /\ sub'[s].status # "COMPLETED"
  <2>1. CASE o # s
    BY <1>1, <1>2, <2>1 DEF SubmitCheck, SubmitInsert, ContestKept
  <2>2. CASE o = s /\ SubmitCheck(s)
    <3>1. PICK u \in registered, p \in contest.problems :
            sub' = [sub EXCEPT ![s] = [NoSub EXCEPT !.status = "checked", !.by = u,
                                                    !.problem = p, !.at = clock]]
      BY <2>2 DEF SubmitCheck
    <3>2. [NoSub EXCEPT !.status = "checked", !.by = u, !.problem = p, !.at = clock].status
            = "checked"
      BY DEF NoSub
    <3>3. QED
      BY <1>1, <2>2, <3>1, <3>2 DEF SubmitCheck, ContestKept
  <2>3. CASE o = s /\ SubmitInsert(s)
    <3>1. sub'[s].status = "QUEUED"
      BY <1>1, <2>3 DEF SubmitInsert, ContestKept
    <3>2. QED
      BY <2>3, <3>1 DEF SubmitInsert
  <2>4. QED
    BY <1>2, <2>1, <2>2, <2>3
<1>3. ASSUME NEW o \in Subs, JudgeEnds(o)
      PROVE  \/ sub'[s] = sub[s]
             \/ /\ sub[s].status \in {"QUEUED", "FAILED"} /\ ~sub[s].judged
                /\ sub'[s].at = sub[s].at
  BY <1>1, <1>3 DEF JudgeEnds, ContestKept
<1>4. ASSUME NEW o \in Subs, JudgeGivesUp(o) \/ OverwriteCompleted(o)
      PROVE  \/ sub'[s] = sub[s]
             \/ sub'[s].status # "COMPLETED"
  BY <1>1, <1>4 DEF JudgeGivesUp, OverwriteCompleted, ContestKept
<1>5. CASE UNCHANGED sub
  BY <1>5
<1>6. QED
  BY <1>2, <1>3, <1>4, <1>5
  DEF ContestsNext, contestVars, UpdateCheck, UpdateCommit, SetPublished, Register,
      ComputeStandings, StoreStandings, DropStandings, ContestTick

\* What somebody has solved.
Solved(u) == {p \in contest.problems : Accepted(Scored(u, p)) # {}}

\* Points are never lost, whatever is judged late or edited (compute_standings), unless a lost
\* reply closes a completed submission as failed.
THEOREM PointsAreKept == ContestsSpec => PointsNeverDrop
<1> DEFINE Keeps(u) == u \in registered' /\ PointsOf(u) <= PointsOf(u)'
<1>1. ASSUME ContestInv, [ContestsNext]_contestVars, Started, ~overran', NothingOverwritten,
             NEW u \in registered
      PROVE  Keeps(u)
  <2>1. UNCHANGED Rules /\ ~UpdateCommit
    BY <1>1, RulesStay
  <2>2. registered \subseteq registered'
    BY <1>1, <2>1
    DEF ContestsNext, contestVars, UpdateCheck, SetPublished, Register, SubmitCheck, SubmitInsert,
        JudgeEnds, JudgeGivesUp, OverwriteCompleted, ComputeStandings, StoreStandings,
        DropStandings, ContestTick
  <2>3. ASSUME NEW p
        PROVE  Accepted(Scored(u, p)) \subseteq Accepted(Scored(u, p))'
    <3>1. \A s \in Subs : sub[s].status = "COMPLETED" => sub'[s] = sub[s]
      BY <1>1, SubsMove DEF NothingOverwritten
    <3>2. QED
      BY <2>1, <3>1 DEF Accepted, Scored, Rules
  <2>4. Solved(u) \subseteq Solved(u)'
    BY <2>1, <2>3 DEF Solved, Rules
  <2>5. IsFiniteSet(Solved(u)')
    <3>1. Solved(u)' \subseteq ContestProblems
      BY <1>1, <2>1 DEF Solved, Rules, ContestInv, ContestKept
    <3>2. QED
      BY <3>1, FS_Subset, ContestsAssumption
  <2>6. /\ Cardinality(Solved(u)) \in Nat /\ Cardinality(Solved(u)') \in Nat
        /\ Cardinality(Solved(u)) <= Cardinality(Solved(u)')
    BY <2>4, <2>5, FS_Subset, FS_CardinalityType
  <2>7. ASSUME NEW a \in Nat, NEW b \in Nat, a <= b
        PROVE  Points * a <= Points * b
    <3>1. Points \in Nat /\ b - a \in Nat /\ Points * (b - a) \in Nat
      BY <2>7, ContestsAssumption
    <3>2. Points * b = Points * a + Points * (b - a)
      BY <3>1
    <3>3. Points * a \in Nat /\ Points * b \in Nat
      BY <3>1
    <3>4. QED
      BY <3>1, <3>2, <3>3
  <2>8. /\ PointsOf(u) = Points * Cardinality(Solved(u))
        /\ PointsOf(u)' = Points * Cardinality(Solved(u)')
    BY DEF PointsOf, Solved
  <2>9. QED
    BY <1>1, <2>2, <2>6, <2>7, <2>8
<1>2. ASSUME ContestInv, [ContestsNext]_contestVars
      PROVE  Started /\ ~overran' /\ NothingOverwritten => \A u \in registered : Keeps(u)
  BY <1>1, <1>2
<1>3. QED
  BY <1>2, ContestInvariant, PTL DEF ContestsSpec, PointsNeverDrop

\* A row depends on its points and cells, ...
LEMMA SameRow ==
  ASSUME NEW u, PointsOf(u)' = PointsOf(u),
         {Cell(u, p) : p \in contest.problems}' = {Cell(u, p) : p \in contest.problems}
  PROVE  StandingsRow(u)' = StandingsRow(u)
BY Zenon DEF StandingsRow, MapThenSumSet, MapThenFoldSet, Max

\* ... and those on what counts for them.
LEMMA SameCells ==
  ASSUME NEW u, UNCHANGED Rules, Subs \subseteq Nat,
         \A p : Scored(u, p)' = Scored(u, p) /\ \A s \in Scored(u, p) : sub'[s] = sub[s]
  PROVE  StandingsRow(u)' = StandingsRow(u)
<1>1. /\ contest'.start = contest.start /\ contest'.problems = contest.problems
  BY DEF Rules
<1>2. ASSUME NEW p
      PROVE  /\ Accepted(Scored(u, p))' = Accepted(Scored(u, p))
             /\ \A T \in SUBSET Scored(u, p) : {s \in T : sub'[s].verdict \notin NotAnAttempt} =
                                               {s \in T : sub[s].verdict \notin NotAnAttempt}
             /\ Scored(u, p) \subseteq Nat
  <2>1. Scored(u, p)' = Scored(u, p) /\ \A s \in Scored(u, p) : sub'[s] = sub[s]
    OBVIOUS
  <2>2. QED
    BY <2>1 DEF Accepted, Scored
<1>3. ASSUME NEW p
      PROVE  Cell(u, p)' = Cell(u, p)
  <2>1. PICK tries : tries = Scored(u, p)
    OBVIOUS
  <2>2. PICK right : right = Accepted(tries)
    OBVIOUS
  <2>3. PICK first : first = Min(right)
    OBVIOUS
  <2>4. PICK early : early = {s \in tries : s < first}
    OBVIOUS
  <2>5. /\ Scored(u, p)' = tries /\ Accepted(tries)' = right
        /\ Counting(tries)' = Counting(tries) /\ Counting(early)' = Counting(early)
    BY <1>2, <2>1, <2>2, <2>4 DEF Counting, Accepted
  <2>6. right # {} => sub'[first] = sub[first]
    <3>1. right \subseteq tries
      BY <2>2 DEF Accepted
    <3>2. right # {} => first \in right
      BY <1>2, <2>1, <2>3, <3>1, Least
    <3>3. QED
      BY <2>1, <3>1, <3>2
  <2>7. QED
    BY <1>1, <2>1, <2>2, <2>3, <2>4, <2>5, <2>6 DEF Cell
<1>4. {Cell(u, p) : p \in contest.problems}' = {Cell(u, p) : p \in contest.problems}
  BY <1>1, <1>3
<1>5. PointsOf(u)' = PointsOf(u)
  <2>1. \A p : Accepted(Scored(u, p))' = Accepted(Scored(u, p))
    BY <1>2
  <2>2. {p \in contest.problems : Accepted(Scored(u, p)) # {}}' =
          {p \in contest.problems : Accepted(Scored(u, p)) # {}}
    BY <1>1, <2>1
  <2>3. QED
    BY <2>2 DEF PointsOf
<1>6. QED
  BY <1>4, <1>5, SameRow

\* When the contest is over and all that was made in time is judged, the standings are final,
\* unless a lost reply closes a completed submission as failed.
THEOREM StandingsAreFinal == ContestsSpec => StandingsSettle
<1>1. ASSUME ContestInv, [ContestsNext]_contestVars, ContestOver, edit = NoEdit,
             registered' = registered, NothingOverwritten,
             \A s \in Subs : sub[s].at <= contest.end /\ sub[s].status \in {"QUEUED", "FAILED"} =>
               sub[s].judged
      PROVE  Standings' = Standings
  <2>1. UNCHANGED Rules
    BY <1>1, RulesStay DEF UpdateCommit
  <2>2. ASSUME NEW u, NEW p
        PROVE  /\ Scored(u, p)' = Scored(u, p)
               /\ \A s \in Scored(u, p) : sub'[s] = sub[s]
    <3>1. ASSUME NEW s \in Subs
          PROVE  \/ sub'[s] = sub[s]
                 \/ sub[s].status # "COMPLETED" /\ sub'[s].status # "COMPLETED"
                 \/ /\ sub[s].at \notin contest.start .. contest.end
                    /\ sub'[s].at \notin contest.start .. contest.end
      <4>1. contest.start \in Nat /\ contest.end \in Nat
        BY <1>1, ContestsAssumption DEF ContestInv, ContestKept
      <4>2. CASE /\ sub[s].status \in {"QUEUED", "FAILED"} /\ ~sub[s].judged
                 /\ sub'[s].at = sub[s].at
        BY <1>1, <4>1, <4>2
      <4>3. QED
        BY <1>1, <4>2, SubsMove DEF NothingOverwritten
    <3>2. contest'.start = contest.start /\ contest'.end = contest.end
      BY <2>1 DEF Rules
    <3>3. QED
      BY <3>1, <3>2 DEF Scored
  <2>3. \A u : StandingsRow(u)' = StandingsRow(u)
    BY <2>1, <2>2, SameCells, ContestsAssumption
  <2>4. Rows' = Rows
    BY <1>1, <2>3 DEF Rows
  <2>5. QED
    BY <2>4 DEF Standings
<1>2. ASSUME ContestInv, [ContestsNext]_contestVars
      PROVE  /\ NothingOverwritten
             /\ ContestOver /\ edit = NoEdit /\ registered' = registered
             /\ \A s \in Subs :
                  sub[s].at <= contest.end /\ sub[s].status \in {"QUEUED", "FAILED"} =>
                    sub[s].judged
             => Standings' = Standings
  BY <1>1, <1>2
<1>3. QED
  BY <1>2, ContestInvariant, PTL DEF ContestsSpec, StandingsSettle

-----------------------------------------------------------------------------
(* The assistant                                                           *)

\* The types; only a conversation that is open has messages.
AssistantKept ==
  /\ conversation \in [Conversations -> {"absent", "open", "deleted"}]
  /\ messages \in [Conversations -> SUBSET (Asks \X {"user", "assistant"})]
  /\ \A c \in Conversations : conversation[c] # "open" => messages[c] = {}
  /\ usage \subseteq Asks
  /\ ask \in [Asks -> [at : {"new"} \union Busy \union Over, c : Conversations \union {None},
                       text : BOOLEAN, failed : BOOLEAN]]

\* A request works on a conversation that was there when it began.
Begun(r) ==
  /\ ask[r].c # None => conversation[ask[r].c] # "absent"
  /\ ask[r].at \in {"new", "counted"} => ask[r].c = None /\ ~ask[r].text
  /\ ask[r].at \in {"loaded", "staged"} => ask[r].c # None /\ ~ask[r].text

\* A request that is over was metered, with its answer kept, unless its conversation is gone.
Metered(r) ==
  ask[r].at \in {"done", "lost"} =>
    \/ /\ r \in usage
       /\ ask[r].text /\ ask[r].c \in Stored => <<r, "assistant">> \in messages[ask[r].c]
    \/ ask[r].c # None /\ conversation[ask[r].c] = "deleted"

\* All of it, for every request.
AssistantInv == AssistantKept /\ \A r \in Asks : Begun(r) /\ Metered(r)

\* What every step leaves to a request: conversations only go from absent to open to deleted,
\* the messages of one that stays open stay, and so do usage rows.
Onward ==
  /\ usage \subseteq usage'
  /\ \A c \in Conversations :
       \/ conversation'[c] = conversation[c] /\ messages[c] \subseteq messages'[c]
       \/ conversation[c] = "absent" /\ conversation'[c] = "open"
       \/ conversation[c] = "open" /\ conversation'[c] = "deleted"

\* A request that does not move, or that moves without being over, stays metered.
LEMMA AskKept ==
  ASSUME AssistantInv, AssistantKept', Onward
  PROVE  \A r \in Asks :
           /\ ask'[r].c = ask[r].c => (ask'[r].c # None => conversation'[ask'[r].c] # "absent")
           /\ ask'[r] = ask[r] => Begun(r)' /\ Metered(r)'
<1> SUFFICES ASSUME NEW r \in Asks
             PROVE  /\ ask'[r].c = ask[r].c =>
                         (ask'[r].c # None => conversation'[ask'[r].c] # "absent")
                    /\ ask'[r] = ask[r] => Begun(r)' /\ Metered(r)'
  OBVIOUS
<1>1. /\ Begun(r) /\ Metered(r) /\ ask[r].c \in Conversations \union {None}
      /\ None \notin Conversations
  BY AssistantAssumption DEF AssistantInv, AssistantKept, None
<1>2. ask'[r].c = ask[r].c => (ask'[r].c # None => conversation'[ask'[r].c] # "absent")
  BY <1>1 DEF Onward, Begun
<1>3. ask'[r] = ask[r] => Begun(r)'
  BY <1>1, <1>2 DEF Begun
<1>4. ask'[r] = ask[r] => Metered(r)'
  <2>1. CASE ask[r].c = None
    BY <1>1, <2>1 DEF Metered, Stored, Onward
  <2>2. CASE ask[r].c # None
    <3>1. PICK c \in Conversations : c = ask[r].c
      BY <1>1, <2>2
    <3>2. conversation[c] # "absent"
      BY <1>1, <2>2, <3>1 DEF Begun
    <3>3. QED
      BY <1>1, <3>1, <3>2 DEF Metered, Stored, Onward
  <2>3. QED
    BY <2>1, <2>2
<1>5. QED
  BY <1>2, <1>3, <1>4

\* A request begins, or creates its conversation.
LEMMA BeginStep ==
  ASSUME AssistantInv, NEW r \in Asks,
         Generate(r) \/ Count(r) \/ Create(r) \/ (\E c \in Conversations : Load(r, c))
  PROVE  AssistantInv'
<1> USE DEF New, NewAsk, At, Goes, Busy, Over
<1>1. AssistantKept /\ Begun(r) /\ None \notin Conversations
  BY AssistantAssumption DEF AssistantInv, None
<1>2. ask[r].at \in {"new", "counted"} /\ ~ask[r].text /\ ask[r].c = None
  <2>1. ask[r].at \in {"new", "counted"}
    <3>1. ask[r] = NewAsk \/ ask[r].at = "counted"
      BY DEF Generate, Count, Create, Load
    <3>2. QED
      BY <3>1
  <2>2. QED
    BY <1>1, <2>1 DEF Begun
<1>3. PICK at \in {"streaming", "counted", "refused", "staged", "loaded"},
           c \in Conversations \union {None} :
        /\ ask' = [ask EXCEPT ![r] = [[ask[r] EXCEPT !.at = at] EXCEPT !.c = c]]
        /\ at \in {"loaded", "staged"} => c # None
        /\ at = "counted" => c = None
        /\ c # None => conversation'[c] # "absent"
  <2>1. CASE Generate(r) \/ Count(r)
    <3>1. \E at \in {"streaming", "counted", "refused"} : ask' = [ask EXCEPT ![r].at = at]
      BY <2>1 DEF Generate, Count
    <3>2. PICK at \in {"streaming", "counted", "refused"} : ask' = [ask EXCEPT ![r].at = at]
      BY <3>1
    <3>3. ask' = [ask EXCEPT ![r] = [[ask[r] EXCEPT !.at = at] EXCEPT !.c = None]]
      BY <1>1, <1>2, <3>2 DEF AssistantKept
    <3>4. QED
      BY <3>3
  <2>2. CASE Create(r)
    <3>1. PICK c \in Conversations :
            /\ conversation' = [conversation EXCEPT ![c] = "open"]
            /\ ask' = [ask EXCEPT ![r].at = "staged", ![r].c = c]
      BY <2>2 DEF Create
    <3>2. ask' = [ask EXCEPT ![r] = [[ask[r] EXCEPT !.at = "staged"] EXCEPT !.c = c]]
      BY <1>1, <3>1 DEF AssistantKept
    <3>3. QED
      BY <1>1, <3>1, <3>2 DEF AssistantKept
  <2>3. CASE \E c \in Conversations : Load(r, c)
    <3>1. PICK c \in Conversations, at \in {"loaded", "refused"} :
            /\ conversation[c] = "open" /\ conversation' = conversation
            /\ ask' = [ask EXCEPT ![r].c = c, ![r].at = at]
      BY <2>3 DEF Load
    <3>2. ask' = [ask EXCEPT ![r] = [[ask[r] EXCEPT !.at = at] EXCEPT !.c = c]]
      BY <1>1, <3>1 DEF AssistantKept
    <3>3. QED
      BY <1>1, <3>1, <3>2
  <2>4. QED
    BY <2>1, <2>2, <2>3
<1>4. /\ ask' \in [Asks -> [at : {"new"} \union Busy \union Over,
                            c : Conversations \union {None}, text : BOOLEAN, failed : BOOLEAN]]
      /\ ask'[r].at = at /\ ask'[r].c = c /\ ~ask'[r].text
      /\ \A o \in Asks \ {r} : ask'[o] = ask[o]
  BY <1>1, <1>2, <1>3, ZenonT(60) DEF AssistantKept
<1>5. \/ UNCHANGED <<conversation, messages, usage>>
      \/ /\ UNCHANGED usage
         /\ \E d \in Conversations :
              /\ conversation[d] = "absent"
              /\ conversation' = [conversation EXCEPT ![d] = "open"]
              /\ messages' = [messages EXCEPT ![d] = {<<r, "user">>}]
  BY DEF Generate, Count, Create, Load
<1>6. AssistantKept' /\ Onward
  <2>1. CASE UNCHANGED <<conversation, messages, usage>>
    BY <1>1, <1>4, <2>1 DEF AssistantKept, Onward
  <2>2. CASE ~(UNCHANGED <<conversation, messages, usage>>)
    <3>1. PICK d \in Conversations :
            /\ conversation[d] = "absent" /\ UNCHANGED usage
            /\ conversation' = [conversation EXCEPT ![d] = "open"]
            /\ messages' = [messages EXCEPT ![d] = {<<r, "user">>}]
      BY <1>5, <2>2
    <3>2. {<<r, "user">>} \in SUBSET (Asks \X {"user", "assistant"})
      OBVIOUS
    <3>3. messages[d] = {}
      BY <1>1, <3>1 DEF AssistantKept
    <3>4. QED
      BY <1>1, <1>4, <3>1, <3>2, <3>3 DEF AssistantKept, Onward
  <2>3. QED
    BY <2>1, <2>2
<1>7. Begun(r)' /\ Metered(r)'
  BY <1>3, <1>4 DEF Begun, Metered
<1>8. QED
  BY <1>4, <1>6, <1>7, AskKept DEF AssistantInv

\* A request goes on with the conversation that it has: nothing is over before Persist.
LEMMA ReplyStep ==
  ASSUME AssistantInv, NEW r \in Asks,
         Stage(r) \/ LeaveEarly(r) \/ CallModel(r) \/ Token(r) \/ ModelEnds(r) \/ Stop(r)
  PROVE  AssistantInv'
<1> USE DEF At, Goes, Busy, Over
<1>1. AssistantKept /\ Begun(r) /\ None \notin Conversations
  BY AssistantAssumption DEF AssistantInv, None
<1>2. PICK at \in {"staged", "refused", "gone", "streaming", "ended"},
           text \in BOOLEAN, failed \in BOOLEAN :
        /\ ask' = [ask EXCEPT ![r] = [[[ask[r] EXCEPT !.at = at] EXCEPT !.text = text]
                                        EXCEPT !.failed = failed]]
        /\ at = "staged" => ask[r].c # None /\ ~text
  <2>1. CASE Stage(r) \/ LeaveEarly(r) \/ CallModel(r) \/ Stop(r)
    <3>1. PICK at \in {"staged", "refused", "gone", "streaming", "ended"} :
            /\ ask' = [ask EXCEPT ![r].at = at]
            /\ at = "staged" => Stage(r)
      BY <2>1 DEF Stage, LeaveEarly, CallModel, Stop
    <3>2. ask[r].text \in BOOLEAN /\ ask[r].failed \in BOOLEAN
      BY <1>1 DEF AssistantKept
    <3>3. ask' = [ask EXCEPT ![r] = [[[ask[r] EXCEPT !.at = at] EXCEPT !.text = ask[r].text]
                                        EXCEPT !.failed = ask[r].failed]]
      BY <1>1, <3>1 DEF AssistantKept
    <3>4. at = "staged" => ask[r].c # None /\ ~ask[r].text
      BY <1>1, <3>1 DEF Stage, Begun
    <3>5. QED
      BY <3>2, <3>3, <3>4
  <2>2. CASE Token(r)
    <3>1. ask' = [ask EXCEPT ![r].text = TRUE] /\ ask[r].at = "streaming"
      BY <2>2 DEF Token
    <3>2. ask' = [ask EXCEPT ![r] = [[[ask[r] EXCEPT !.at = "streaming"] EXCEPT !.text = TRUE]
                                        EXCEPT !.failed = ask[r].failed]]
      BY <1>1, <3>1 DEF AssistantKept
    <3>3. ask[r].failed \in BOOLEAN
      BY <1>1 DEF AssistantKept
    <3>4. QED
      BY <3>2, <3>3
  <2>3. CASE ModelEnds(r)
    <3>1. PICK f \in BOOLEAN : ask' = [ask EXCEPT ![r].at = "ended", ![r].failed = f]
      BY <2>3 DEF ModelEnds
    <3>2. ask' = [ask EXCEPT ![r] = [[[ask[r] EXCEPT !.at = "ended"] EXCEPT !.text = ask[r].text]
                                        EXCEPT !.failed = f]]
      BY <1>1, <3>1 DEF AssistantKept
    <3>3. ask[r].text \in BOOLEAN
      BY <1>1 DEF AssistantKept
    <3>4. QED
      BY <3>2, <3>3
  <2>4. QED
    BY <2>1, <2>2, <2>3
<1>3. /\ ask' \in [Asks -> [at : {"new"} \union Busy \union Over,
                            c : Conversations \union {None}, text : BOOLEAN, failed : BOOLEAN]]
      /\ ask'[r].at = at /\ ask'[r].c = ask[r].c /\ (ask'[r].text <=> text)
      /\ \A o \in Asks \ {r} : ask'[o] = ask[o]
  BY <1>1, <1>2, ZenonT(60) DEF AssistantKept
<1>4. /\ UNCHANGED <<conversation, usage>>
      /\ \/ UNCHANGED messages
         \/ \E c \in Conversations :
              /\ conversation[c] = "open"
              /\ messages' = [messages EXCEPT ![c] = messages[c] \union {<<r, "user">>}]
  <2>1. CASE Stage(r)
    <3>1. ask[r].c # None /\ ask[r].c \in Conversations
      BY <1>1, <2>1 DEF Stage, Begun, AssistantKept
    <3>2. QED
      BY <2>1, <3>1 DEF Stage, Inserted
  <2>2. CASE ~Stage(r)
    BY <2>2 DEF LeaveEarly, CallModel, Token, ModelEnds, Stop
  <2>3. QED
    BY <2>1, <2>2
<1>5. AssistantKept' /\ Onward
  <2>1. CASE UNCHANGED messages
    BY <1>1, <1>3, <1>4, <2>1 DEF AssistantKept, Onward
  <2>2. CASE ~(UNCHANGED messages)
    <3>1. PICK c \in Conversations :
            /\ conversation[c] = "open"
            /\ messages' = [messages EXCEPT ![c] = messages[c] \union {<<r, "user">>}]
      BY <1>4, <2>2
    <3>2. messages[c] \union {<<r, "user">>} \in SUBSET (Asks \X {"user", "assistant"})
      BY <1>1 DEF AssistantKept
    <3>3. QED
      BY <1>1, <1>3, <1>4, <3>1, <3>2 DEF AssistantKept, Onward
  <2>3. QED
    BY <2>1, <2>2
<1>6. Begun(r)' /\ Metered(r)'
  <2>1. ask'[r].c # None => conversation'[ask'[r].c] # "absent"
    BY <1>3, <1>5, AskKept
  <2>2. QED
    BY <1>2, <1>3, <2>1 DEF Begun, Metered
<1>7. QED
  BY <1>3, <1>5, <1>6, AskKept DEF AssistantInv

\* The reply and its usage row are stored together, or the conversation is gone.
LEMMA PersistStep ==
  ASSUME AssistantInv, NEW r \in Asks, Persist(r)
  PROVE  AssistantInv'
<1> USE DEF At, Goes, Busy, Over
<1>1. AssistantKept /\ Begun(r) /\ None \notin Conversations
  BY AssistantAssumption DEF AssistantInv, None
<1>2. PICK c \in Conversations \union {None} : c = ask[r].c
  BY <1>1 DEF AssistantKept
<1>3. PICK at \in {"done", "lost"} :
        /\ ask' = [ask EXCEPT ![r].at = at]
        /\ at = "done" <=> Inserted(c)
  BY <1>2 DEF Persist
<1>4. /\ ask' \in [Asks -> [at : {"new"} \union Busy \union Over,
                            c : Conversations \union {None}, text : BOOLEAN, failed : BOOLEAN]]
      /\ ask'[r].at = at /\ ask'[r].c = c /\ ask'[r].text = ask[r].text
      /\ \A o \in Asks \ {r} : ask'[o] = ask[o]
  BY <1>1, <1>2, <1>3 DEF AssistantKept
<1>5. CASE Inserted(c)
  <2>1. /\ usage' = usage \union {r} /\ UNCHANGED conversation
        /\ c = None \/ conversation[c] = "open"
        /\ IF c # None /\ ask[r].text
           THEN messages' = [messages EXCEPT ![c] = messages[c] \union {<<r, "assistant">>}]
           ELSE messages' = messages
    BY <1>2, <1>5 DEF Persist, Inserted
  <2>2. CASE c # None /\ ask[r].text
    <3>1. /\ messages[c] \union {<<r, "assistant">>} \in SUBSET (Asks \X {"user", "assistant"})
          /\ c \in Conversations
      BY <1>1, <2>2 DEF AssistantKept
    <3>2. AssistantKept' /\ Onward
      BY <1>1, <1>4, <2>1, <2>2, <3>1 DEF AssistantKept, Onward
    <3>3. r \in usage' /\ <<r, "assistant">> \in messages'[c]
      BY <1>1, <2>1, <2>2, <3>1 DEF AssistantKept
    <3>4. Begun(r)' /\ Metered(r)'
      BY <1>1, <1>2, <1>4, <2>1, <3>3 DEF Begun, Metered, AssistantKept
    <3>5. QED
      BY <1>4, <3>2, <3>4, AskKept DEF AssistantInv
  <2>3. CASE ~(c # None /\ ask[r].text)
    <3>1. AssistantKept' /\ Onward
      BY <1>1, <1>4, <2>1, <2>3 DEF AssistantKept, Onward
    <3>2. Begun(r)' /\ Metered(r)'
      BY <1>1, <1>2, <1>4, <2>1, <2>3 DEF Begun, Metered, AssistantKept, Stored
    <3>3. QED
      BY <1>4, <3>1, <3>2, AskKept DEF AssistantInv
  <2>4. QED
    BY <2>2, <2>3
<1>6. CASE ~Inserted(c)
  <2>1. UNCHANGED <<conversation, messages, usage>> /\ c # None /\ conversation[c] # "open"
    BY <1>2, <1>6 DEF Persist, Inserted
  <2>2. conversation[c] = "deleted"
    BY <1>1, <1>2, <2>1 DEF Begun, AssistantKept
  <2>3. AssistantKept' /\ Onward
    BY <1>1, <1>4, <2>1 DEF AssistantKept, Onward
  <2>4. Begun(r)' /\ Metered(r)'
    BY <1>4, <2>1, <2>2 DEF Begun, Metered
  <2>5. QED
    BY <1>4, <2>3, <2>4, AskKept DEF AssistantInv
<1>7. QED
  BY <1>5, <1>6

\* A conversation is deleted, or the server stops.
LEMMA DeleteStep ==
  ASSUME AssistantInv, NEW c \in Conversations, Delete(c)
  PROVE  AssistantInv'
<1>1. AssistantKept
  BY DEF AssistantInv
<1>2. AssistantKept' /\ Onward /\ UNCHANGED ask
  BY <1>1 DEF Delete, AssistantKept, Onward
<1>3. QED
  BY <1>2, AskKept DEF AssistantInv

\* The process ends: what is not committed is gone.
LEMMA CrashStep ==
  ASSUME AssistantInv, Crash
  PROVE  AssistantInv'
<1>1. AssistantKept
  BY DEF AssistantInv
<1>2. /\ UNCHANGED <<conversation, messages, usage>>
      /\ ask' = [r \in Asks |-> IF ask[r].at \in Busy THEN [ask[r] EXCEPT !.at = "crashed"]
                                                      ELSE ask[r]]
  BY DEF Crash
<1>3. ASSUME NEW r \in Asks
      PROVE  /\ ask'[r] \in [at : {"new"} \union Busy \union Over,
                             c : Conversations \union {None}, text : BOOLEAN, failed : BOOLEAN]
             /\ \/ ask'[r] = ask[r]
                \/ ask'[r].at = "crashed" /\ ask'[r].c = ask[r].c
  BY <1>1, <1>2 DEF AssistantKept, Over
<1>4. AssistantKept' /\ Onward
  <2>1. ask' \in [Asks -> [at : {"new"} \union Busy \union Over,
                           c : Conversations \union {None}, text : BOOLEAN, failed : BOOLEAN]]
    BY <1>2, <1>3
  <2>2. QED
    BY <1>1, <1>2, <2>1 DEF AssistantKept, Onward
<1>5. ASSUME NEW r \in Asks
      PROVE  Begun(r)' /\ Metered(r)'
  <2>1. CASE ask'[r] = ask[r]
    BY <1>4, <2>1, AskKept
  <2>2. CASE ask'[r].at = "crashed" /\ ask'[r].c = ask[r].c
    BY <1>4, <2>2, AskKept DEF Begun, Metered
  <2>3. QED
    BY <1>3, <2>1, <2>2
<1>6. QED
  BY <1>4, <1>5 DEF AssistantInv

\* The invariant holds at the beginning, and every step preserves it.
LEMMA AssistantInitInv == AssistantInit => AssistantInv
BY AssistantAssumption
DEF AssistantInit, AssistantInv, AssistantKept, Begun, Metered, NewAsk, Busy, Over, None

\* Whatever a request, a deletion or a crash does next, the invariant stays.
LEMMA AssistantNextInv == AssistantInv /\ [AssistantNext]_assistantVars => AssistantInv'
<1>1. AssistantInv /\ UNCHANGED assistantVars => AssistantInv'
  BY DEF assistantVars, AssistantInv, AssistantKept, Begun, Metered, Stored
<1>2. AssistantInv /\ AssistantNext => AssistantInv'
  BY BeginStep, ReplyStep, PersistStep, DeleteStep, CrashStep DEF AssistantNext
<1>3. QED
  BY <1>1, <1>2

\* The invariant of generations, streams, conversations and usage rows.
THEOREM AssistantInvariant == AssistantSpec => []AssistantInv
BY AssistantInitInv, AssistantNextInv, PTL DEF AssistantSpec

\* Requests, conversations and usage rows keep their types.
THEOREM AssistantTyped == AssistantSpec => []AssistantTypeOK
<1>1. AssistantInv => AssistantTypeOK
  BY DEF AssistantInv, AssistantKept, AssistantTypeOK
<1>2. QED
  BY <1>1, AssistantInvariant, PTL

\* A request that called the model is metered when it is over, and what was said is kept.
THEOREM UsageIsMetered == AssistantSpec => []OverIsMetered
<1>1. AssistantInv => OverIsMetered
  BY DEF AssistantInv, Metered, OverIsMetered
<1>2. QED
  BY <1>1, AssistantInvariant, PTL

-----------------------------------------------------------------------------
(* The types of a contest, and everything side by side                     *)

\* What is submitted has a known verdict, and is by somebody who is registered.
SubsTyped ==
  \A s \in Subs :
    /\ sub[s].verdict \in ContestVerdicts \union {"SYSTEM_ERROR", "NONE"}
    /\ sub[s].status # "absent" => sub[s].by \in registered

\* Nobody who is registered leaves, and a submission keeps its author.
LEMMA SubsTypedNext == ContestInv /\ SubsTyped /\ [ContestsNext]_contestVars => SubsTyped'
<1> SUFFICES ASSUME ContestInv, SubsTyped, [ContestsNext]_contestVars PROVE SubsTyped'
  OBVIOUS
<1>1. /\ DOMAIN sub = Subs
      /\ \A s \in Subs : DOMAIN sub[s] = {"status", "by", "problem", "at", "verdict", "judged"}
  BY DEF ContestInv, ContestKept
<1>2. CASE UNCHANGED sub /\ registered \subseteq registered'
  BY <1>2 DEF SubsTyped
<1>3. ASSUME NEW s \in Subs, SubmitCheck(s)
      PROVE  SubsTyped'
  <2>1. PICK u \in registered, p \in contest.problems :
          sub' = [sub EXCEPT ![s] = [NoSub EXCEPT !.status = "checked", !.by = u, !.problem = p,
                                                  !.at = clock]]
    BY <1>3 DEF SubmitCheck
  <2>2. /\ sub'[s].by = u /\ sub'[s].verdict = "NONE" /\ \A o \in Subs \ {s} : sub'[o] = sub[o]
    BY <1>1, <2>1 DEF NoSub
  <2>3. registered' = registered
    BY <1>3 DEF SubmitCheck
  <2>4. QED
    BY <2>2, <2>3 DEF SubsTyped
<1>4. ASSUME NEW s \in Subs,
             SubmitInsert(s) \/ JudgeEnds(s) \/ JudgeGivesUp(s) \/ OverwriteCompleted(s)
      PROVE  SubsTyped'
  <2>1. sub[s].status # "absent" /\ registered' = registered
    BY <1>4 DEF SubmitInsert, JudgeEnds, JudgeGivesUp, OverwriteCompleted
  <2>2. /\ sub'[s].by = sub[s].by
        /\ sub'[s].verdict \in {sub[s].verdict, "SYSTEM_ERROR"} \union ContestVerdicts
        /\ \A o \in Subs \ {s} : sub'[o] = sub[o]
    <3>1. CASE SubmitInsert(s)
      BY <1>1, <3>1 DEF SubmitInsert
    <3>2. CASE JudgeEnds(s)
      BY <1>1, <3>2 DEF JudgeEnds
    <3>3. CASE JudgeGivesUp(s) \/ OverwriteCompleted(s)
      BY <1>1, <3>3 DEF JudgeGivesUp, OverwriteCompleted
    <3>4. QED
      BY <1>4, <3>1, <3>2, <3>3
  <2>3. QED
    BY <2>1, <2>2 DEF SubsTyped
<1>5. \/ UNCHANGED sub /\ registered \subseteq registered'
      \/ \E s \in Subs : \/ SubmitCheck(s) \/ SubmitInsert(s)
                         \/ JudgeEnds(s) \/ JudgeGivesUp(s) \/ OverwriteCompleted(s)
  BY DEF ContestsNext, contestVars, UpdateCheck, UpdateCommit, SetPublished, Register,
         ComputeStandings, StoreStandings, DropStandings, ContestTick
<1>6. QED
  BY <1>2, <1>3, <1>4, <1>5

\* A contest, its registrations, submissions and cached standings keep their types.
THEOREM ContestsTyped == ContestsSpec => []ContestsTypeOK
<1>1. ContestsInit => SubsTyped
  <2>1. NoSub.verdict = "NONE" /\ NoSub.status = "absent"
    BY DEF NoSub
  <2>2. ContestsInit => sub = [s \in Subs |-> NoSub]
    BY DEF ContestsInit
  <2>3. QED
    BY <2>1, <2>2 DEF SubsTyped
<1>2. ContestsSpec => []SubsTyped
  BY <1>1, SubsTypedNext, ContestInvariant, PTL DEF ContestsSpec
<1>3. ASSUME ContestInv, SubsTyped
      PROVE  ContestsTypeOK
  <2>1. ContestKept /\ CachesTyped
    BY <1>3 DEF ContestInv
  <2>2. /\ contest.start \in Starts /\ contest.end \in Ends
        /\ contest.problems \subseteq ContestProblems /\ contest.published \in BOOLEAN
    BY <2>1 DEF ContestKept
  <2>3. edit.at \in {"none", "checked"} /\ edit.problems \subseteq ContestProblems
    <3>1. CASE edit = NoEdit
      BY <3>1 DEF NoEdit
    <3>2. CASE edit # NoEdit
      BY <2>1, <3>2 DEF ContestKept
    <3>3. QED
      BY <3>1, <3>2
  <2>4. ASSUME NEW s \in Subs
        PROVE  /\ sub[s].status \in {"absent", "checked", "QUEUED", "COMPLETED", "FAILED"}
               /\ sub[s].verdict \in ContestVerdicts \union {"SYSTEM_ERROR", "NONE"}
               /\ sub[s].status \notin {"absent", "checked"} => sub[s].by \in registered
               /\ sub[s].judged \in BOOLEAN /\ (sub[s].status = "COMPLETED" => sub[s].judged)
    BY <1>3, <2>1 DEF ContestKept, Statuses, SubsTyped
  <2>5. ASSUME NEW e \in {cache} \union {view[v] : v \in Viewers}
        PROVE  e.present \in BOOLEAN /\ {e.time, e.old} \subseteq Nat
    <3>1. e \in Entries
      BY <2>1 DEF CachesTyped
    <3>2. QED
      BY <3>1 DEF Entries
  <2>6. clock \in 0 .. MaxClock /\ registered \subseteq Participants /\ overran \in BOOLEAN
    BY <2>1 DEF ContestKept, CachesTyped
  <2>7. QED
    BY <2>2, <2>3, <2>4, <2>5, <2>6 DEF ContestsTypeOK
<1>4. QED
  BY <1>2, <1>3, ContestInvariant, PTL

\* These components share no state either: a behaviour of all of them is one of each.
THEOREM ExecutionIsItsParts ==
  ExecutionSpec => /\ Spec /\ SandboxSpec /\ SupervisorSpec /\ RunsSpec /\ ContestsSpec
                   /\ AssistantSpec /\ LiveSpec
<1>1. ExecutionInit => /\ Init /\ SandboxInit /\ SupervisorInit /\ RunsInit /\ ContestsInit
                       /\ AssistantInit /\ LiveInit
  BY DEF ExecutionInit
<1>2. [ExecutionNext]_executionVars => [Next]_vars
  BY DEF ExecutionNext, executionVars
<1>3. [ExecutionNext]_executionVars => [SandboxNext]_sandboxVars
  BY DEF ExecutionNext, executionVars
<1>4. [ExecutionNext]_executionVars => [SupervisorNext]_supervisorVars
  BY DEF ExecutionNext, executionVars
<1>5. [ExecutionNext]_executionVars => [RunsNext]_runsVars
  BY DEF ExecutionNext, executionVars
<1>6. [ExecutionNext]_executionVars => [ContestsNext]_contestVars
  BY DEF ExecutionNext, executionVars
<1>7. [ExecutionNext]_executionVars => [AssistantNext]_assistantVars
  BY DEF ExecutionNext, executionVars
<1>8. [ExecutionNext]_executionVars => [LiveNext]_liveVars
  BY DEF ExecutionNext, executionVars
<1>9. QED
  BY <1>1, <1>2, <1>3, <1>4, <1>5, <1>6, <1>7, <1>8, PTL
  DEF ExecutionSpec, Spec, SandboxSpec, SupervisorSpec, RunsSpec, ContestsSpec, AssistantSpec,
      LiveSpec

\* So whichever component is in focus keeps its types.
THEOREM ExecutionTyped == ExecutionSpec => []ExecutionTypeOK
<1>1. Spec => []TypeOK
  BY WellFormedHolds, LedgerTyped
<1>2. TypeOK /\ SandboxTypeOK /\ SupervisorTypeOK /\ RunsTypeOK /\ ContestsTypeOK
      /\ AssistantTypeOK /\ LiveTypeOK => ExecutionTypeOK
  BY DEF ExecutionTypeOK
<1>3. QED
  BY <1>1, <1>2, ExecutionIsItsParts, SandboxTyped, SupervisorTyped, RunsTypesOK, ContestsTyped,
     AssistantTyped, LiveTypesOK, PTL
=============================================================================
