--------------------------- MODULE SessionDataProofs ---------------------------
(***************************************************************************)
(* Type correctness of SessionData, and that a completed erasure has       *)
(* removed all that it found and a cancelled run does not complete; then   *)
(* what is in the stores when a run has completed that none disturbed: a   *)
(* job's outputs, or, after an erasure, only what came too late.  For any  *)
(* set of runs and any number of them at the same time.                    *)
(***************************************************************************)
EXTENDS SessionData, TLAPS

-----------------------------------------------------------------------------
(* The invariant.                                                          *)

\* What an erasure has done of its work, with f what is left of what it found.
ErasureSound(x, f) ==
    x.kind = "erasure" =>
        /\ x.status \in {"active", "completed"}
        /\ x.status = "active" /\ x.pos > 1 => "chunks" \notin f
        /\ x.status = "active" /\ x.pos = 3 => f \subseteq x.listed
        /\ x.status = "active" /\ x.pos = 4 => f = {}
        /\ x.status = "completed" => f = {}

\* A run that is cancelled has an inspection point ahead.
CancelSound(x) ==
    x.cancelled => /\ x.status = "active"
                   /\ \E i \in x.pos..Len(Script(x.kind)) : Script(x.kind)[i] = "check"

RunSound(x, f) ==
    /\ x \in Run
    /\ x.pos <= Len(Script(x.kind))
    /\ ErasureSound(x, f)
    /\ CancelSound(x)

RunsSound ==
    /\ run = [r \in Runs |-> run[r]]
    /\ \A r \in Runs : RunSound(run[r], found[r])

StoresSound ==
    /\ stored \subseteq Names
    /\ found \in [Runs -> SUBSET stored]
    /\ late \subseteq stored

TasksSound == task \in [Runs -> [Gathered -> TaskState]]

SessionInv == RunsSound /\ StoresSound /\ TasksSound /\ scratch \subseteq Scratch

-----------------------------------------------------------------------------
(* Scripts.                                                                *)

LEMMA ScriptLengths ==
    /\ \A kind \in AllKinds : Len(Script(kind)) \in Nat \ {0}
    /\ Script("erasure") = DeletionScript
    /\ Len(DeletionScript) = 4
  <1>1. /\ Script("analysis") = AnalysisScript /\ Script("answer") = AnswerScript
        /\ Script("report") = ReportScript
        /\ \A kind \in Deletions : Script(kind) = DeletionScript
    BY DEF Script, Deletions
  <1>2. /\ Len(AnalysisScript) = 18 /\ Len(AnswerScript) = 8
        /\ Len(ReportScript) = 8 /\ Len(DeletionScript) = 4
    BY DEF AnalysisScript, AnswerScript, ReportScript, DeletionScript
  <1> QED
    BY SMTT(30), <1>1, <1>2 DEF AllKinds, Deletions

\* The steps of an erasure.
LEMMA ErasureSteps ==
    ASSUME SessionInv, NEW r \in Active, run[r].kind = "erasure"
    PROVE  /\ run[r].pos \in 1..4
           /\ Step(r) = <<"deleteChunks", "list", "delete", "clean">>[run[r].pos]
  <1>1. run[r] \in Run /\ run[r].pos <= Len(Script(run[r].kind))
    BY DEF SessionInv, RunsSound, RunSound, Active
  <1>2. Script(run[r].kind) = DeletionScript /\ Len(DeletionScript) = 4
    BY ScriptLengths
  <1>3. run[r].pos \in Nat \ {0}
    BY <1>1 DEF Run
  <1>4. run[r].pos \in 1..4
    <2>1. run[r].pos <= 4
      BY <1>1, <1>2, Zenon
    <2> QED
      BY <1>3, <2>1
  <1>5. Step(r) = DeletionScript[run[r].pos]
    BY <1>2 DEF Step
  <1> QED
    BY <1>4, <1>5, Zenon DEF DeletionScript

\* A run that has not begun, or has ended early.
LEMMA FreshSound ==
    ASSUME NEW status \in {"new", "failed", "cancelled"}, NEW f
    PROVE  RunSound(Fresh("analysis", status, FALSE), f)
  <1> SUFFICES ASSUME NEW x, x = Fresh("analysis", status, FALSE)
               PROVE  RunSound(x, f)
    OBVIOUS
  <1>1. "analysis" \in AllKinds /\ 1 <= Len(Script("analysis"))
    BY ScriptLengths DEF AllKinds
  <1>2. /\ x.kind = "analysis" /\ x.pos = 1 /\ x.cancelled = FALSE
        /\ x \in Run
    BY <1>1 DEF Fresh, Run
  <1>3. x.pos <= Len(Script(x.kind))
    BY <1>1, <1>2
  <1> QED
    BY <1>2, <1>3 DEF RunSound, ErasureSound, CancelSound

-----------------------------------------------------------------------------
(* What a step changes.                                                    *)

\* What an erasure has found only gets less.
FoundShrinks == \A r \in Runs : found'[r] \subseteq found[r]

LEMMA LessFound ==
    ASSUME NEW x, NEW f, NEW g, RunSound(x, f), g \subseteq f
    PROVE  RunSound(x, g)
  BY DEF RunSound, ErasureSound

LEMMA RunReplaced ==
    ASSUME RunsSound, FoundShrinks, NEW r \in Runs, NEW x,
           run' = [run EXCEPT ![r] = x], RunSound(x, found'[r])
    PROVE  RunsSound'
  <1>1. run' = [q \in Runs |-> run'[q]] /\ run'[r] = x
    BY DEF RunsSound
  <1>2. ASSUME NEW q \in Runs PROVE RunSound(run'[q], found'[q])
    <2>1. CASE q = r
      BY <1>1, <2>1
    <2>2. CASE q # r
      <3>1. run'[q] = run[q] /\ RunSound(run[q], found[q]) /\ found'[q] \subseteq found[q]
        BY <2>2 DEF RunsSound, FoundShrinks
      <3> QED
        BY <3>1, LessFound
    <2> QED
      BY <2>1, <2>2
  <1>3. \A q \in Runs : RunSound(run[q], found[q])'
    BY <1>2 DEF RunSound, ErasureSound, CancelSound, Run
  <1> QED
    BY <1>1, <1>3 DEF RunsSound

LEMMA RunsStutter ==
    ASSUME RunsSound, FoundShrinks, run' = run
    PROVE  RunsSound'
  <1>1. \A q \in Runs : RunSound(run'[q], found'[q])
    BY LessFound DEF RunsSound, FoundShrinks
  <1>2. \A q \in Runs : RunSound(run[q], found[q])'
    BY <1>1 DEF RunSound, ErasureSound, CancelSound, Run
  <1> QED
    BY <1>2 DEF RunsSound

LEMMA PutSound ==
    ASSUME StoresSound, NEW r \in Runs, NEW n \in Names, Put(r, n)
    PROVE  StoresSound' /\ FoundShrinks
  BY DEF StoresSound, Put, FoundShrinks

LEMMA RemoveSound ==
    ASSUME StoresSound, NEW names, Remove(names)
    PROVE  StoresSound' /\ FoundShrinks
  BY DEF StoresSound, Remove, FoundShrinks

LEMMA StoresStutter ==
    ASSUME StoresSound, UNCHANGED stores
    PROVE  StoresSound' /\ FoundShrinks
  BY DEF StoresSound, stores, FoundShrinks

LEMMA EffectSound ==
    ASSUME SessionInv, NEW r \in Runs, Effect(r)
    PROVE  StoresSound' /\ FoundShrinks /\ (scratch \subseteq Scratch)'
  <1>1. StoresSound' /\ FoundShrinks
    BY PutSound, StoresStutter DEF SessionInv, Effect
  <1> QED
    BY <1>1 DEF SessionInv, Effect

\* A run that is not an erasure goes on; at an inspection point only if it is not
\* cancelled.
LEMMA AdvancedSound ==
    ASSUME SessionInv, NEW r \in Active, NEW f,
           Step(r) = "check" => ~ run[r].cancelled,
           ErasureSound(Advanced(r), f)
    PROVE  RunSound(Advanced(r), f)
  <1> DEFINE x == run[r]
             len == Len(Script(x.kind))
  <1>1. /\ x \in Run /\ x.status = "active" /\ x.pos <= len /\ CancelSound(x)
        /\ x.pos \in Nat \ {0} /\ len \in Nat \ {0}
    BY ScriptLengths DEF SessionInv, RunsSound, RunSound, Active, Run
  <1>2. CASE x.pos = len
    <2>1. /\ Advanced(r) = [x EXCEPT !.status = "completed", !.cached = {}, !.listed = {}]
          /\ Advanced(r) \in Run
          /\ Advanced(r).kind = x.kind /\ Advanced(r).pos = x.pos
          /\ Advanced(r).cancelled = x.cancelled
      BY <1>1, <1>2 DEF Advanced, Run
    <2>2. ~ x.cancelled
      BY <1>1, <1>2 DEF CancelSound, Step
    <2> QED
      BY <1>1, <2>1, <2>2 DEF RunSound, CancelSound
  <1>3. CASE x.pos # len
    <2>1. /\ Advanced(r) = [x EXCEPT !.pos = @ + 1]
          /\ Advanced(r) \in Run
          /\ Advanced(r).kind = x.kind /\ Advanced(r).pos = x.pos + 1
          /\ Advanced(r).cancelled = x.cancelled /\ Advanced(r).status = "active"
      BY <1>1, <1>3 DEF Advanced, Run
    <2>2. x.cancelled => \E i \in x.pos + 1..len : Script(x.kind)[i] = "check"
      BY <1>1 DEF CancelSound, Step
    <2>3. CancelSound(Advanced(r))
      BY <2>1, <2>2 DEF CancelSound
    <2> QED
      BY <1>1, <1>3, <2>1, <2>3 DEF RunSound
  <1> QED
    BY <1>2, <1>3

LEMMA AdvancedKind ==
    ASSUME SessionInv, NEW r \in Active
    PROVE  Advanced(r).kind = run[r].kind
  BY DEF SessionInv, RunsSound, RunSound, Active, Run, Advanced

LEMMA ErasureAdvances ==
    ASSUME SessionInv, NEW r \in Active, run[r].kind = "erasure"
    PROVE  /\ Advanced(r).kind = "erasure"
           /\ run[r].pos # 4 => /\ Advanced(r).status = "active"
                                /\ Advanced(r).pos = run[r].pos + 1
           /\ run[r].pos = 4 => Advanced(r).status = "completed"
  <1> DEFINE x == run[r]
  <1>1. x \in Run /\ x.status = "active" /\ Len(Script(x.kind)) = 4
    BY ScriptLengths DEF SessionInv, RunsSound, RunSound, Active
  <1>2. Advanced(r) = IF x.pos = 4
                      THEN [x EXCEPT !.status = "completed", !.cached = {}, !.listed = {}]
                      ELSE [x EXCEPT !.pos = @ + 1]
    BY <1>1 DEF Advanced
  <1> HIDE DEF x
  <1>3. x.kind = "erasure"
    BY DEF x
  <1> QED
    BY <1>1, <1>2, <1>3 DEF Run, x

\* Only deletions list objects.
LEMMA ListingDeletes ==
    ASSUME SessionInv, NEW r \in Active, Step(r) = "list"
    PROVE  run[r].kind \in Deletions
  <1> DEFINE i == run[r].pos
             kind == run[r].kind
  <1>1. kind \in AllKinds /\ i \in 1..Len(Script(kind)) /\ Script(kind)[i] = "list"
    BY ScriptLengths DEF SessionInv, RunsSound, RunSound, Active, Run, Step
  <1> HIDE DEF i, kind
  <1>2. kind # "analysis"
    BY SMTT(30), <1>1 DEF Script, AnalysisScript, Deletions
  <1>3. kind # "answer"
    BY <1>1 DEF Script, AnswerScript, Deletions
  <1>4. kind # "report"
    BY <1>1 DEF Script, ReportScript, Deletions
  <1> QED
    BY <1>1, <1>2, <1>3, <1>4 DEF AllKinds, kind

\* A run at a step that no erasure has may go on.
LEMMA OtherAdvances ==
    ASSUME SessionInv, NEW r \in Active, NEW f,
           Step(r) \notin {"deleteChunks", "list", "delete", "clean"},
           Step(r) = "check" => ~ run[r].cancelled
    PROVE  RunSound(Advanced(r), f)
  <1>1. run[r].kind # "erasure"
    BY ErasureSteps
  <1>2. ErasureSound(Advanced(r), f)
    BY <1>1, AdvancedKind DEF ErasureSound
  <1> QED
    BY <1>2, AdvancedSound

-----------------------------------------------------------------------------
(* The actions.                                                            *)

LEMMA StartSound ==
    ASSUME SessionInv, NEW r \in Runs, Start(r)
    PROVE  SessionInv'
  <1>1. PICK kind \in Kinds :
          /\ run' = [q \in Runs |->
                IF q = r
                THEN Fresh(kind, "active",
                           \A p \in Active : ~ Conflict(kind, run[p].kind))
                ELSE [run[q] EXCEPT !.undisturbed = @ /\ ~ Conflict(run[q].kind, kind)]]
          /\ found' = [found EXCEPT ![r] = IF kind = "erasure" THEN stored ELSE {}]
    BY DEF Start, disk
  <1>2. kind \in AllKinds
    BY SessionAssumption
  <1>3. UNCHANGED <<task, stored, late, scratch>>
    BY DEF Start, disk
  <1>4. StoresSound'
    BY <1>1, <1>3 DEF SessionInv, StoresSound
  <1>5. RunSound(run'[r], found'[r])
    <2> DEFINE calm == \A p \in Active : ~ Conflict(kind, run[p].kind)
    <2>1. PICK x : x = run'[r] /\ x = Fresh(kind, "active", calm)
      BY <1>1
    <2>2. calm \in BOOLEAN
      OBVIOUS
    <2> HIDE DEF calm
    <2>3. /\ x \in Run /\ x.kind = kind /\ x.pos = 1 /\ x.status = "active"
          /\ x.cancelled = FALSE
      BY <1>2, <2>1, <2>2 DEF Fresh, Run
    <2>4. x.pos <= Len(Script(x.kind))
      BY <1>2, <2>3, ScriptLengths
    <2> QED
      BY <2>1, <2>3, <2>4 DEF RunSound, ErasureSound, CancelSound
  <1>6. ASSUME NEW q \in Runs, q # r PROVE RunSound(run'[q], found'[q])
    <2> DEFINE calm == run[q].undisturbed /\ ~ Conflict(run[q].kind, kind)
               x == run[q]
               y == [x EXCEPT !.undisturbed = calm]
    <2>1. run'[q] = y /\ found'[q] = found[q]
      BY <1>1, <1>6 DEF SessionInv, StoresSound
    <2>2. calm \in BOOLEAN
      OBVIOUS
    <2>3. RunSound(x, found[q])
      BY DEF SessionInv, RunsSound
    <2> HIDE DEF calm, x
    <2>4. /\ y \in Run /\ y.kind = x.kind /\ y.pos = x.pos /\ y.status = x.status
          /\ y.cancelled = x.cancelled /\ y.listed = x.listed
      BY <2>2, <2>3 DEF RunSound, Run
    <2> HIDE DEF y
    <2> QED
      BY <2>1, <2>3, <2>4 DEF RunSound, ErasureSound, CancelSound
  <1>7. run' = [q \in Runs |-> run'[q]]
    BY <1>1
  <1>8. \A q \in Runs : RunSound(run[q], found[q])'
    BY <1>5, <1>6 DEF RunSound, ErasureSound, CancelSound, Run
  <1> QED
    BY <1>3, <1>4, <1>7, <1>8 DEF SessionInv, RunsSound, TasksSound

LEMMA WorkSound ==
    ASSUME SessionInv, NEW r \in Runs, Work(r)
    PROVE  SessionInv'
  <1>1. r \in Active /\ Step(r) \in Names \cup Scratch \cup Thinking
        /\ Effect(r) /\ run' = [run EXCEPT ![r] = Advanced(r)] /\ UNCHANGED task
    BY DEF Work, Advance
  <1>2. StoresSound' /\ FoundShrinks /\ (scratch \subseteq Scratch)'
    BY <1>1, EffectSound
  <1>3. Step(r) \notin {"deleteChunks", "list", "delete", "clean", "check"}
    BY <1>1 DEF Names, Objects, Checkpoints, Published, Scratch, Thinking
  <1>4. RunSound(Advanced(r), found'[r])
    BY <1>1, <1>3, OtherAdvances
  <1>5. RunsSound'
    BY <1>1, <1>2, <1>4, RunReplaced DEF SessionInv
  <1> QED
    BY <1>1, <1>2, <1>5 DEF SessionInv, TasksSound

LEMMA SkipSound ==
    ASSUME SessionInv, NEW r \in Runs, Skip(r)
    PROVE  SessionInv'
  <1>1. r \in Active /\ Step(r) \in Scratch \cup {"chunks"}
        /\ run' = [run EXCEPT ![r] = Advanced(r)] /\ UNCHANGED <<task, stores, scratch>>
    BY DEF Skip, Advance, disk
  <1>2. StoresSound' /\ FoundShrinks
    BY <1>1, StoresStutter DEF SessionInv
  <1>3. Step(r) \notin {"deleteChunks", "list", "delete", "clean", "check"}
    BY <1>1 DEF Scratch
  <1>4. RunSound(Advanced(r), found'[r])
    BY <1>1, <1>3, OtherAdvances
  <1>5. RunsSound'
    BY <1>1, <1>2, <1>4, RunReplaced DEF SessionInv
  <1> QED
    BY <1>1, <1>2, <1>5 DEF SessionInv, TasksSound

\* A step about the file that a report is uploaded from.
LEMMA FileStepSound ==
    ASSUME SessionInv, NEW r \in Runs, Write(r) \/ Unlink(r)
    PROVE  SessionInv'
  <1>1. r \in Active /\ Step(r) \in {"write", "unlink"}
        /\ run' = [run EXCEPT ![r] = Advanced(r)] /\ UNCHANGED <<task, stores, scratch>>
    BY DEF Write, Unlink, At, Advance
  <1>2. StoresSound' /\ FoundShrinks
    BY <1>1, StoresStutter DEF SessionInv
  <1>3. RunSound(Advanced(r), found'[r])
    BY <1>1, OtherAdvances
  <1>4. RunsSound'
    BY <1>1, <1>2, <1>3, RunReplaced DEF SessionInv
  <1> QED
    BY <1>1, <1>2, <1>4 DEF SessionInv, TasksSound

\* A run that ends early.
LEMMA EndSound ==
    ASSUME RunsSound, FoundShrinks, NEW r \in Runs,
           NEW status \in {"failed", "cancelled"}, End(r, status)
    PROVE  RunsSound'
  BY FreshSound, RunReplaced DEF End

LEMMA FailsSound ==
    ASSUME SessionInv, NEW r \in Runs, Fails(r)
    PROVE  SessionInv'
  <1>1. /\ Effect(r) \/ UNCHANGED <<stores, scratch>>
        /\ End(r, "failed") /\ UNCHANGED task
    BY DEF Fails
  <1>2. StoresSound' /\ FoundShrinks /\ (scratch \subseteq Scratch)'
    BY <1>1, EffectSound, StoresStutter DEF SessionInv
  <1> QED
    BY <1>1, <1>2, EndSound DEF SessionInv, TasksSound

LEMMA CrashSound ==
    ASSUME SessionInv, NEW r \in Runs, Crash(r)
    PROVE  SessionInv'
  <1>1. StoresSound' /\ FoundShrinks
    BY StoresStutter DEF SessionInv, Crash, disk
  <1>2. RunsSound'
    BY <1>1, EndSound DEF SessionInv, Crash, disk
  <1>3. TasksSound'
    BY DEF SessionInv, TasksSound, Crash, Idle, TaskState, disk
  <1> QED
    BY <1>1, <1>2, <1>3 DEF SessionInv, Crash, disk

LEMMA CancelActionSound ==
    ASSUME SessionInv, NEW r \in Runs, Cancel(r)
    PROVE  SessionInv'
  <1> DEFINE x == run[r]
             y == [x EXCEPT !.cancelled = TRUE]
  <1>1. /\ run' = [run EXCEPT ![r] = y] /\ UNCHANGED <<task, stores, scratch>>
        /\ x.status = "active"
        /\ \E i \in x.pos..Len(Script(x.kind)) : Script(x.kind)[i] = "check"
    BY DEF Cancel, Active, StepsAhead, SessionInv, RunsSound, disk
  <1>2. StoresSound' /\ FoundShrinks
    BY <1>1, StoresStutter DEF SessionInv
  <1>3. RunSound(x, found'[r])
    BY <1>2, LessFound DEF SessionInv, RunsSound, FoundShrinks
  <1> HIDE DEF x
  <1>4. /\ y \in Run /\ y.kind = x.kind /\ y.pos = x.pos /\ y.status = x.status
        /\ y.listed = x.listed
    BY <1>3 DEF RunSound, Run
  <1> HIDE DEF y
  <1>5. RunSound(y, found'[r])
    BY <1>1, <1>3, <1>4 DEF RunSound, ErasureSound, CancelSound
  <1>6. RunsSound'
    BY <1>1, <1>2, <1>5, RunReplaced DEF SessionInv
  <1> QED
    BY <1>1, <1>2, <1>6 DEF SessionInv, TasksSound

LEMMA CheckSound ==
    ASSUME SessionInv, NEW r \in Runs, Check(r)
    PROVE  SessionInv'
  <1>1. /\ r \in Active /\ Step(r) = "check" /\ UNCHANGED <<task, stores>>
    BY DEF Check, At
  <1>2. StoresSound' /\ FoundShrinks
    BY <1>1, StoresStutter DEF SessionInv
  <1>3. (scratch \subseteq Scratch)'
    BY DEF Check, SessionInv
  <1>4. CASE run[r].cancelled
    <2>1. End(r, "cancelled")
      BY <1>4 DEF Check
    <2> QED
      BY <1>1, <1>2, <1>3, <2>1, EndSound DEF SessionInv, TasksSound
  <1>5. CASE ~ run[r].cancelled
    <2>1. run' = [run EXCEPT ![r] = Advanced(r)]
      BY <1>5 DEF Check, Advance
    <2>2. RunSound(Advanced(r), found'[r])
      BY <1>1, <1>5, OtherAdvances
    <2>3. RunsSound'
      BY <1>2, <2>1, <2>2, RunReplaced DEF SessionInv
    <2> QED
      BY <1>1, <1>2, <1>3, <2>3 DEF SessionInv, TasksSound
  <1> QED
    BY <1>4, <1>5

LEMMA FindSound ==
    ASSUME SessionInv, NEW r \in Runs, Find(r)
    PROVE  SessionInv'
  <1>1. PICK hit \in SUBSET ({Finds[Step(r)]} \cap stored) :
          run' = [run EXCEPT ![r] = [Advanced(r) EXCEPT !.cached = @ \cup hit]]
    BY DEF Find, disk
  <1>2. /\ r \in Active /\ Step(r) \in {"findSpeech", "findVision", "findAudio"}
        /\ UNCHANGED <<task, stores, scratch>>
    BY DEF Find, Finds, disk
  <1>3. hit \subseteq Checkpoints
    BY <1>1, <1>2 DEF Finds, Checkpoints
  <1>4. StoresSound' /\ FoundShrinks
    BY <1>2, StoresStutter DEF SessionInv
  <1> DEFINE x == Advanced(r)
             y == [x EXCEPT !.cached = @ \cup hit]
  <1>5. RunSound(x, found'[r])
    BY <1>2, OtherAdvances
  <1>6. run' = [run EXCEPT ![r] = y]
    BY <1>1
  <1> HIDE DEF x
  <1>7. /\ y \in Run /\ y.kind = x.kind /\ y.pos = x.pos /\ y.status = x.status
        /\ y.cancelled = x.cancelled /\ y.listed = x.listed
    BY <1>3, <1>5 DEF RunSound, Run
  <1> HIDE DEF y
  <1>8. RunSound(y, found'[r])
    BY <1>5, <1>7 DEF RunSound, ErasureSound, CancelSound
  <1>9. RunsSound'
    BY <1>4, <1>6, <1>8, <1>2, RunReplaced DEF SessionInv, Active
  <1> QED
    BY <1>2, <1>4, <1>9 DEF SessionInv, TasksSound

LEMMA ForkSound ==
    ASSUME SessionInv, NEW r \in Runs, Fork(r)
    PROVE  SessionInv'
  <1>1. /\ r \in Active /\ Step(r) = "fork" /\ UNCHANGED <<stores, scratch>>
        /\ run' = [run EXCEPT ![r] = Advanced(r)]
    BY DEF Fork, At, Advance, disk
  <1>2. TasksSound'
    BY DEF SessionInv, TasksSound, Fork, TaskState, disk
  <1>3. StoresSound' /\ FoundShrinks
    BY <1>1, StoresStutter DEF SessionInv
  <1>4. RunSound(Advanced(r), found'[r])
    BY <1>1, OtherAdvances
  <1>5. RunsSound'
    BY <1>1, <1>3, <1>4, RunReplaced DEF SessionInv
  <1> QED
    BY <1>1, <1>2, <1>3, <1>5 DEF SessionInv

LEMMA JoinSound ==
    ASSUME SessionInv, NEW r \in Runs, Join(r)
    PROVE  SessionInv'
  <1>1. /\ r \in Active /\ Step(r) = "join" /\ UNCHANGED <<stores, scratch>>
        /\ Advance(r) \/ End(r, "failed")
    BY DEF Join, At, disk
  <1>2. TasksSound'
    BY DEF SessionInv, TasksSound, Join, Unfinished, TaskState, disk
  <1>3. StoresSound' /\ FoundShrinks
    BY <1>1, StoresStutter DEF SessionInv
  <1>4. RunSound(Advanced(r), found'[r])
    BY <1>1, OtherAdvances
  <1>5. Advance(r) => RunsSound'
    BY <1>3, <1>4, RunReplaced DEF SessionInv, Advance
  <1>6. End(r, "failed") => RunsSound'
    BY <1>3, EndSound DEF SessionInv
  <1> QED
    BY <1>1, <1>2, <1>3, <1>5, <1>6 DEF SessionInv

\* A coroutine goes on, by itself or by leaving a checkpoint.
LEMMA CoroutineSound ==
    ASSUME SessionInv, NEW r \in Runs, NEW s \in Gathered, Compute(r, s) \/ Save(r, s)
    PROVE  SessionInv'
  <1>1. /\ run' = run /\ scratch' = scratch
        /\ UNCHANGED stores \/ Put(r, s)
        /\ \E state \in TaskState : Becomes(r, s, state)
    BY DEF Compute, Save, TaskState, disk
  <1>2. s \in Names
    BY DEF Gathered, Names, Objects, Checkpoints
  <1>3. StoresSound' /\ FoundShrinks
    BY <1>1, <1>2, StoresStutter, PutSound DEF SessionInv
  <1>4. RunsSound'
    BY <1>1, <1>3, RunsStutter DEF SessionInv
  <1>5. TasksSound'
    BY <1>1 DEF SessionInv, TasksSound, Becomes, TaskState
  <1> QED
    BY <1>1, <1>3, <1>4, <1>5 DEF SessionInv

\* The actions of a deletion; of its runs the proof is about the erasures.
LEMMA DeleteChunksSound ==
    ASSUME SessionInv, NEW r \in Runs, DeleteChunks(r)
    PROVE  SessionInv'
  <1>1. /\ r \in Active /\ Step(r) = "deleteChunks" /\ UNCHANGED <<task, scratch>>
        /\ Remove({"chunks"}) \/ (run[r].kind # "erasure" /\ UNCHANGED stores)
        /\ run' = [run EXCEPT ![r] = Advanced(r)]
    BY DEF DeleteChunks, At, Advance, disk
  <1>2. StoresSound' /\ FoundShrinks
    BY <1>1, RemoveSound, StoresStutter DEF SessionInv
  <1>3. run[r].kind = "erasure" => /\ run[r].pos = 1 /\ "chunks" \notin found'[r]
                                   /\ run[r].status = "active"
    BY <1>1, ErasureSteps DEF Remove, Active
  <1>4. ErasureSound(Advanced(r), found'[r])
    <2>1. SUFFICES ASSUME run[r].kind = "erasure"
                   PROVE  ErasureSound(Advanced(r), found'[r])
      BY <1>1, AdvancedKind DEF ErasureSound
    <2>2. /\ Advanced(r).kind = "erasure" /\ Advanced(r).status = "active"
          /\ Advanced(r).pos = 2
      BY <1>1, <1>3, <2>1, ErasureAdvances
    <2> QED
      BY <1>3, <2>1, <2>2 DEF ErasureSound
  <1>5. RunSound(Advanced(r), found'[r])
    BY <1>1, <1>4, AdvancedSound
  <1>6. RunsSound'
    BY <1>1, <1>2, <1>5, RunReplaced DEF SessionInv
  <1> QED
    BY <1>1, <1>2, <1>6 DEF SessionInv, TasksSound

LEMMA ListSound ==
    ASSUME SessionInv, NEW r \in Runs, List(r)
    PROVE  SessionInv'
  <1> DEFINE some == stored \cap Erasable(run[r].kind)
             x == Advanced(r)
             y == [x EXCEPT !.listed = some]
  <1>1. /\ r \in Active /\ Step(r) = "list" /\ UNCHANGED <<task, stores, scratch>>
        /\ run' = [run EXCEPT ![r] = y]
    BY DEF List, At, disk
  <1>2. StoresSound' /\ FoundShrinks
    BY <1>1, StoresStutter DEF SessionInv
  <1>3. some \subseteq Objects
    BY <1>1, ListingDeletes DEF Erasable, Deletions, Objects, Published
  <1>4. run[r].kind = "erasure" => run[r].pos = 2 /\ run[r].status = "active"
    BY <1>1, ErasureSteps DEF Active
  <1>5. run[r].kind = "erasure" => x.pos = 3 /\ x.status = "active"
    BY <1>1, <1>4, ErasureAdvances
  <1>6. run[r].kind = "erasure" => found'[r] \subseteq some /\ "chunks" \notin found'[r]
    <2>1. SUFFICES ASSUME run[r].kind = "erasure"
                   PROVE  found'[r] \subseteq some /\ "chunks" \notin found'[r]
      OBVIOUS
    <2>2. "chunks" \notin found[r]
      BY <1>4, <2>1 DEF SessionInv, RunsSound, RunSound, ErasureSound
    <2>3. Erasable("erasure") = Objects
      BY DEF Erasable
    <2> QED
      BY <1>1, <2>1, <2>2, <2>3 DEF stores, SessionInv, StoresSound, Names
  <1>7. x.kind = run[r].kind
    BY <1>1, AdvancedKind
  <1> HIDE DEF some
  <1>8. /\ x \in Run /\ x.pos <= Len(Script(x.kind)) /\ CancelSound(x)
    <2>1. RunSound(x, {})
      BY <1>1, <1>5, <1>7, AdvancedSound DEF ErasureSound
    <2> QED
      BY <2>1 DEF RunSound
  <1> HIDE DEF x
  <1>9. /\ y \in Run /\ y.kind = x.kind /\ y.pos = x.pos /\ y.status = x.status
        /\ y.cancelled = x.cancelled /\ y.listed = some
    BY <1>3, <1>8 DEF Run
  <1> HIDE DEF y
  <1>10. RunSound(y, found'[r])
    BY <1>5, <1>6, <1>7, <1>8, <1>9 DEF RunSound, ErasureSound, CancelSound
  <1>11. RunsSound'
    BY <1>1, <1>2, <1>10, RunReplaced DEF SessionInv, Active
  <1> QED
    BY <1>1, <1>2, <1>11 DEF SessionInv, TasksSound

LEMMA DeleteSound ==
    ASSUME SessionInv, NEW r \in Runs, Delete(r)
    PROVE  SessionInv'
  <1>1. /\ r \in Active /\ Step(r) = "delete" /\ UNCHANGED <<task, scratch>>
    BY DEF Delete, At, disk
  <1>2. StoresSound' /\ FoundShrinks
    BY RemoveSound DEF SessionInv, Delete, disk
  <1>3. CASE Remove(run[r].listed) /\ Advance(r)
    <2>1. run[r].kind = "erasure" => /\ run[r].pos = 3 /\ run[r].status = "active"
                                     /\ found'[r] = {}
      <3>1. run[r].kind = "erasure" => run[r].pos = 3 /\ run[r].status = "active"
        BY <1>1, ErasureSteps DEF Active
      <3>2. run[r].kind = "erasure" => found[r] \subseteq run[r].listed
        BY <3>1 DEF SessionInv, RunsSound, RunSound, ErasureSound
      <3>3. found'[r] = found[r] \ run[r].listed
        BY <1>3 DEF Remove
      <3> QED
        BY <3>1, <3>2, <3>3
    <2>2. run[r].kind = "erasure" => Advanced(r).status = "active" /\ Advanced(r).pos = 4
      BY <1>1, <2>1, ErasureAdvances
    <2>3. ErasureSound(Advanced(r), found'[r])
      BY <1>1, <2>1, <2>2, AdvancedKind DEF ErasureSound
    <2>4. RunSound(Advanced(r), found'[r])
      BY <1>1, <2>3, AdvancedSound
    <2>5. RunsSound'
      BY <1>2, <1>3, <2>4, RunReplaced DEF SessionInv, Advance
    <2> QED
      BY <1>1, <1>2, <2>5 DEF SessionInv, TasksSound
  <1>4. CASE End(r, "failed")
    BY <1>1, <1>2, <1>4, EndSound DEF SessionInv, TasksSound
  <1> QED
    BY <1>3, <1>4 DEF Delete, disk

LEMMA CleanSound ==
    ASSUME SessionInv, NEW r \in Runs, Clean(r)
    PROVE  SessionInv'
  <1>1. /\ r \in Active /\ Step(r) = "clean" /\ UNCHANGED <<task, stores>>
        /\ Advance(r) \/ End(r, "failed")
    BY DEF Clean, At
  <1>2. (scratch \subseteq Scratch)'
    BY DEF Clean, SessionInv
  <1>3. StoresSound' /\ FoundShrinks
    BY <1>1, StoresStutter DEF SessionInv
  <1>4. CASE Advance(r)
    <2>1. run[r].kind = "erasure" => /\ run[r].pos = 4 /\ run[r].status = "active"
                                     /\ found'[r] = {}
      <3>1. run[r].kind = "erasure" => run[r].pos = 4 /\ run[r].status = "active"
        BY <1>1, ErasureSteps DEF Active
      <3> QED
        BY <1>1, <3>1 DEF stores, SessionInv, RunsSound, RunSound, ErasureSound
    <2>2. run[r].kind = "erasure" => Advanced(r).status = "completed"
      BY <1>1, <2>1, ErasureAdvances
    <2>3. ErasureSound(Advanced(r), found'[r])
      BY <1>1, <2>1, <2>2, AdvancedKind DEF ErasureSound
    <2>4. RunSound(Advanced(r), found'[r])
      BY <1>1, <2>3, AdvancedSound
    <2>5. RunsSound'
      BY <1>3, <1>4, <2>4, RunReplaced DEF SessionInv, Advance
    <2> QED
      BY <1>1, <1>2, <1>3, <2>5 DEF SessionInv, TasksSound
  <1>5. CASE End(r, "failed")
    BY <1>1, <1>2, <1>3, <1>5, EndSound DEF SessionInv, TasksSound
  <1> QED
    BY <1>1, <1>4, <1>5

-----------------------------------------------------------------------------
(* The invariant holds of every behaviour.                                 *)

LEMMA InitSound == Init => SessionInv
  <1> SUFFICES ASSUME Init PROVE SessionInv
    OBVIOUS
  <1>1. StoresSound /\ scratch \subseteq Scratch
    BY DEF Init, StoresSound
  <1>2. TasksSound
    BY DEF Init, TasksSound, Idle, TaskState
  <1>3. \A r \in Runs : RunSound(run[r], found[r])
    BY FreshSound DEF Init, New
  <1>4. run = [r \in Runs |-> run[r]]
    BY DEF Init
  <1> QED
    BY <1>1, <1>2, <1>3, <1>4 DEF SessionInv, RunsSound

LEMMA StepSound == SessionInv /\ [Next]_vars => SessionInv'
  <1> SUFFICES ASSUME SessionInv, [Next]_vars PROVE SessionInv'
    OBVIOUS
  <1>1. CASE Next
    <2> SUFFICES ASSUME NEW r \in Runs,
                        \/ Start(r) \/ Work(r) \/ Write(r) \/ Unlink(r) \/ Skip(r)
                        \/ Fails(r) \/ Crash(r)
                        \/ Cancel(r) \/ Check(r)
                        \/ Find(r) \/ Fork(r) \/ Join(r)
                        \/ \E s \in Gathered : Compute(r, s) \/ Save(r, s)
                        \/ DeleteChunks(r) \/ List(r) \/ Delete(r) \/ Clean(r)
                 PROVE  SessionInv'
      BY <1>1 DEF Next
    <2> QED
      BY StartSound, WorkSound, FileStepSound, SkipSound, FailsSound, CrashSound, CancelActionSound,
         CheckSound, FindSound, ForkSound, JoinSound, CoroutineSound,
         DeleteChunksSound, ListSound, DeleteSound, CleanSound
  <1>2. CASE UNCHANGED vars
    <2>1. UNCHANGED <<run, task, scratch>> /\ UNCHANGED stores
      BY <1>2 DEF vars, disk
    <2>2. StoresSound' /\ FoundShrinks
      BY <2>1, StoresStutter DEF SessionInv
    <2> QED
      BY <2>1, <2>2, RunsStutter DEF SessionInv, TasksSound
  <1> QED
    BY <1>1, <1>2

LEMMA Invariance == Spec => []SessionInv
  BY InitSound, StepSound, PTL DEF Spec

-----------------------------------------------------------------------------
(* The files from which reports are uploaded: the invariant.               *)

\* A run has its file from the writing to the removal, or left it when it failed.
HasFile(x) ==
    \/ x.status = "failed"
    \/ x.status = "active" /\ x.kind = "report" /\ x.pos \in {7, 8}

FilesSound ==
    /\ markdown \subseteq Runs
    /\ \A q \in markdown : HasFile(run[q])

\* The steps at which a run has its file, and the one that writes it.
LEMMA FileSteps ==
    ASSUME SessionInv, NEW r \in Active
    PROVE  /\ HasFile(run[r]) => Step(r) = <<"report", "unlink">>[run[r].pos - 6]
           /\ Step(r) = "write" => run[r].kind = "report" /\ run[r].pos = 6
  <1> DEFINE i == run[r].pos
             kind == run[r].kind
  <1>1. /\ kind \in AllKinds /\ i \in 1..Len(Script(kind)) /\ Step(r) = Script(kind)[i]
        /\ run[r].status = "active"
    BY ScriptLengths DEF SessionInv, RunsSound, RunSound, Active, Run, Step
  <1>2. HasFile(run[r]) => kind = "report" /\ i \in {7, 8}
    BY <1>1 DEF HasFile
  <1> HIDE DEF i, kind
  <1>3. kind = "analysis" => Step(r) # "write"
    BY SMTT(30), <1>1 DEF Script, AnalysisScript, Deletions
  <1>4. kind = "answer" => Step(r) # "write"
    BY <1>1 DEF Script, AnswerScript, Deletions
  <1>5. kind \in Deletions => Step(r) # "write"
    <2> SUFFICES ASSUME kind \in Deletions PROVE Step(r) # "write"
      OBVIOUS
    <2>1. Script(kind) = DeletionScript
      BY DEF Script, Deletions
    <2>2. i \in 1..4
      BY <1>1, <2>1, ScriptLengths
    <2> QED
      BY <1>1, <2>1, <2>2 DEF DeletionScript
  <1>6. ASSUME kind = "report"
        PROVE  /\ Step(r) = "write" => i = 6
               /\ i \in {7, 8} => Step(r) = <<"report", "unlink">>[i - 6]
    <2>1. Script(kind) = ReportScript
      BY <1>6 DEF Script, Deletions
    <2>2. i \in 1..8
      BY <1>1, <2>1 DEF ReportScript
    <2> QED
      BY <1>1, <2>1, <2>2 DEF ReportScript
  <1>7. Step(r) = "write" => kind = "report"
    BY <1>1, <1>3, <1>4, <1>5 DEF AllKinds, Deletions
  <1> QED
    BY <1>2, <1>6, <1>7 DEF i, kind

\* A report goes on before its last step.
LEMMA ReportAdvances ==
    ASSUME SessionInv, NEW r \in Active, run[r].kind = "report", run[r].pos \in {6, 7}
    PROVE  HasFile(Advanced(r))
  <1> DEFINE x == run[r]
  <1>1. x \in Run /\ x.status = "active"
    BY DEF SessionInv, RunsSound, RunSound, Active
  <1>2. run[r].pos # Len(Script(run[r].kind))
    <2>1. Script(run[r].kind) = ReportScript
      BY DEF Script, Deletions
    <2>2. Len(ReportScript) = 8
      BY DEF ReportScript
    <2>3. Len(Script(run[r].kind)) = 8
      BY <2>1, <2>2, Zenon
    <2>4. run[r].pos # 8
      OBVIOUS
    <2> QED
      BY <2>3, <2>4, Zenon
  <1>3. Advanced(r) = [x EXCEPT !.pos = @ + 1]
    BY <1>2, Zenon DEF Advanced
  <1>4. x.kind = "report" /\ x.pos \in {6, 7}
    OBVIOUS
  <1> HIDE DEF x
  <1> QED
    BY <1>1, <1>3, <1>4 DEF HasFile, Run

\* One run is replaced and no other's file is written.
LEMMA FilesFollow ==
    ASSUME SessionInv, FilesSound, NEW r \in Runs, NEW x, run' = [run EXCEPT ![r] = x],
           markdown' \subseteq markdown \cup {r},
           r \in markdown' => HasFile(x)
    PROVE  FilesSound'
  <1>1. run'[r] = x /\ \A q \in Runs \ {r} : run'[q] = run[q]
    BY DEF SessionInv, RunsSound
  <1> QED
    BY <1>1 DEF FilesSound

\* A run without a file, or one that fails, does nothing about the files.
LEMMA FilesStay ==
    ASSUME SessionInv, FilesSound, NEW r \in Active, NEW x, run' = [run EXCEPT ![r] = x],
           markdown' \subseteq markdown, Step(r) \notin {"report", "unlink"} \/ HasFile(x)
    PROVE  FilesSound'
  <1>1. r \in Runs
    BY DEF Active
  <1>2. CASE HasFile(x)
    BY <1>1, <1>2, FilesFollow
  <1>3. CASE Step(r) \notin {"report", "unlink"}
    <2>1. r \notin markdown
      <3> SUFFICES ASSUME r \in markdown PROVE FALSE
        OBVIOUS
      <3>1. HasFile(run[r]) /\ run[r].status = "active"
        BY DEF FilesSound, Active
      <3>2. run[r].pos \in {7, 8}
        BY <3>1 DEF HasFile
      <3> QED
        BY <1>3, <3>1, <3>2, FileSteps
    <2> QED
      BY <1>1, <2>1, FilesFollow
  <1> QED
    BY <1>2, <1>3

LEMMA WorkFiles ==
    ASSUME SessionInv, FilesSound, NEW r \in Runs, Work(r)
    PROVE  FilesSound'
  <1>1. /\ r \in Active /\ Step(r) \in Names \cup Scratch \cup Thinking
        /\ run' = [run EXCEPT ![r] = Advanced(r)] /\ markdown' = markdown
    BY DEF Work, Advance
  <1>2. Step(r) # "unlink"
    BY <1>1 DEF Names, Objects, Checkpoints, Published, Scratch, Thinking
  <1>3. ASSUME r \in markdown PROVE HasFile(Advanced(r))
    <2>1. HasFile(run[r]) /\ run[r].status = "active"
      BY <1>1, <1>3 DEF FilesSound, Active
    <2>2. run[r].kind = "report" /\ run[r].pos \in {7, 8}
      BY <2>1 DEF HasFile
    <2>3. run[r].pos = 7
      BY <1>1, <1>2, <2>1, <2>2, FileSteps
    <2> QED
      BY <1>1, <2>2, <2>3, ReportAdvances
  <1> QED
    BY <1>1, <1>3, FilesFollow

LEMMA WriteFiles ==
    ASSUME SessionInv, FilesSound, NEW r \in Runs, Write(r)
    PROVE  FilesSound'
  <1>1. /\ r \in Active /\ Step(r) = "write" /\ markdown' = markdown \cup {r}
        /\ run' = [run EXCEPT ![r] = Advanced(r)]
    BY DEF Write, At, Advance
  <1>2. HasFile(Advanced(r))
    BY <1>1, FileSteps, ReportAdvances
  <1> QED
    BY <1>1, <1>2, FilesFollow

\* Every other step of a run that is under way.
LEMMA OtherFiles ==
    ASSUME SessionInv, FilesSound, NEW r \in Runs,
           \/ Unlink(r) \/ Skip(r) \/ Fails(r) \/ Crash(r) \/ Check(r) \/ Find(r)
           \/ Fork(r) \/ Join(r) \/ DeleteChunks(r) \/ List(r) \/ Delete(r) \/ Clean(r)
    PROVE  FilesSound'
  <1>1. CASE Unlink(r)
    <2>1. run' = [run EXCEPT ![r] = Advanced(r)] /\ markdown' = markdown \ {r}
      BY <1>1 DEF Unlink, Advance
    <2> QED
      BY <2>1, FilesFollow
  <1>2. CASE Fails(r) \/ Crash(r)
    <2>1. /\ run' = [run EXCEPT ![r] = Fresh("analysis", "failed", FALSE)]
          /\ markdown' \subseteq markdown
      BY <1>2 DEF Fails, Crash, End, disk
    <2>2. HasFile(Fresh("analysis", "failed", FALSE))
      BY DEF Fresh, HasFile
    <2> QED
      BY <2>1, <2>2, FilesFollow
  <1>3. CASE \/ Skip(r) \/ Check(r) \/ Find(r) \/ Fork(r) \/ Join(r)
             \/ DeleteChunks(r) \/ List(r) \/ Delete(r) \/ Clean(r)
    <2>1. /\ r \in Active /\ markdown' = markdown
          /\ Step(r) \notin {"report", "unlink"}
      BY <1>3 DEF Skip, Check, Find, Finds, Fork, Join, DeleteChunks, List, Delete, Clean,
                  At, Scratch, disk
    <2>2. \E x : run' = [run EXCEPT ![r] = x]
      BY <1>3 DEF Skip, Check, Find, Fork, Join, DeleteChunks, List, Delete, Clean, Advance, End
    <2> QED
      BY <2>1, <2>2, FilesStay
  <1> QED
    BY <1>1, <1>2, <1>3

\* Starting and cancelling change no run's position, and coroutines no run.
LEMMA OthersLeaveFiles ==
    ASSUME SessionInv, FilesSound, NEW r \in Runs,
           Start(r) \/ Cancel(r) \/ \E s \in Gathered : Compute(r, s) \/ Save(r, s)
    PROVE  FilesSound'
  <1>1. \A q \in Runs : run[q] \in Run
    BY DEF SessionInv, RunsSound, RunSound
  <1>2. CASE Start(r)
    <2>1. PICK kind \in Kinds :
            run' = [q \in Runs |->
                  IF q = r
                  THEN Fresh(kind, "active",
                             \A p \in Active : ~ Conflict(kind, run[p].kind))
                  ELSE [run[q] EXCEPT !.undisturbed = @ /\ ~ Conflict(run[q].kind, kind)]]
      BY <1>2 DEF Start
    <2>2. run[r].status = "new" /\ markdown' = markdown
      BY <1>2 DEF Start, disk
    <2>3. r \notin markdown
      BY <2>2 DEF FilesSound, HasFile
    <2>4. ASSUME NEW q \in Runs \ {r}
          PROVE  /\ run'[q].kind = run[q].kind /\ run'[q].status = run[q].status
                 /\ run'[q].pos = run[q].pos
      <3> DEFINE x == run[q]
                 calm == x.undisturbed /\ ~ Conflict(x.kind, kind)
      <3>1. run'[q] = [x EXCEPT !.undisturbed = calm] /\ x \in Run
        BY <1>1, <2>1
      <3> HIDE DEF x, calm
      <3>2. run'[q].kind = x.kind /\ run'[q].status = x.status /\ run'[q].pos = x.pos
        BY <3>1 DEF Run
      <3> QED
        BY <3>2 DEF x
    <2> QED
      BY <2>2, <2>3, <2>4 DEF FilesSound, HasFile
  <1>3. CASE Cancel(r)
    <2> DEFINE x == run[r]
               y == [x EXCEPT !.cancelled = TRUE]
    <2>1. run' = [run EXCEPT ![r] = y] /\ markdown' = markdown /\ x \in Run
      BY <1>1, <1>3 DEF Cancel, disk
    <2>2. r \in markdown => HasFile(x)
      BY DEF FilesSound
    <2> HIDE DEF x
    <2>3. y.kind = x.kind /\ y.status = x.status /\ y.pos = x.pos
      BY <2>1 DEF Run
    <2>4. HasFile(x) => HasFile(y)
      BY <2>3 DEF HasFile
    <2> HIDE DEF y
    <2> QED
      BY <2>1, <2>2, <2>4, FilesFollow
  <1>4. CASE \E s \in Gathered : Compute(r, s) \/ Save(r, s)
    <2>1. run' = run /\ markdown' = markdown
      BY <1>4 DEF Compute, Save, disk
    <2> QED
      BY <2>1 DEF FilesSound
  <1> QED
    BY <1>2, <1>3, <1>4

LEMMA FilesStep == SessionInv /\ FilesSound /\ [Next]_vars => FilesSound'
  <1> SUFFICES ASSUME SessionInv, FilesSound, [Next]_vars PROVE FilesSound'
    OBVIOUS
  <1>1. CASE Next
    BY <1>1, WorkFiles, WriteFiles, OtherFiles, OthersLeaveFiles DEF Next
  <1>2. CASE UNCHANGED vars
    BY <1>2 DEF vars, disk, FilesSound
  <1> QED
    BY <1>1, <1>2

\* The file of a report (generate_report) is there while its run is between writing and
\* removing it, or after the run has failed.
LEMMA FilesInvariance == Spec => []FilesSound
  <1>1. Init => FilesSound
    BY DEF Init, FilesSound
  <1> QED
    BY <1>1, FilesStep, Invariance, PTL DEF Spec

-----------------------------------------------------------------------------
(* What follows for any runs.                                              *)

\* Types: runs stay within their scripts, and what an erasure found and what was
\* written too late is in the stores.
THEOREM SessionTypeCorrect == Spec => []TypeOK
  <1>1. SessionInv /\ FilesSound => TypeOK
    BY DEF SessionInv, RunsSound, RunSound, StoresSound, TasksSound, FilesSound, TypeOK
  <1> QED
    BY <1>1, Invariance, FilesInvariance, PTL

\* Whatever overlaps with it, a completed erasure (erase_data) has removed all
\* that was there when it began.
THEOREM ErasureRemovesWhatItFound == Spec => []SurvivorsAreNew
  <1>1. SessionInv => SurvivorsAreNew
    BY DEF SessionInv, RunsSound, RunSound, ErasureSound, SurvivorsAreNew, Completed
  <1> QED
    BY <1>1, Invariance, PTL

\* A job that the Backend cancels before its last inspection point
\* (_check_cancellation) does not complete.
THEOREM CancellationIsKept == Spec => []CancelledNeverCompletes
  <1>1. SessionInv => CancelledNeverCompletes
    BY DEF SessionInv, RunsSound, RunSound, CancelSound, CancelledNeverCompletes
  <1> QED
    BY <1>1, Invariance, PTL

-----------------------------------------------------------------------------
(* What is there when a run has completed: the invariant.                  *)

\* An undisturbed run shares its time with none that conflicts with it.
UndisturbedAlone ==
    \A q \in Runs : run[q].undisturbed =>
        /\ run[q].status \in {"active", "completed"}
        /\ \A p \in Active \ {q} : ~ Conflict(run[p].kind, run[q].kind)

\* Coroutines belong to runs that have gathered them.
TasksOwned ==
    \A r \in Runs :
        run[r].status = "new" \/ (run[r].status = "active" /\ run[r].kind \in Deletions)
        => task[r] = Idle

Passed(x) == {Script(x.kind)[i] : i \in 1..x.pos - 1}

\* With t the states of its coroutines, a run that is not a deletion has in the store s
\* what it has put there, what it has found there and what its coroutines have saved.
Owes(x) == x.undisturbed /\ x.kind \notin Deletions
Keeps(x, t, s) ==
    Owes(x) =>
        /\ x.status = "active" =>
             /\ Passed(x) \cap Outputs[x.kind] \subseteq s
             /\ x.cached \subseteq s
             /\ {n \in Gathered : t[n] = "done"} \subseteq s
             /\ "join" \in Passed(x) => Gathered \subseteq s
        /\ x.status = "completed" => Outputs[x.kind] \subseteq s

\* With l what was written too late and d what is on the disk, what an erasure that
\* nobody disturbs has done of its work.
Erases(x, s, l, d) ==
    x.undisturbed /\ x.kind = "erasure" =>
        /\ x.status = "active" =>
             /\ x.pos > 1 => "chunks" \notin s
             /\ x.pos = 3 => s \subseteq x.listed \cup (l \cap Gathered)
             /\ x.pos = 4 => s \subseteq l \cap Gathered
        /\ x.status = "completed" => s \subseteq l \cap Gathered /\ d \subseteq {"normalized"}

OutputsKept == \A r \in Runs : Keeps(run[r], task[r], stored)
ErasuresDone == \A r \in Runs : Erases(run[r], stored, late, scratch)

CompletionInv ==
    SessionInv /\ UndisturbedAlone /\ TasksOwned /\ OutputsKept /\ ErasuresDone

-----------------------------------------------------------------------------
(* Scripts: what they put, and who deletes.                                *)

\* Each output of a run is a step of its script or a coroutine's.
LEMMA ScriptPutsOutputs ==
    ASSUME NEW kind \in {"analysis", "answer", "report"}, NEW s,
           {Script(kind)[i] : i \in 1..Len(Script(kind))} \cap Outputs[kind] \subseteq s,
           "join" \in {Script(kind)[i] : i \in 1..Len(Script(kind))} => Gathered \subseteq s
    PROVE  Outputs[kind] \subseteq s
  <1>1. CASE kind = "analysis"
    <2>1. Script(kind) = AnalysisScript /\ Len(Script(kind)) = 18
      <3>1. Script(kind) = AnalysisScript
        BY <1>1 DEF Script, Deletions
      <3> QED
        BY <3>1 DEF AnalysisScript
    <2>2. /\ AnalysisScript[8] = "speech" /\ AnalysisScript[11] = "join"
          /\ AnalysisScript[18] = "analysis"
      BY DEF AnalysisScript
    <2>3. Outputs[kind] = {"speech", "vision", "audio", "analysis"}
      BY <1>1 DEF Outputs, Checkpoints
    <2>4. \A i \in 1..18 : AnalysisScript[i] \in {Script(kind)[j] : j \in 1..Len(Script(kind))}
      BY <2>1
    <2>5. {AnalysisScript[8], AnalysisScript[11], AnalysisScript[18]}
             \subseteq {Script(kind)[j] : j \in 1..Len(Script(kind))}
      BY <2>4
    <2> QED
      BY <2>2, <2>3, <2>5 DEF Gathered
  <1>2. CASE kind = "answer"
    <2>1. Script(kind) = AnswerScript /\ Len(Script(kind)) = 8
      <3>1. Script(kind) = AnswerScript
        BY <1>2 DEF Script, Deletions
      <3> QED
        BY <3>1 DEF AnswerScript
    <2>2. AnswerScript[5] = "transcript" /\ AnswerScript[8] = "assessment"
      BY DEF AnswerScript
    <2>3. Outputs[kind] = {"transcript", "assessment"}
      BY <1>2 DEF Outputs
    <2>4. \A i \in 1..8 : AnswerScript[i] \in {Script(kind)[j] : j \in 1..Len(Script(kind))}
      BY <2>1
    <2>5. {AnswerScript[5], AnswerScript[8]}
             \subseteq {Script(kind)[j] : j \in 1..Len(Script(kind))}
      BY <2>4
    <2> QED
      BY <2>2, <2>3, <2>5
  <1>3. CASE kind = "report"
    <2>1. Script(kind) = ReportScript /\ Len(Script(kind)) = 8
      <3>1. Script(kind) = ReportScript
        BY <1>3 DEF Script, Deletions
      <3> QED
        BY <3>1 DEF ReportScript
    <2>2. ReportScript[5] = "evaluation" /\ ReportScript[7] = "report"
      BY DEF ReportScript
    <2>3. Outputs[kind] = {"evaluation", "report"}
      BY <1>3 DEF Outputs
    <2>4. \A i \in 1..8 : ReportScript[i] \in {Script(kind)[j] : j \in 1..Len(Script(kind))}
      BY <2>1
    <2>5. {ReportScript[5], ReportScript[7]}
             \subseteq {Script(kind)[j] : j \in 1..Len(Script(kind))}
      BY <2>4
    <2> QED
      BY <2>2, <2>3, <2>5
  <1> QED
    BY <1>1, <1>2, <1>3

\* The steps of a deletion are no other run's.
DeletionSteps == {"deleteChunks", "list", "delete", "clean"}

LEMMA DeletionsDelete ==
    ASSUME SessionInv, NEW r \in Active
    PROVE  run[r].kind \in Deletions <=> Step(r) \in DeletionSteps
  <1> DEFINE i == run[r].pos
             kind == run[r].kind
  <1>1. kind \in AllKinds /\ i \in 1..Len(Script(kind)) /\ Step(r) = Script(kind)[i]
    BY ScriptLengths DEF SessionInv, RunsSound, RunSound, Active, Run, Step
  <1> HIDE DEF i, kind
  <1>2. kind = "analysis" => Step(r) \notin DeletionSteps
    BY <1>1 DEF Script, AnalysisScript, Deletions, DeletionSteps
  <1>3. kind = "answer" => Step(r) \notin DeletionSteps
    BY <1>1 DEF Script, AnswerScript, Deletions, DeletionSteps
  <1>4. kind = "report" => Step(r) \notin DeletionSteps
    BY <1>1 DEF Script, ReportScript, Deletions, DeletionSteps
  <1>5. kind \in Deletions => Step(r) \in DeletionSteps
    <2> SUFFICES ASSUME kind \in Deletions PROVE Step(r) \in DeletionSteps
      OBVIOUS
    <2>1. Script(kind) = DeletionScript
      BY DEF Script, Deletions
    <2>2. i \in 1..4
      BY <1>1, <2>1, ScriptLengths
    <2> QED
      BY <1>1, <2>1, <2>2 DEF DeletionScript, DeletionSteps
  <1> QED
    BY <1>1, <1>2, <1>3, <1>4, <1>5 DEF AllKinds, kind, Deletions

\* No output is what a deletion of chunks removes.
LEMMA OutputsAreObjects ==
    ASSUME NEW kind \in AllKinds \ Deletions
    PROVE  Outputs[kind] \subseteq Objects /\ "chunks" \notin Objects
  BY DEF AllKinds, Outputs, Objects, Checkpoints, Published

-----------------------------------------------------------------------------
(* What a step leaves as it was.                                           *)

\* A larger store, or one that has lost nothing but chunks, will do.
LEMMA KeepsMore ==
    ASSUME NEW x \in Run, NEW t, NEW s, NEW u, Keeps(x, t, s),
           s \subseteq u \cup {"chunks"}
    PROVE  Keeps(x, t, u)
  <1>1. x.kind \in AllKinds /\ x.cached \subseteq Checkpoints
    BY DEF Run
  <1>2. "chunks" \notin Checkpoints /\ "chunks" \notin Gathered
    BY DEF Checkpoints, Gathered
  <1> QED
    BY <1>1, <1>2, OutputsAreObjects DEF Keeps, Owes

\* A step further, a run keeps what it had and what the step has put.
LEMMA AdvancedKeeps ==
    ASSUME SessionInv, NEW r \in Active, NEW t, NEW s, Keeps(run[r], t, s),
           Owes(run[r]) => /\ Step(r) \in Outputs[run[r].kind] => Step(r) \in s
                           /\ Step(r) = "join" => Gathered \subseteq s
    PROVE  Keeps(Advanced(r), t, s)
  <1> DEFINE x == run[r]
             len == Len(Script(x.kind))
  <1>1. /\ x \in Run /\ x.status = "active" /\ x.pos \in 1..len /\ len \in Nat
        /\ Step(r) = Script(x.kind)[x.pos]
    BY ScriptLengths DEF SessionInv, RunsSound, RunSound, Active, Run, Step
  <1>2. \A i \in 1..x.pos : i \in 1..x.pos - 1 \/ i = x.pos
    BY <1>1
  <1>3. {Script(x.kind)[i] : i \in 1..x.pos} \subseteq Passed(x) \cup {Step(r)}
    BY <1>1, <1>2 DEF Passed
  <1>4. CASE x.pos = len
    <2>1. /\ Advanced(r).kind = x.kind /\ Advanced(r).status = "completed"
          /\ Advanced(r).undisturbed = x.undisturbed
      BY <1>1, <1>4 DEF Advanced, Run
    <2>2. ASSUME Owes(x) PROVE Outputs[x.kind] \subseteq s
      <3>1. /\ Passed(x) \cap Outputs[x.kind] \subseteq s
            /\ "join" \in Passed(x) => Gathered \subseteq s
        BY <1>1, <2>2 DEF Keeps
      <3>2. x.kind \in {"analysis", "answer", "report"}
        BY <1>1, <2>2 DEF Owes, Run, AllKinds
      <3>3. {Script(x.kind)[i] : i \in 1..len} \subseteq Passed(x) \cup {Step(r)}
        BY <1>3, <1>4
      <3>4. {Script(x.kind)[i] : i \in 1..len} \cap Outputs[x.kind] \subseteq s
        BY <2>2, <3>1, <3>3
      <3>5. "join" \in {Script(x.kind)[i] : i \in 1..len} => Gathered \subseteq s
        BY <2>2, <3>1, <3>3
      <3> HIDE DEF x
      <3> QED
        BY <3>2, <3>4, <3>5, ScriptPutsOutputs
    <2> QED
      BY <2>1, <2>2 DEF Keeps, Owes
  <1>5. CASE x.pos # len
    <2>1. /\ Advanced(r).kind = x.kind /\ Advanced(r).status = "active"
          /\ Advanced(r).undisturbed = x.undisturbed /\ Advanced(r).pos = x.pos + 1
          /\ Advanced(r).cached = x.cached
      BY <1>1, <1>5 DEF Advanced, Run
    <2>2. (x.pos + 1) - 1 = x.pos
      BY <1>1
    <2>3. Passed(Advanced(r)) \subseteq Passed(x) \cup {Step(r)}
      BY <1>3, <2>1, <2>2 DEF Passed
    <2> QED
      BY <1>1, <2>1, <2>3 DEF Keeps, Owes
  <1> QED
    BY <1>4, <1>5

\* What an action of run r may do to it: take it further, or end it.
Goes(r, x) ==
    /\ r \in Active /\ run' = [run EXCEPT ![r] = x]
    /\ x.status # "new"
    /\ x.status = "active" => x.kind = run[r].kind
    /\ x.undisturbed => /\ run[r].undisturbed /\ x.kind = run[r].kind
                        /\ x.status \in {"active", "completed"}

LEMMA AdvancedRuns ==
    ASSUME SessionInv, NEW r \in Active
    PROVE  /\ Advanced(r) \in Run /\ Advanced(r).kind = run[r].kind
           /\ Advanced(r).undisturbed = run[r].undisturbed
           /\ Advanced(r).status \in {"active", "completed"}
  <1> DEFINE x == run[r]
  <1>1. x \in Run /\ x.status = "active"
    BY DEF SessionInv, RunsSound, RunSound, Active
  <1>2. \/ Advanced(r) = [x EXCEPT !.status = "completed", !.cached = {}, !.listed = {}]
        \/ Advanced(r) = [x EXCEPT !.pos = @ + 1]
    BY DEF Advanced
  <1> HIDE DEF x
  <1>3. x.pos + 1 \in Nat \ {0}
    BY <1>1 DEF Run
  <1>4. /\ Advanced(r) \in Run /\ Advanced(r).kind = x.kind
        /\ Advanced(r).undisturbed = x.undisturbed
        /\ Advanced(r).status \in {"active", "completed"}
    BY <1>1, <1>2, <1>3 DEF Run
  <1> QED
    BY <1>4 DEF x

LEMMA AdvancedGoes ==
    ASSUME SessionInv, NEW r \in Active, run' = [run EXCEPT ![r] = Advanced(r)]
    PROVE  Goes(r, Advanced(r))
  BY AdvancedRuns DEF Goes

LEMMA EndGoes ==
    ASSUME NEW r \in Active, NEW status \in {"failed", "cancelled"}, End(r, status)
    PROVE  \E x : Goes(r, x) /\ ~ x.undisturbed /\ x.status = status
  <1> DEFINE x == Fresh("analysis", status, FALSE)
  <1>1. x.status = status /\ x.undisturbed = FALSE
    BY DEF Fresh
  <1>2. run' = [run EXCEPT ![r] = x]
    BY DEF End
  <1> HIDE DEF x
  <1> QED
    BY <1>1, <1>2 DEF Goes

\* The other runs, and what they need.
LEMMA GoesOthers ==
    ASSUME CompletionInv, NEW r, NEW x, Goes(r, x), SessionInv',
           \A q \in Runs \ {r} : task'[q] = task[q],
           x.status = "active" /\ x.kind \in Deletions => task'[r] = Idle,
           stored \subseteq stored' \cup {"chunks"} \/ run[r].kind \in Deletions,
           Keeps(x, task'[r], stored'),
           Erases(x, stored', late', scratch')
    PROVE  CompletionInv'
  <1>1. r \in Active /\ r \in Runs /\ run'[r] = x /\ \A q \in Runs \ {r} : run'[q] = run[q]
    BY DEF Goes, Active, CompletionInv, SessionInv, RunsSound
  <1>2. \A q \in Active' : q \in Active /\ run'[q].kind = run[q].kind
    BY <1>1 DEF Active, Goes
  <1>3. UndisturbedAlone'
    <2> SUFFICES ASSUME NEW q \in Runs, run'[q].undisturbed
                 PROVE  /\ run'[q].status \in {"active", "completed"}
                        /\ \A p \in Active' \ {q} : ~ Conflict(run'[p].kind, run'[q].kind)
      BY DEF UndisturbedAlone
    <2>1. run[q].undisturbed /\ run'[q].kind = run[q].kind
      BY <1>1 DEF Goes
    <2>2. run'[q].status \in {"active", "completed"}
      BY <1>1, <2>1 DEF Goes, CompletionInv, UndisturbedAlone
    <2> QED
      BY <1>2, <2>1, <2>2 DEF CompletionInv, UndisturbedAlone
  <1>4. TasksOwned'
    <2> SUFFICES ASSUME NEW q \in Runs,
                        \/ run'[q].status = "new"
                        \/ run'[q].status = "active" /\ run'[q].kind \in Deletions
                 PROVE  task'[q] = Idle
      BY DEF TasksOwned
    <2> QED
      BY <1>1 DEF Goes, CompletionInv, TasksOwned
  <1>5. OutputsKept'
    <2> SUFFICES ASSUME NEW q \in Runs, q # r PROVE Keeps(run'[q], task'[q], stored')
      BY <1>1 DEF OutputsKept
    <2>1. Keeps(run[q], task[q], stored) /\ run[q] \in Run
      BY DEF CompletionInv, OutputsKept, SessionInv, RunsSound, RunSound
    <2>2. CASE run[r].kind \in Deletions
      <3>1. ~ run[q].undisturbed
        BY <1>1, <2>2 DEF CompletionInv, UndisturbedAlone, Conflict
      <3> QED
        BY <1>1, <3>1 DEF Keeps, Owes
    <2>3. CASE stored \subseteq stored' \cup {"chunks"}
      BY <1>1, <2>1, <2>3, KeepsMore
    <2> QED
      BY <2>2, <2>3
  <1>6. ErasuresDone'
    <2> SUFFICES ASSUME NEW q \in Runs, q # r
                 PROVE  Erases(run'[q], stored', late', scratch')
      BY <1>1 DEF ErasuresDone
    <2>1. ~ (run[q].undisturbed /\ run[q].kind = "erasure")
      BY <1>1 DEF CompletionInv, UndisturbedAlone, Conflict, Deletions
    <2> QED
      BY <1>1, <2>1 DEF Erases
  <1> QED
    BY <1>3, <1>4, <1>5, <1>6 DEF CompletionInv

-----------------------------------------------------------------------------
(* The actions.                                                            *)

LEMMA StartCompletes ==
    ASSUME CompletionInv, SessionInv', NEW r \in Runs, Start(r)
    PROVE  CompletionInv'
  <1>1. PICK kind \in Kinds :
          run' = [q \in Runs |->
                IF q = r
                THEN Fresh(kind, "active",
                           \A p \in Active : ~ Conflict(kind, run[p].kind))
                ELSE [run[q] EXCEPT !.undisturbed = @ /\ ~ Conflict(run[q].kind, kind)]]
    BY DEF Start, disk
  <1>2. run[r].status = "new" /\ UNCHANGED <<task, stored, late, scratch>>
    BY DEF Start, disk
  <1>3. /\ run'[r].kind = kind /\ run'[r].status = "active" /\ run'[r].pos = 1
        /\ run'[r].cached = {}
        /\ run'[r].undisturbed = \A p \in Active : ~ Conflict(kind, run[p].kind)
    BY <1>1 DEF Fresh
  <1>4. ASSUME NEW q \in Runs \ {r}
        PROVE  /\ run'[q].kind = run[q].kind /\ run'[q].status = run[q].status
               /\ run'[q].pos = run[q].pos /\ run'[q].cached = run[q].cached
               /\ run'[q].undisturbed => run[q].undisturbed /\ ~ Conflict(run[q].kind, kind)
    <2> DEFINE x == run[q]
               calm == x.undisturbed /\ ~ Conflict(x.kind, kind)
    <2>1. run'[q] = [x EXCEPT !.undisturbed = calm] /\ x \in Run
      BY <1>1 DEF CompletionInv, SessionInv, RunsSound, RunSound
    <2> HIDE DEF x
    <2>2. /\ run'[q].kind = x.kind /\ run'[q].status = x.status
          /\ run'[q].pos = x.pos /\ run'[q].cached = x.cached
          /\ run'[q].undisturbed = calm
      BY <2>1 DEF Run
    <2> QED
      BY <2>2 DEF x
  <1>5. \A p \in Active' : p = r \/ (p \in Active /\ run'[p].kind = run[p].kind)
    BY <1>4 DEF Active
  <1>6. UndisturbedAlone'
    <2> SUFFICES ASSUME NEW q \in Runs, run'[q].undisturbed
                 PROVE  /\ run'[q].status \in {"active", "completed"}
                        /\ \A p \in Active' \ {q} : ~ Conflict(run'[p].kind, run'[q].kind)
      BY DEF UndisturbedAlone
    <2>1. CASE q = r
      BY <1>3, <1>5, <2>1 DEF Conflict
    <2>2. CASE q # r
      BY <1>3, <1>4, <1>5, <2>2 DEF CompletionInv, UndisturbedAlone, Conflict
    <2> QED
      BY <2>1, <2>2
  <1>7. TasksOwned'
    BY <1>2, <1>4 DEF CompletionInv, TasksOwned
  <1>8. OutputsKept'
    <2> SUFFICES ASSUME NEW q \in Runs PROVE Keeps(run'[q], task[q], stored)
      BY <1>2 DEF OutputsKept
    <2>1. CASE q = r
      <3>1. task[r] = Idle /\ {n \in Gathered : Idle[n] = "done"} = {}
        BY <1>2 DEF CompletionInv, TasksOwned, Idle
      <3>2. Passed(run'[r]) = {}
        BY <1>3 DEF Passed
      <3> QED
        BY <1>3, <2>1, <3>1, <3>2 DEF Keeps
    <2>2. CASE q # r
      <3>1. Keeps(run[q], task[q], stored)
        BY DEF CompletionInv, OutputsKept
      <3>2. Passed(run'[q]) = Passed(run[q]) /\ (Owes(run'[q]) => Owes(run[q]))
        BY <1>4, <2>2 DEF Passed, Owes
      <3> QED
        BY <1>4, <2>2, <3>1, <3>2 DEF Keeps
    <2> QED
      BY <2>1, <2>2
  <1>9. ErasuresDone'
    <2> SUFFICES ASSUME NEW q \in Runs PROVE Erases(run'[q], stored, late, scratch)
      BY <1>2 DEF ErasuresDone
    <2>1. CASE q = r
      BY <1>3, <2>1 DEF Erases
    <2>2. CASE q # r
      BY <1>4, <2>2 DEF Erases, Conflict, Deletions
    <2> QED
      BY <2>1, <2>2
  <1> QED
    BY <1>6, <1>7, <1>8, <1>9 DEF CompletionInv

\* A run that ends early owes nothing.
LEMMA EndCompletes ==
    ASSUME CompletionInv, SessionInv', NEW r \in Active,
           NEW status \in {"failed", "cancelled"}, End(r, status),
           \A q \in Runs \ {r} : task'[q] = task[q],
           stored \subseteq stored' \/ run[r].kind \in Deletions
    PROVE  CompletionInv'
  <1>1. PICK x : Goes(r, x) /\ ~ x.undisturbed /\ x.status = status
    BY EndGoes
  <1>2. Keeps(x, task'[r], stored') /\ Erases(x, stored', late', scratch')
    BY <1>1 DEF Keeps, Owes, Erases
  <1> QED
    BY <1>1, <1>2, GoesOthers

\* A run that is no deletion goes on.
LEMMA AdvanceCompletes ==
    ASSUME CompletionInv, SessionInv', NEW r \in Active, Advance(r),
           Step(r) \notin DeletionSteps,
           \A q \in Runs \ {r} : task'[q] = task[q],
           stored \subseteq stored',
           Keeps(run[r], task'[r], stored'),
           Owes(run[r]) => /\ Step(r) \in Outputs[run[r].kind] => Step(r) \in stored'
                           /\ Step(r) = "join" => Gathered \subseteq stored'
    PROVE  CompletionInv'
  <1>1. SessionInv
    BY DEF CompletionInv
  <1>2. Goes(r, Advanced(r))
    BY <1>1, AdvancedGoes DEF Advance
  <1>3. run[r].kind \notin Deletions /\ Advanced(r).kind = run[r].kind
    BY <1>1, DeletionsDelete, AdvancedKind
  <1>4. Keeps(Advanced(r), task'[r], stored')
    BY <1>1, AdvancedKeeps
  <1>5. Erases(Advanced(r), stored', late', scratch')
    BY <1>3 DEF Erases, Deletions
  <1> QED
    BY <1>1, <1>2, <1>3, <1>4, <1>5, GoesOthers

\* No task changes and the store only grows.
LEMMA StillKeeps ==
    ASSUME CompletionInv, NEW r \in Active, task' = task, stored \subseteq stored'
    PROVE  Keeps(run[r], task'[r], stored')
  <1>1. Keeps(run[r], task[r], stored) /\ run[r] \in Run
    BY DEF CompletionInv, OutputsKept, SessionInv, RunsSound, RunSound, Active
  <1> QED
    BY <1>1, KeepsMore

LEMMA EffectGrows ==
    ASSUME NEW r, Effect(r)
    PROVE  stored \subseteq stored'
  BY DEF Effect, Put, stores

LEMMA WorkCompletes ==
    ASSUME CompletionInv, SessionInv', NEW r \in Runs, Work(r)
    PROVE  CompletionInv'
  <1>1. /\ r \in Active /\ Step(r) \in Names \cup Scratch \cup Thinking
        /\ Effect(r) /\ Advance(r) /\ task' = task
    BY DEF Work
  <1>2. stored \subseteq stored'
    BY <1>1, EffectGrows
  <1>3. Keeps(run[r], task'[r], stored')
    BY <1>1, <1>2, StillKeeps
  <1>4. Step(r) \notin DeletionSteps /\ Step(r) # "join"
    BY <1>1 DEF Names, Objects, Checkpoints, Published, Scratch, Thinking, DeletionSteps
  <1>5. ASSUME Owes(run[r]), Step(r) \in Outputs[run[r].kind]
        PROVE  Step(r) \in stored'
    <2>1. run[r].kind \in AllKinds \ Deletions /\ run[r].status = "active"
      BY <1>1, <1>5 DEF Owes, CompletionInv, SessionInv, RunsSound, RunSound, Run, Active
    <2>2. Step(r) \in Objects
      BY <1>5, <2>1, OutputsAreObjects
    <2>3. CASE Reused(r)
      <3>1. Step(r) = "speech"
        BY <2>2, <2>3 DEF Reused, Objects, Checkpoints, Published
      <3>2. "speech" \in run[r].cached
        BY <2>3 DEF Reused, Cached
      <3> QED
        BY <1>3, <1>5, <2>1, <3>1, <3>2 DEF Keeps
    <2>4. CASE ~ Reused(r)
      BY <1>1, <2>2, <2>4 DEF Effect, Put, Names
    <2> QED
      BY <2>3, <2>4
  <1> QED
    BY <1>1, <1>2, <1>3, <1>4, <1>5, AdvanceCompletes

\* What is not put is no output.
LEMMA NotAnOutput ==
    ASSUME SessionInv, NEW r \in Active, run[r].kind \notin Deletions,
           Step(r) \notin Objects
    PROVE  Step(r) \notin Outputs[run[r].kind]
  <1>1. run[r].kind \in AllKinds
    BY DEF SessionInv, RunsSound, RunSound, Run, Active
  <1> QED
    BY <1>1, OutputsAreObjects

LEMMA SkipCompletes ==
    ASSUME CompletionInv, SessionInv', NEW r \in Runs, Skip(r)
    PROVE  CompletionInv'
  <1>1. /\ r \in Active /\ Step(r) \in Scratch \cup {"chunks"} /\ Advance(r)
        /\ task' = task /\ stored' = stored
    BY DEF Skip, stores, disk
  <1>2. Step(r) \notin DeletionSteps /\ Step(r) # "join" /\ Step(r) \notin Objects
    BY <1>1 DEF Scratch, DeletionSteps, Objects, Checkpoints, Published
  <1>3. Keeps(run[r], task'[r], stored')
    BY <1>1, StillKeeps
  <1>4. Owes(run[r]) => Step(r) \notin Outputs[run[r].kind]
    BY <1>1, <1>2, NotAnOutput DEF Owes, CompletionInv
  <1> QED
    BY <1>1, <1>2, <1>3, <1>4, AdvanceCompletes

LEMMA FileStepCompletes ==
    ASSUME CompletionInv, SessionInv', NEW r \in Runs, Write(r) \/ Unlink(r)
    PROVE  CompletionInv'
  <1>1. /\ r \in Active /\ Step(r) \in {"write", "unlink"} /\ Advance(r)
        /\ task' = task /\ stored' = stored
    BY DEF Write, Unlink, At, stores
  <1>2. Step(r) \notin DeletionSteps /\ Step(r) # "join" /\ Step(r) \notin Objects
    BY <1>1 DEF DeletionSteps, Objects, Checkpoints, Published
  <1>3. Keeps(run[r], task'[r], stored')
    BY <1>1, StillKeeps
  <1>4. Owes(run[r]) => Step(r) \notin Outputs[run[r].kind]
    BY <1>1, <1>2, NotAnOutput DEF Owes, CompletionInv
  <1> QED
    BY <1>1, <1>2, <1>3, <1>4, AdvanceCompletes

LEMMA FailsCompletes ==
    ASSUME CompletionInv, SessionInv', NEW r \in Runs, Fails(r) \/ Crash(r)
    PROVE  CompletionInv'
  <1>1. r \in Active /\ End(r, "failed") /\ \A q \in Runs \ {r} : task'[q] = task[q]
    BY DEF Fails, Crash, CompletionInv, SessionInv, TasksSound, disk
  <1>2. stored \subseteq stored'
    BY EffectGrows DEF Fails, Crash, stores, disk
  <1> QED
    BY <1>1, <1>2, EndCompletes

LEMMA CancelCompletes ==
    ASSUME CompletionInv, SessionInv', NEW r \in Runs, Cancel(r)
    PROVE  CompletionInv'
  <1> DEFINE x == run[r]
             y == [x EXCEPT !.cancelled = TRUE]
  <1>1. /\ r \in Active /\ x \in Run /\ x.status = "active"
        /\ run' = [run EXCEPT ![r] = y]
        /\ UNCHANGED <<task, stored, late, scratch>>
    BY DEF Cancel, stores, Active, CompletionInv, SessionInv, RunsSound, RunSound, disk
  <1>2. /\ Keeps(x, task[r], stored) /\ Erases(x, stored, late, scratch)
        /\ x.kind \in Deletions => task[r] = Idle
    BY <1>1 DEF CompletionInv, OutputsKept, ErasuresDone, TasksOwned
  <1>3. x = run[r]
    OBVIOUS
  <1> HIDE DEF x
  <1>4. /\ y.kind = x.kind /\ y.pos = x.pos /\ y.status = x.status /\ y.cached = x.cached
        /\ y.listed = x.listed /\ y.undisturbed = x.undisturbed
    BY <1>1 DEF Run
  <1> HIDE DEF y
  <1>5. Keeps(y, task[r], stored) /\ Erases(y, stored, late, scratch)
    BY <1>2, <1>4 DEF Keeps, Owes, Passed, Erases
  <1>6. Goes(r, y)
    BY <1>1, <1>3, <1>4 DEF Goes
  <1> QED
    BY <1>1, <1>2, <1>4, <1>5, <1>6, GoesOthers

LEMMA CheckCompletes ==
    ASSUME CompletionInv, SessionInv', NEW r \in Runs, Check(r)
    PROVE  CompletionInv'
  <1>1. /\ r \in Active /\ Step(r) = "check" /\ task' = task /\ stored' = stored
        /\ End(r, "cancelled") \/ Advance(r)
    BY DEF Check, At, stores
  <1>2. CASE End(r, "cancelled")
    BY <1>1, <1>2, EndCompletes
  <1>3. CASE Advance(r)
    <2>1. Step(r) \notin DeletionSteps /\ Step(r) # "join" /\ Step(r) \notin Objects
      BY <1>1 DEF DeletionSteps, Objects, Checkpoints, Published
    <2>2. Owes(run[r]) => Step(r) \notin Outputs[run[r].kind]
      BY <1>1, <2>1, NotAnOutput DEF Owes, CompletionInv
    <2> QED
      BY <1>1, <1>3, <2>1, <2>2, StillKeeps, AdvanceCompletes
  <1> QED
    BY <1>1, <1>2, <1>3

\* What is found is there.
LEMMA FindCompletes ==
    ASSUME CompletionInv, SessionInv', NEW r \in Runs, Find(r)
    PROVE  CompletionInv'
  <1> DEFINE x == Advanced(r)
  <1>1. PICK hit \in SUBSET ({Finds[Step(r)]} \cap stored) :
          run' = [run EXCEPT ![r] = [x EXCEPT !.cached = @ \cup hit]]
    BY DEF Find, disk
  <1> DEFINE y == [x EXCEPT !.cached = @ \cup hit]
  <1>2. /\ r \in Active /\ Step(r) \in {"findSpeech", "findVision", "findAudio"}
        /\ task' = task /\ UNCHANGED <<stored, late, scratch>> /\ SessionInv
    BY DEF Find, Finds, stores, CompletionInv, disk
  <1>3. Step(r) \notin DeletionSteps /\ Step(r) # "join" /\ Step(r) \notin Objects
    BY <1>2 DEF DeletionSteps, Objects, Checkpoints, Published
  <1>4. run[r].kind \notin Deletions
    BY <1>2, <1>3, DeletionsDelete
  <1>5. Keeps(x, task[r], stored)
    BY <1>2, <1>3, <1>4, NotAnOutput, AdvancedKeeps
    DEF CompletionInv, OutputsKept, Active
  <1>6. x \in Run
    BY <1>2, AdvancedRuns
  <1>7. x.kind = run[r].kind /\ x.undisturbed = run[r].undisturbed
        /\ x.status \in {"active", "completed"}
    BY <1>2, AdvancedRuns
  <1> HIDE DEF x
  <1>8. /\ y.kind = x.kind /\ y.pos = x.pos /\ y.status = x.status
        /\ y.undisturbed = x.undisturbed /\ y.cached = x.cached \cup hit
    BY <1>6 DEF Run
  <1>9. run' = [run EXCEPT ![r] = y]
    BY <1>1
  <1> HIDE DEF y
  <1>10. Passed(y) = Passed(x)
    BY <1>8 DEF Passed
  <1>11. Keeps(y, task[r], stored)
    BY <1>5, <1>8, <1>10 DEF Keeps, Owes
  <1>12. Erases(y, stored, late, scratch) /\ Goes(r, y)
    BY <1>2, <1>4, <1>7, <1>8, <1>9 DEF Erases, Goes, Deletions
  <1> QED
    BY <1>2, <1>4, <1>7, <1>8, <1>11, <1>12, GoesOthers

\* A stage whose checkpoint was found needs no saving.
LEMMA ForkCompletes ==
    ASSUME CompletionInv, SessionInv', NEW r \in Runs, Fork(r)
    PROVE  CompletionInv'
  <1>1. PICK valid \in SUBSET run[r].cached :
          task' = [task EXCEPT ![r] = [s \in Gathered |->
                     IF s \in valid THEN "done"
                     ELSE IF Cached(r, s) THEN "failed" ELSE "running"]]
    BY DEF Fork, disk
  <1>2. r \in Active /\ Step(r) = "fork" /\ Advance(r) /\ stored' = stored
    BY DEF Fork, At, stores, disk
  <1>3. /\ \A q \in Runs \ {r} : task'[q] = task[q]
        /\ \A s \in Gathered : task'[r][s] = "done" => s \in valid
    BY <1>1 DEF CompletionInv, SessionInv, TasksSound
  <1>4. Keeps(run[r], task[r], stored) /\ run[r].status = "active"
    BY <1>2 DEF CompletionInv, OutputsKept, Active
  <1>5. Keeps(run[r], task'[r], stored')
    BY <1>1, <1>2, <1>3, <1>4 DEF Keeps
  <1>6. Step(r) \notin DeletionSteps /\ Step(r) # "join" /\ Step(r) \notin Objects
    BY <1>2 DEF DeletionSteps, Objects, Checkpoints, Published
  <1>7. Owes(run[r]) => Step(r) \notin Outputs[run[r].kind]
    BY <1>2, <1>6, NotAnOutput DEF Owes, CompletionInv
  <1> QED
    BY <1>2, <1>3, <1>5, <1>6, <1>7, AdvanceCompletes

\* gather returns when both checkpoints are saved.
LEMMA JoinCompletes ==
    ASSUME CompletionInv, SessionInv', NEW r \in Runs, Join(r)
    PROVE  CompletionInv'
  <1>1. /\ r \in Active /\ Step(r) = "join" /\ stored' = stored
        /\ \/ (\A s \in Gathered : task[r][s] = "done") /\ Advance(r)
           \/ End(r, "failed")
        /\ task' = [task EXCEPT ![r] = Unfinished(r)]
    BY DEF Join, At, stores, disk
  <1>2. /\ \A q \in Runs \ {r} : task'[q] = task[q]
        /\ \A s \in Gathered : task'[r][s] # "done"
    BY <1>1 DEF CompletionInv, SessionInv, TasksSound, Unfinished
  <1>3. CASE End(r, "failed")
    BY <1>1, <1>2, <1>3, EndCompletes
  <1>4. CASE (\A s \in Gathered : task[r][s] = "done") /\ Advance(r)
    <2>1. Keeps(run[r], task[r], stored) /\ run[r].status = "active"
      BY <1>1 DEF CompletionInv, OutputsKept, Active
    <2>2. Keeps(run[r], task'[r], stored')
      BY <1>1, <1>2, <2>1 DEF Keeps
    <2>3. Step(r) \notin DeletionSteps /\ Step(r) \notin Objects
      BY <1>1 DEF DeletionSteps, Objects, Checkpoints, Published
    <2>4. Owes(run[r]) => Step(r) \notin Outputs[run[r].kind] /\ Gathered \subseteq stored'
      BY <1>1, <1>4, <2>1, <2>3, NotAnOutput DEF Owes, CompletionInv, Keeps
    <2> QED
      BY <1>1, <1>2, <1>4, <2>2, <2>3, <2>4, AdvanceCompletes
  <1> QED
    BY <1>1, <1>3, <1>4

\* A coroutine: what it saves is there; what it saves after its run's end is late.
LEMMA CoroutineCompletes ==
    ASSUME CompletionInv, SessionInv', NEW r \in Runs, NEW s \in Gathered,
           Compute(r, s) \/ Save(r, s)
    PROVE  CompletionInv'
  <1>1. /\ run' = run /\ scratch' = scratch /\ task[r][s] \in {"running", "saving"}
        /\ \E state : Becomes(r, s, state) /\ (state = "done" => s \in stored')
    BY DEF Compute, Save, Put, disk
  <1>2. UNCHANGED stores \/ Put(r, s)
    BY DEF Compute, Save, disk
  <1>3. \A q \in Runs \ {r} : task'[q] = task[q]
    BY <1>1 DEF Becomes, CompletionInv, SessionInv, TasksSound
  <1>4. \A n \in Gathered : task'[r][n] = "done" => task[r][n] = "done" \/ n \in stored'
    BY <1>1 DEF Becomes, CompletionInv, SessionInv, TasksSound
  <1>5. task[r] # Idle
    BY <1>1 DEF Idle
  <1>6. run[r].status # "new" /\ ~ (run[r].status = "active" /\ run[r].kind \in Deletions)
    BY <1>5 DEF CompletionInv, TasksOwned
  <1>7. UndisturbedAlone'
    BY <1>1 DEF CompletionInv, UndisturbedAlone, Active
  <1>8. TasksOwned'
    <2> SUFFICES ASSUME NEW q \in Runs,
                        \/ run[q].status = "new"
                        \/ run[q].status = "active" /\ run[q].kind \in Deletions
                 PROVE  task'[q] = Idle
      BY <1>1 DEF TasksOwned
    <2> QED
      BY <1>3, <1>6 DEF CompletionInv, TasksOwned
  <1>9. OutputsKept'
    <2> SUFFICES ASSUME NEW q \in Runs PROVE Keeps(run[q], task'[q], stored')
      BY <1>1 DEF OutputsKept
    <2>1. Keeps(run[q], task[q], stored) /\ run[q] \in Run
      BY DEF CompletionInv, OutputsKept, SessionInv, RunsSound, RunSound
    <2>2. stored \subseteq stored'
      BY <1>2 DEF Put, stores
    <2>3. Keeps(run[q], task[q], stored')
      BY <2>1, <2>2, KeepsMore
    <2> QED
      BY <1>3, <1>4, <2>3 DEF Keeps
  <1>10. ErasuresDone'
    <2> SUFFICES ASSUME NEW q \in Runs, run[q].undisturbed, run[q].kind = "erasure"
                 PROVE  Erases(run[q], stored', late', scratch)
      BY <1>1 DEF ErasuresDone, Erases
    <2>1. r \notin Active
      BY <1>6 DEF CompletionInv, UndisturbedAlone, Conflict, Deletions, Active
    <2>2. /\ stored' \subseteq stored \cup {s} /\ late \subseteq late'
          /\ stored' = stored \/ s \in late'
      BY <1>2, <2>1 DEF Put, stores
    <2>3. s # "chunks"
      BY DEF Gathered
    <2>4. Erases(run[q], stored, late, scratch)
      BY DEF CompletionInv, ErasuresDone
    <2> QED
      BY <2>2, <2>3, <2>4 DEF Erases
  <1> QED
    BY <1>7, <1>8, <1>9, <1>10 DEF CompletionInv

\* An undisturbed erasure removes the chunks, lists the objects, deletes what it has
\* listed and cleans the disk; of an erasure that somebody disturbs nothing is claimed.
LEMMA DeletionCompletes ==
    ASSUME CompletionInv, SessionInv', NEW r \in Active, NEW x, Goes(r, x),
           task' = task, run[r].kind \in Deletions,
           x.undisturbed => Erases(x, stored', late', scratch')
    PROVE  CompletionInv'
  <1>1. r \in Runs /\ run[r].status = "active"
    BY DEF Active
  <1>2. task[r] = Idle
    BY <1>1 DEF CompletionInv, TasksOwned
  <1>3. Keeps(x, task'[r], stored') /\ Erases(x, stored', late', scratch')
    BY DEF Keeps, Owes, Erases, Goes
  <1> QED
    BY <1>2, <1>3, GoesOthers

\* Where an erasure stands.
LEMMA ErasureStands ==
    ASSUME CompletionInv, NEW r \in Active, run[r].kind = "erasure", run[r].undisturbed
    PROVE  /\ run[r].pos > 1 => "chunks" \notin stored
           /\ run[r].pos = 3 => stored \subseteq run[r].listed \cup (late \cap Gathered)
           /\ run[r].pos = 4 => stored \subseteq late \cap Gathered
  <1>1. r \in Runs /\ run[r].status = "active"
    BY DEF Active
  <1>2. Erases(run[r], stored, late, scratch)
    BY <1>1 DEF CompletionInv, ErasuresDone
  <1> QED
    BY <1>1, <1>2 DEF Erases

LEMMA DeleteChunksCompletes ==
    ASSUME CompletionInv, SessionInv', NEW r \in Runs, DeleteChunks(r)
    PROVE  CompletionInv'
  <1>1. /\ r \in Active /\ Step(r) = "deleteChunks" /\ task' = task
        /\ Remove({"chunks"}) \/ run[r].kind # "erasure"
        /\ run' = [run EXCEPT ![r] = Advanced(r)] /\ SessionInv
    BY DEF DeleteChunks, At, Advance, CompletionInv, disk
  <1>2. run[r].kind \in Deletions /\ Goes(r, Advanced(r)) /\ Advanced(r).kind = run[r].kind
    BY <1>1, DeletionsDelete, AdvancedGoes, AdvancedKind DEF DeletionSteps
  <1>3. ASSUME run[r].kind = "erasure" PROVE Erases(Advanced(r), stored', late', scratch')
    <2>1. run[r].pos = 1
      BY <1>1, <1>3, ErasureSteps
    <2>2. Advanced(r).status = "active" /\ Advanced(r).pos = 2
      BY <1>1, <1>3, <2>1, ErasureAdvances
    <2>3. "chunks" \notin stored'
      BY <1>1, <1>3 DEF Remove
    <2> QED
      BY <2>2, <2>3 DEF Erases
  <1>4. Erases(Advanced(r), stored', late', scratch')
    BY <1>2, <1>3 DEF Erases
  <1> QED
    BY <1>1, <1>2, <1>4, DeletionCompletes

LEMMA ListCompletes ==
    ASSUME CompletionInv, SessionInv', NEW r \in Runs, List(r)
    PROVE  CompletionInv'
  <1> DEFINE some == stored \cap Erasable(run[r].kind)
             x == Advanced(r)
             y == [x EXCEPT !.listed = some]
  <1>1. /\ r \in Active /\ Step(r) = "list" /\ UNCHANGED <<task, stored, late, scratch>>
        /\ run' = [run EXCEPT ![r] = y] /\ SessionInv
    BY DEF List, At, CompletionInv, stores, disk
  <1>2. run[r].kind \in Deletions /\ x.kind = run[r].kind
    BY <1>1, DeletionsDelete, AdvancedKind DEF DeletionSteps
  <1>3. /\ x \in Run /\ x.undisturbed = run[r].undisturbed
        /\ x.status \in {"active", "completed"}
    BY <1>1, AdvancedRuns
  <1>4. ASSUME run[r].kind = "erasure", run[r].undisturbed
        PROVE  x.status = "active" /\ x.pos = 3 /\ stored \subseteq some /\ "chunks" \notin stored
    <2>1. run[r].pos = 2
      BY <1>1, <1>4, ErasureSteps
    <2>2. x.status = "active" /\ x.pos = 3
      BY <1>1, <1>4, <2>1, ErasureAdvances
    <2>3. "chunks" \notin stored
      BY <1>1, <1>4, <2>1, ErasureStands
    <2>4. stored \subseteq Names /\ Erasable("erasure") = Objects
      BY <1>1 DEF SessionInv, StoresSound, Erasable
    <2> QED
      BY <1>4, <2>2, <2>3, <2>4 DEF Names
  <1> HIDE DEF x
  <1>5. /\ y.kind = x.kind /\ y.pos = x.pos /\ y.status = x.status
        /\ y.undisturbed = x.undisturbed /\ y.listed = some
    BY <1>3 DEF Run
  <1> HIDE DEF y, some
  <1>6. Goes(r, y)
    BY <1>1, <1>2, <1>3, <1>5 DEF Goes
  <1>7. Erases(y, stored', late', scratch')
    BY <1>1, <1>2, <1>3, <1>4, <1>5 DEF Erases
  <1> QED
    BY <1>1, <1>2, <1>6, <1>7, DeletionCompletes

LEMMA DeleteCompletes ==
    ASSUME CompletionInv, SessionInv', NEW r \in Runs, Delete(r)
    PROVE  CompletionInv'
  <1>1. /\ r \in Active /\ Step(r) = "delete" /\ task' = task /\ SessionInv
        /\ (Remove(run[r].listed) /\ Advance(r)) \/ End(r, "failed")
    BY DEF Delete, At, CompletionInv, disk
  <1>2. run[r].kind \in Deletions /\ Advanced(r).kind = run[r].kind
    BY <1>1, DeletionsDelete, AdvancedKind DEF DeletionSteps
  <1>3. CASE End(r, "failed")
    BY <1>1, <1>2, <1>3, EndCompletes
  <1>4. CASE Remove(run[r].listed) /\ Advance(r)
    <2>1. Goes(r, Advanced(r))
      BY <1>1, <1>4, AdvancedGoes DEF Advance
    <2>2. ASSUME run[r].kind = "erasure", run[r].undisturbed
          PROVE  Erases(Advanced(r), stored', late', scratch')
      <3>1. run[r].pos = 3
        BY <1>1, <2>2, ErasureSteps
      <3>2. Advanced(r).status = "active" /\ Advanced(r).pos = 4
        BY <1>1, <2>2, <3>1, ErasureAdvances
      <3>3. "chunks" \notin stored /\ stored \subseteq run[r].listed \cup (late \cap Gathered)
        BY <1>1, <2>2, <3>1, ErasureStands
      <3> QED
        BY <1>4, <3>2, <3>3 DEF Erases, Remove
    <2>3. Advanced(r).undisturbed => run[r].undisturbed
      BY <2>1 DEF Goes
    <2>4. Erases(Advanced(r), stored', late', scratch')
      BY <1>2, <2>2, <2>3 DEF Erases
    <2> QED
      BY <1>1, <1>2, <2>1, <2>4, DeletionCompletes
  <1> QED
    BY <1>1, <1>3, <1>4

LEMMA CleanCompletes ==
    ASSUME CompletionInv, SessionInv', NEW r \in Runs, Clean(r)
    PROVE  CompletionInv'
  <1>1. /\ r \in Active /\ Step(r) = "clean" /\ UNCHANGED <<task, stored, late>> /\ SessionInv
        /\ \/ scratch' = scratch \ {"documents", "media", "answerAudio"} /\ Advance(r)
           \/ End(r, "failed")
    BY DEF Clean, At, stores, CompletionInv
  <1>2. run[r].kind \in Deletions /\ Advanced(r).kind = run[r].kind
    BY <1>1, DeletionsDelete, AdvancedKind DEF DeletionSteps
  <1>3. CASE End(r, "failed")
    BY <1>1, <1>2, <1>3, EndCompletes
  <1>4. CASE scratch' = scratch \ {"documents", "media", "answerAudio"} /\ Advance(r)
    <2>1. Goes(r, Advanced(r))
      BY <1>1, <1>4, AdvancedGoes DEF Advance
    <2>2. ASSUME run[r].kind = "erasure", run[r].undisturbed
          PROVE  Erases(Advanced(r), stored', late', scratch')
      <3>1. run[r].pos = 4
        BY <1>1, <2>2, ErasureSteps
      <3>2. Advanced(r).status = "completed"
        BY <1>1, <2>2, <3>1, ErasureAdvances
      <3>3. stored \subseteq late \cap Gathered
        BY <1>1, <2>2, <3>1, ErasureStands
      <3>4. scratch' \subseteq {"normalized"}
        BY <1>1, <1>4 DEF SessionInv, Scratch
      <3> QED
        BY <1>1, <3>2, <3>3, <3>4 DEF Erases
    <2>3. Advanced(r).undisturbed => run[r].undisturbed
      BY <2>1 DEF Goes
    <2>4. Erases(Advanced(r), stored', late', scratch')
      BY <1>2, <2>2, <2>3 DEF Erases
    <2> QED
      BY <1>1, <1>2, <2>1, <2>4, DeletionCompletes
  <1> QED
    BY <1>1, <1>3, <1>4

-----------------------------------------------------------------------------
(* The invariant holds of every behaviour.                                 *)

LEMMA InitCompletes == Init => CompletionInv
  <1> SUFFICES ASSUME Init PROVE CompletionInv
    OBVIOUS
  <1>1. \A r \in Runs : run[r].status = "new" /\ run[r].undisturbed = FALSE /\ task[r] = Idle
    BY DEF Init, New, Fresh
  <1> QED
    BY <1>1, InitSound
    DEF CompletionInv, UndisturbedAlone, TasksOwned, OutputsKept, Keeps, Owes, ErasuresDone, Erases

LEMMA StepCompletes == CompletionInv /\ [Next]_vars => CompletionInv'
  <1> SUFFICES ASSUME CompletionInv, [Next]_vars PROVE CompletionInv'
    OBVIOUS
  <1>1. SessionInv'
    BY StepSound DEF CompletionInv
  <1>2. CASE Next
    <2> SUFFICES ASSUME NEW r \in Runs,
                        \/ Start(r) \/ Work(r) \/ Write(r) \/ Unlink(r) \/ Skip(r)
                        \/ Fails(r) \/ Crash(r)
                        \/ Cancel(r) \/ Check(r)
                        \/ Find(r) \/ Fork(r) \/ Join(r)
                        \/ \E s \in Gathered : Compute(r, s) \/ Save(r, s)
                        \/ DeleteChunks(r) \/ List(r) \/ Delete(r) \/ Clean(r)
                 PROVE  CompletionInv'
      BY <1>2 DEF Next
    <2> QED
      BY <1>1, StartCompletes, WorkCompletes, FileStepCompletes, SkipCompletes, FailsCompletes,
         CancelCompletes,
         CheckCompletes, FindCompletes, ForkCompletes, JoinCompletes, CoroutineCompletes,
         DeleteChunksCompletes, ListCompletes, DeleteCompletes, CleanCompletes
  <1>3. CASE UNCHANGED vars
    BY <1>1, <1>3 DEF vars, stores, disk, CompletionInv, UndisturbedAlone, Active, TasksOwned,
                      OutputsKept, ErasuresDone
  <1> QED
    BY <1>2, <1>3

LEMMA Completion == Spec => []CompletionInv
  BY InitCompletes, StepCompletes, PTL DEF Spec

\* What the result of a completed job refers to, and an analysis' checkpoints, are in
\* object storage, unless something was deleted meanwhile or since (analyze_session,
\* analyze_answer, generate_report).
THEOREM CompletedJobIsStored == Spec => []CompletedIsStored
  <1>1. CompletionInv => CompletedIsStored
    BY DEF CompletionInv, OutputsKept, Keeps, Owes, CompletedIsStored
  <1> QED
    BY <1>1, Completion, PTL

\* After an erasure that no other run overlaps all that may be there is a checkpoint that
\* a coroutine of a failed analysis saved too late, what ffmpeg wrote, and the reports of
\* runs that failed or died while their files were on the disk (erase_data).
THEOREM UndisturbedErasurePurges == Spec => []OnlyLateCheckpointsSurvive
  <1>1. CompletionInv /\ FilesSound => OnlyLateCheckpointsSurvive
    <2> SUFFICES ASSUME CompletionInv, FilesSound,
                        NEW r \in Runs, Completed(r, "erasure"), run[r].undisturbed
                 PROVE  /\ stored \subseteq late \cap Gathered
                        /\ scratch \subseteq {"normalized"}
                        /\ \A q \in markdown : run[q].status = "failed"
      BY DEF OnlyLateCheckpointsSurvive
    <2>1. stored \subseteq late \cap Gathered /\ scratch \subseteq {"normalized"}
      BY DEF CompletionInv, ErasuresDone, Erases, Completed
    <2>2. Active = {}
      BY DEF CompletionInv, UndisturbedAlone, Completed, Conflict, Deletions, Active
    <2>3. \A q \in markdown : run[q].status = "failed"
      BY <2>2 DEF FilesSound, HasFile, Active
    <2> QED
      BY <2>1, <2>3
  <1> QED
    BY <1>1, Completion, FilesInvariance, PTL
=============================================================================
