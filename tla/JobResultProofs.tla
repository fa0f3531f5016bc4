---------------------------- MODULE JobResultProofs ----------------------------
(***************************************************************************)
(* A result that was computed is not lost: while no worker dies and no     *)
(* message is handed out twice it is recorded, on its way, or with an      *)
(* operator, for every number of workers, every limit on attempts and      *)
(* retries and every combination of the other faults but "race" (a result  *)
(* refused although it could have been recorded is given up in the end).   *)
(* And a job that is run again resumes the Backend's numbering: a lone     *)
(* worker's updates are posted above everything recorded.                  *)
(***************************************************************************)
EXTENDS JobOutcomeProofs, FiniteSetTheorems

NoRace == "race" \notin Faults

-----------------------------------------------------------------------------
(* The inductive invariant.                                                *)

Carries(w) == InHand(ex[w]) /\ HasResult(ex[w])
Waiting(m) == ~Held(m) /\ IsTerminal(m.upd)

\* The Backend or an operator has it.
HandedOver == recorded \/ \E q \in quarantine : q.result # "none"

\* Somebody has the result.  A message that a worker holds does not count: its
\* execution may be over.
Kept ==
    \/ HandedOver
    \/ \E w \in Workers : Carries(w)
    \/ \E m \in broker : Waiting(m)

KeptInv == OutcomeInv /\ ConflictIsFinal /\ (Calm /\ computed # 0 => Kept)

-----------------------------------------------------------------------------
(* A conflict that is read about stays a conflict.                         *)

\* What Abort, Raise, TryAgain and Conclude leave.
LEMMA AbortLeaves ==
    ASSUME TypeInv, NEW w \in Workers, NEW e, Abort(w, e)
    PROVE  /\ \A v \in Workers \ {w} : ex'[v] = ex[v]
           /\ ex'[w].pc \in {"failed", "ack"}
           /\ HasResult(ex[w]) => ex'[w].pc = "failed" /\ HasResult(ex'[w])
  <1>1. ASSUME ex' = [ex EXCEPT ![w] = Leaving(w, "ack")]
        PROVE  ex'[w].pc = "ack" /\ \A v \in Workers \ {w} : ex'[v] = ex[v]
    BY <1>1 DEF TypeInv, ExecutionsSound, Leaving, Idle
  <1> QED
    BY <1>1, GiveUpLeaves DEF Abort, HasResult

LEMMA RaiseLeaves ==
    ASSUME TypeInv, NEW w \in Workers, NEW e, Raise(w, e)
    PROVE  /\ ex'[w].pc # "reread"
           /\ HasResult(ex[w]) => ex'[w].pc = "failed" /\ HasResult(ex'[w])
  <1>1. CASE ex[w].out.status = "progress"
    <2>1. ex'[w].pc = "run" /\ ~HasResult(ex[w])
      BY <1>1
      DEF Raise, TypeInv, ExecutionsSound, Execution, HasResult, IsTerminal, TerminalStatus
    <2> QED
      BY <2>1
  <1>2. CASE ex[w].out.status # "progress"
    BY <1>2, AbortLeaves DEF Raise
  <1> QED
    BY <1>1, <1>2

LEMMA TryAgainLeaves ==
    ASSUME TypeInv, NEW w \in Workers, ex[w].pc = "post", TryAgain(w)
    PROVE  /\ ex'[w].pc # "reread"
           /\ HasResult(ex[w]) => ex'[w].pc \in {"post", "failed"} /\ HasResult(ex'[w])
  <1>1. CASE ex[w].attempt + 1 < MaxPostAttempts
    BY <1>1 DEF TryAgain, TypeInv, ExecutionsSound, Execution, HasResult
  <1>2. CASE ~(ex[w].attempt + 1 < MaxPostAttempts)
    BY <1>2, RaiseLeaves DEF TryAgain
  <1> QED
    BY <1>1, <1>2

LEMMA ConcludeCarries ==
    ASSUME TypeInv, NEW w \in Workers, NEW seq, NEW outcome \in TerminalStatus,
           Conclude(w, seq, outcome)
    PROVE  ex'[w].pc = "post" /\ HasResult(ex'[w])
  <1>1. ex'[w].pc = "post" /\ ex'[w].out = [seq |-> seq + 1, status |-> outcome]
    BY DEF TypeInv, ExecutionsSound, Conclude, Leaving, Idle
  <1> QED
    BY <1>1 DEF HasResult, IsTerminal

\* Before its post an execution has no result, or has one to post.
LEMMA BeforePost ==
    ASSUME OutcomeInv, NEW w \in Workers,
           \/ CheckBeforeDispatch(w) \/ ReadSequence(w) \/ EmitProgress(w)
           \/ CheckCancellation(w) \/ Finish(w) \/ FailTransiently(w)
    PROVE  /\ ~HasResult(ex[w]) /\ ex'[w].pc # "reread"
           /\ computed' # computed => Carries(w)'
  <1>1. TypeInv /\ ExecutionsClear
    BY DEF OutcomeInv
  <1>2. ~HasResult(ex[w])
    BY <1>1, EmptyHanded
    DEF CheckBeforeDispatch, ReadSequence, EmitProgress, CheckCancellation, Finish,
        FailTransiently
  <1>3. ASSUME NEW e, Abort(w, e) \/ GiveUp(w, e) PROVE ex'[w].pc # "reread"
    BY <1>1, <1>3, AbortLeaves, GiveUpLeaves
  <1>4. ASSUME NEW seq, NEW outcome \in TerminalStatus, Conclude(w, seq, outcome)
        PROVE  ex'[w].pc # "reread" /\ Carries(w)'
    BY <1>1, <1>4, ConcludeCarries DEF Carries, InHand, HasResult
  <1>5. {"completed", "failed", "cancelled"} = TerminalStatus
    BY DEF TerminalStatus
  <1>6. CASE CheckBeforeDispatch(w)
    <2>1. ASSUME ex' = [ex EXCEPT ![w].pc = "sequence", ![w].cancelled = CancelSeen]
          PROVE  ex'[w].pc # "reread"
      BY <1>1, <2>1 DEF TypeInv, ExecutionsSound, Execution
    <2> QED
      BY <1>2, <1>3, <1>6, <2>1 DEF CheckBeforeDispatch, counters
  <1>7. CASE ReadSequence(w)
    <2>1. ASSUME PostNext(w, lastSeq, "started") PROVE ex'[w].pc # "reread"
      BY <1>1, <2>1 DEF PostNext, TypeInv, ExecutionsSound, Execution
    <2> QED
      BY <1>2, <1>3, <1>4, <1>5, <1>7, <2>1 DEF ReadSequence
  <1>8. CASE EmitProgress(w)
    BY <1>1, <1>2, <1>8 DEF EmitProgress, TypeInv, ExecutionsSound, Execution, counters
  <1>9. CASE CheckCancellation(w) \/ Finish(w) \/ FailTransiently(w)
    BY <1>2, <1>3, <1>4, <1>5, <1>9 DEF CheckCancellation, Finish, FailTransiently
  <1> QED
    BY <1>6, <1>7, <1>8, <1>9

\* Only a result that is answered 409 is read about, and then it could not have
\* been recorded.
LEMMA RereadAfterFinalConflict ==
    ASSUME NoRace, OutcomeInv, NEW w \in Workers, Deliver(w) \/ Step(w) \/ Crash(w),
           ex'[w].pc = "reread"
    PROVE  ~WorthRetrying(ex[w].out)'
  <1>1. TypeInv /\ BackendTypeOK
    BY DEF OutcomeInv, TypeInv, TypeOK
  <1>2. ASSUME \/ ex' = [ex EXCEPT ![w] = Leaving(w, "ack")]
               \/ ex' = [ex EXCEPT ![w] = Idle]
        PROVE  FALSE
    <2>1. ex'[w] = Leaving(w, "ack") \/ ex'[w] = Idle
      BY <1>1, <1>2 DEF TypeInv, ExecutionsSound
    <2>2. Leaving(w, "ack").pc = "ack" /\ Idle.pc = "idle"
      BY DEF Leaving, Idle
    <2> QED
      BY <2>1, <2>2
  <1>3. ~Deliver(w)
    <2> SUFFICES ASSUME Deliver(w) PROVE FALSE
      OBVIOUS
    <2>1. PICK m \in broker :
          ex' = [ex EXCEPT ![w] =
                   [Idle EXCEPT
                       !.held = m,
                       !.knew = CancelSeen,
                       !.pc = IF Carried(m.upd) THEN "post" ELSE FirstCall,
                       !.out = m.upd,
                       !.err = IF ~Carried(m.upd) /\ kind = "unidentified"
                               THEN "malformed" ELSE "none"]]
      BY DEF Deliver
    <2> QED
      BY <1>1, <2>1 DEF Idle, FirstCall, TypeInv, ExecutionsSound
  <1>4. ~(PublishRetry(w) \/ Quarantine(w) \/ Acknowledge(w) \/ Crash(w))
    BY <1>2 DEF PublishRetry, Quarantine, Acknowledge, Crash
  <1>5. ~RereadAfterConflict(w)
    <2>1. ~(ex' = [ex EXCEPT ![w].pc = "post", ![w].attempt = ex[w].attempt + 1])
      BY <1>1 DEF TypeInv, ExecutionsSound, Execution
    <2> QED
      BY <1>1, <1>2, <2>1, GiveUpLeaves, AbortLeaves DEF RereadAfterConflict
  <1>6. Post(w)
    BY <1>3, <1>4, <1>5, BeforePost DEF Step
  <1>7. ~PostRecorded(w)
    BY <1>1, ZenonT(60)
       DEF PostRecorded, Delivered, Leaving, Idle, TypeInv, ExecutionsSound, Execution
  <1>8. PostConflict(w)
    BY <1>1, <1>6, <1>7, RaiseLeaves, TryAgainLeaves
    DEF Post, PostUnanswered, PostRefused, PostBroken
  <1>9. ex' = [ex EXCEPT ![w].pc = "reread"] /\ MayConflict(ex[w].out) /\ UNCHANGED backendVars
    BY <1>1, <1>8, RaiseLeaves DEF PostConflict
  <1>10. ex[w].out \in Update /\ ex'[w].out = ex[w].out
    BY <1>1, <1>6, <1>9 DEF Post, TypeInv, ExecutionsSound, Sound, Execution
  <1>11. ~WorthRetrying(ex[w].out)
    BY <1>1, <1>9, <1>10 DEF MayConflict, CanRecord, WorthRetrying, NoRace, Update, BackendTypeOK
  <1> QED
    BY <1>9, <1>10, <1>11 DEF WorthRetrying, backendVars

\* An action of a worker leaves the other executions alone.
LEMMA OnlyOneMoves ==
    ASSUME TypeInv, NEW w \in Workers, Deliver(w) \/ Step(w) \/ Crash(w)
    PROVE  \A v \in Workers \ {w} : ex'[v] = ex[v]
  <1>1. \E x : ex' = [ex EXCEPT ![w] = x]
    BY DEF Step, Deliver, Crash, CheckBeforeDispatch, ReadSequence, Post, RereadAfterConflict,
           EmitProgress, CheckCancellation, Finish, FailTransiently, PublishRetry, Quarantine,
           Acknowledge, PostRecorded, PostUnanswered, PostConflict, PostRefused, PostBroken,
           Delivered, TryAgain, Raise, Abort, GiveUp, Conclude, PostNext
  <1> QED
    BY <1>1 DEF TypeInv, ExecutionsSound

LEMMA ConflictsStayFinal ==
    ASSUME NoRace, OutcomeInv, ConflictIsFinal, [Next]_vars
    PROVE  ConflictIsFinal'
  <1> SUFFICES ASSUME NEW w \in Workers, ex'[w].pc = "reread"
               PROVE  ~WorthRetrying(ex[w].out)'
    BY DEF ConflictIsFinal
  <1>1. TypeInv
    BY DEF OutcomeInv
  <1>2. CASE ex'[w] = ex[w]
    <2>1. ~WorthRetrying(ex[w].out) /\ ex[w].out \in Update
      BY <1>1, <1>2
      DEF ConflictIsFinal, TypeInv, ExecutionsSound, Sound, Result, Update, UpdateStatus
    <2>2. lastSeq \in Nat /\ lastSeq' \in Nat /\ ex[w].out.seq \in Nat
      BY <1>1, <2>1, TypeStep DEF TypeInv, TypeOK, BackendTypeOK, Update
    <2> QED
      BY <1>1, <1>2, <2>1, <2>2, StepsForward DEF WorthRetrying, Forward, Closed
  <1>3. CASE ex'[w] # ex[w]
    <2>1. Deliver(w) \/ Step(w) \/ Crash(w)
      <3>1. PICK v \in Workers : Deliver(v) \/ Step(v) \/ Crash(v)
        BY <1>3 DEF Next, vars, LateArrival, UserAction
      <3>2. \A u \in Workers \ {v} : ex'[u] = ex[u]
        BY <1>1, <3>1, OnlyOneMoves
      <3> QED
        BY <1>3, <3>1, <3>2
    <2> QED
      BY <2>1, RereadAfterFinalConflict
  <1> QED
    BY <1>2, <1>3

-----------------------------------------------------------------------------
(* A result is handed on.                                                  *)

HandedOn(w) == Carries(w)' \/ HandedOver'

LEMMA HandedOverStays ==
    ASSUME [Next]_vars, HandedOver
    PROVE  HandedOver'
  <1>1. quarantine \subseteq quarantine'
    BY DEF Next, Step, Deliver, Crash, LateArrival, UserAction, vars,
           CheckBeforeDispatch, ReadSequence, Post, RereadAfterConflict, EmitProgress,
           CheckCancellation, Finish, FailTransiently, PublishRetry, Quarantine, Acknowledge
  <1>2. recorded => recorded'
    <2>1. \/ UNCHANGED backendVars \/ RequestCancellation \/ Supersede
          \/ \E u \in late : Record(u)
          \/ \E w \in Workers : Record(ex[w].out)
      BY ZenonT(60) DEF Next, Step, Deliver, Crash, LateArrival, UserAction, vars,
             CheckBeforeDispatch, ReadSequence, Post, RereadAfterConflict, EmitProgress,
             CheckCancellation, Finish, FailTransiently, PublishRetry, Quarantine,
             Acknowledge, PostRecorded, PostUnanswered, PostConflict, PostRefused, PostBroken
    <2> QED
      BY <2>1 DEF backendVars, RequestCancellation, Supersede, Record
  <1> QED
    BY <1>1, <1>2 DEF HandedOver

LEMMA PostHandsOn ==
    ASSUME OutcomeInv, NEW w \in Workers, Post(w), Carries(w)
    PROVE  HandedOn(w)
  <1>1. TypeInv /\ ex[w].pc = "post" /\ HasResult(ex[w])
    BY DEF OutcomeInv, Post, Carries
  <1>2. CASE PostRecorded(w)
    BY <1>1, <1>2 DEF PostRecorded, Record, HasResult, HandedOn, HandedOver
  <1>3. CASE PostConflict(w)
    <2>1. ex'[w].pc = "reread" /\ ex'[w].out = ex[w].out
      BY <1>1, <1>3 DEF PostConflict, HasResult, TypeInv, ExecutionsSound, Execution
    <2> QED
      BY <1>1, <2>1 DEF HandedOn, Carries, InHand, HasResult
  <1>4. CASE PostUnanswered(w) \/ PostRefused(w) \/ PostBroken(w)
    <2>1. ex'[w].pc \in {"post", "failed"} /\ HasResult(ex'[w])
      BY <1>1, <1>4, RaiseLeaves, TryAgainLeaves DEF PostUnanswered, PostRefused, PostBroken
    <2> QED
      BY <2>1 DEF HandedOn, Carries, InHand, HasResult
  <1> QED
    BY <1>2, <1>3, <1>4 DEF Post

LEMMA RereadHandsOn ==
    ASSUME OutcomeInv, ConflictIsFinal, NEW w \in Workers, RereadAfterConflict(w), Carries(w)
    PROVE  HandedOn(w)
  <1>1. TypeInv /\ HasResult(ex[w]) /\ ~WorthRetrying(ex[w].out)
    BY DEF OutcomeInv, Carries, ConflictIsFinal, RereadAfterConflict
  <1>2. ex'[w].pc = "failed" /\ HasResult(ex'[w])
    BY <1>1, GiveUpLeaves, AbortLeaves DEF RereadAfterConflict
  <1> QED
    BY <1>2 DEF HandedOn, Carries, InHand, HasResult

LEMMA QuarantineHandsOn ==
    ASSUME OutcomeInv, NEW w \in Workers, Quarantine(w), Carries(w)
    PROVE  HandedOn(w)
  <1>1. ex[w].out.status # "none"
    BY DEF Carries, HasResult, IsTerminal, TerminalStatus
  <1> DEFINE q == [reason |-> ex[w].err, result |-> ex[w].out.status]
  <1>2. q.result # "none"
    BY <1>1
  <1>3. q \in quarantine'
    BY DEF Quarantine
  <1> QED
    BY <1>2, <1>3 DEF HandedOn, HandedOver

-----------------------------------------------------------------------------
(* Somebody keeps having it.                                               *)

KeptStep == Calm' /\ computed' # 0 => Kept'

LEMMA AdvancesKept ==
    ASSUME KeptInv, [Next]_vars, NEW w \in Workers, Step(w), ~PublishRetry(w), ~Acknowledge(w)
    PROVE  KeptStep
  <1> SUFFICES ASSUME Calm', computed' # 0 PROVE Kept'
    BY DEF KeptStep
  <1>1. OutcomeInv /\ ConflictIsFinal
    BY DEF KeptInv
  <1>2. Advances(w)
    BY <1>1, CheckAdvances, ReadSequenceAdvances, PostAdvances, RereadAdvances,
       EmitAdvances, PipelineAdvances, QuarantineAdvances DEF Step
  <1>3. /\ \A v \in Workers \ {w} : ex'[v] = ex[v]
        /\ ex'[w].held = ex[w].held /\ Busy(w) /\ Busy(w)'
        /\ UNCHANGED <<broker, crashes, redeliveries>>
    BY <1>2 DEF Advances, Onward, Concludes, Enters, Further, InHand, Busy
  <1>4. computed' # computed \/ Carries(w) => HandedOn(w)
    <2>1. CASE Post(w) \/ RereadAfterConflict(w) \/ Quarantine(w)
      BY <1>1, <2>1, PostHandsOn, RereadHandsOn, QuarantineHandsOn
      DEF Post, RereadAfterConflict, Quarantine, counters
    <2>2. CASE \/ CheckBeforeDispatch(w) \/ ReadSequence(w) \/ EmitProgress(w)
               \/ CheckCancellation(w) \/ Finish(w) \/ FailTransiently(w)
      BY <1>1, <2>2, BeforePost DEF Carries, HandedOn
    <2> QED
      BY <2>1, <2>2 DEF Step
  <1>5. CASE HandedOn(w)
    BY <1>5 DEF HandedOn, Kept
  <1>6. CASE ~HandedOn(w)
    <2>1. Kept /\ ~Carries(w)
      BY <1>3, <1>4, <1>6 DEF KeptInv, Calm
    <2>2. ASSUME NEW v \in Workers, Carries(v) PROVE Carries(v)'
      BY <1>3, <2>1, <2>2 DEF Carries, InHand, HasResult
    <2>3. ASSUME NEW m, Waiting(m) PROVE Waiting(m)'
      BY <1>3, <2>3 DEF Waiting, Held, Busy
    <2> QED
      BY <1>3, <2>1, <2>2, <2>3, HandedOverStays DEF Kept
  <1> QED
    BY <1>5, <1>6

LEMMA PublishKept ==
    ASSUME KeptInv, [Next]_vars, NEW w \in Workers, PublishRetry(w)
    PROVE  KeptStep
  <1> SUFFICES ASSUME Calm', computed' # 0 PROVE Kept'
    BY DEF KeptStep
  <1> DEFINE m == [id |-> nextId, retries |-> ex[w].held.retries + 1, upd |-> ex[w].out]
  <1>1. /\ ex[w].pc = "failed" /\ ex' = [ex EXCEPT ![w] = Leaving(w, "ack")]
        /\ broker' = broker \cup {m}
        /\ UNCHANGED <<computed, crashes, redeliveries>>
    BY DEF PublishRetry, envVars, counters
  <1>2. m.id = nextId /\ m.upd = ex[w].out
    OBVIOUS
  <1> HIDE DEF m
  <1>3. Calm /\ Kept /\ TypeInv /\ MessagesSound
    BY <1>1 DEF Calm, KeptInv, OutcomeInv, CalmInv
  <1>4. /\ \A v \in Workers \ {w} : ex'[v] = ex[v]
        /\ ex'[w].pc = "ack" /\ ex'[w].held = ex[w].held
    BY <1>1, <1>3 DEF TypeInv, ExecutionsSound, Leaving, Idle
  <1>5. \A n : Held(n)' <=> Held(n)
    BY <1>1, <1>4 DEF Held, Busy
  <1>6. ~Held(m)
    <2>1. \A v \in Workers : Busy(v) => ex[v].held.id < nextId
      BY <1>3 DEF MessagesSound
    <2> QED
      BY <1>2, <1>3, <2>1 DEF Held, TypeInv, TypeOK
  <1>7. CASE Carries(w)
    BY <1>1, <1>2, <1>5, <1>6, <1>7 DEF Carries, HasResult, Kept, Waiting
  <1>8. ASSUME NEW v \in Workers \ {w}, Carries(v) PROVE Carries(v)'
    BY <1>4, <1>8 DEF Carries, InHand, HasResult
  <1>9. ASSUME NEW n \in broker, Waiting(n) PROVE n \in broker' /\ Waiting(n)'
    BY <1>1, <1>5, <1>9 DEF Waiting
  <1> QED
    BY <1>3, <1>7, <1>8, <1>9, HandedOverStays DEF Kept

LEMMA AcknowledgeKept ==
    ASSUME KeptInv, [Next]_vars, NEW w \in Workers, Acknowledge(w)
    PROVE  KeptStep
  <1> SUFFICES ASSUME Calm', computed' # 0 PROVE Kept'
    BY DEF KeptStep
  <1>1. /\ ex[w].pc = "ack" /\ ex' = [ex EXCEPT ![w] = Idle]
        /\ broker' = broker \ {ex[w].held}
        /\ UNCHANGED <<computed, crashes, redeliveries>>
    BY DEF Acknowledge, envVars, counters
  <1>2. Kept /\ TypeInv
    BY <1>1 DEF Calm, KeptInv, OutcomeInv
  <1>3. (\A v \in Workers \ {w} : ex'[v] = ex[v]) /\ ~Busy(w)' /\ Busy(w)
    BY <1>1, <1>2 DEF TypeInv, ExecutionsSound, Idle, Busy
  <1>4. ~Carries(w)
    BY <1>1 DEF Carries, InHand
  <1>5. ASSUME NEW v \in Workers \ {w}, Carries(v) PROVE Carries(v)'
    BY <1>3, <1>5 DEF Carries, InHand, HasResult
  <1>6. ASSUME NEW n \in broker, Waiting(n) PROVE n \in broker' /\ Waiting(n)'
    BY <1>1, <1>3, <1>6 DEF Waiting, Held, Busy
  <1> QED
    BY <1>2, <1>4, <1>5, <1>6, HandedOverStays DEF Kept

\* The message that waited with the result is carried now.
LEMMA DeliverKept ==
    ASSUME KeptInv, [Next]_vars, NEW w \in Workers, Deliver(w)
    PROVE  KeptStep
  <1> SUFFICES ASSUME Calm', computed' # 0 PROVE Kept'
    BY DEF KeptStep
  <1>1. PICK m \in broker :
          ex' = [ex EXCEPT ![w] =
                   [Idle EXCEPT
                       !.held = m,
                       !.knew = CancelSeen,
                       !.pc = IF Carried(m.upd) THEN "post" ELSE FirstCall,
                       !.out = m.upd,
                       !.err = IF ~Carried(m.upd) /\ kind = "unidentified"
                               THEN "malformed" ELSE "none"]]
    BY DEF Deliver
  <1>2. /\ ~Busy(w) /\ TypeInv /\ UNCHANGED <<broker, computed, crashes>>
        /\ redeliveries' \in {redeliveries, redeliveries + 1}
    BY DEF Deliver, KeptInv, OutcomeInv, queueVars, counters
  <1>3. Kept
    BY <1>2 DEF Calm, KeptInv, TypeInv, TypeOK
  <1>4. /\ \A v \in Workers \ {w} : ex'[v] = ex[v]
        /\ ex'[w].held = m /\ ex'[w].out = m.upd
        /\ ex'[w].pc = IF Carried(m.upd) THEN "post" ELSE FirstCall
    BY <1>1, <1>2 DEF Idle, TypeInv, ExecutionsSound
  <1>5. ~Carries(w)
    BY <1>2 DEF Carries, InHand, Busy
  <1>6. ASSUME NEW v \in Workers \ {w}, Carries(v) PROVE Carries(v)'
    BY <1>4, <1>6 DEF Carries, InHand, HasResult
  <1>7. ASSUME IsTerminal(m.upd) PROVE Carries(w)'
    BY <1>4, <1>7 DEF Carries, InHand, HasResult, FirstCall, Carried, IsTerminal, NoUpdate,
       TerminalStatus
  <1>8. ASSUME NEW n \in broker, Waiting(n), n # m PROVE n \in broker' /\ Waiting(n)'
    BY <1>2, <1>4, <1>8 DEF Waiting, Held, Busy
  <1> QED
    BY <1>3, <1>5, <1>6, <1>7, <1>8, HandedOverStays DEF Kept, Waiting

LEMMA EnvironmentKept ==
    ASSUME KeptInv, [Next]_vars, UNCHANGED <<broker, ex, computed, crashes, redeliveries>>
    PROVE  KeptStep
  <1> SUFFICES ASSUME Calm', computed' # 0 PROVE Kept'
    BY DEF KeptStep
  <1>1. Kept
    BY DEF KeptInv, Calm
  <1>2. \A w \in Workers : Carries(w) => Carries(w)'
    BY DEF Carries, InHand, HasResult
  <1>3. \A m : Waiting(m) => Waiting(m)'
    BY DEF Waiting, Held, Busy
  <1> QED
    BY <1>1, <1>2, <1>3, HandedOverStays DEF Kept

-----------------------------------------------------------------------------
(* The invariant holds of every behaviour.                                 *)

LEMMA KeptInit == Init => KeptInv
  <1> SUFFICES ASSUME Init PROVE KeptInv
    OBVIOUS
  <1>1. ConflictIsFinal /\ computed = 0
    BY DEF Init, ConflictIsFinal, Idle
  <1> QED
    BY <1>1, OutcomeInit DEF KeptInv

LEMMA KeptNext ==
    ASSUME NoRace
    PROVE  KeptInv /\ [Next]_vars => KeptInv'
  <1> SUFFICES ASSUME KeptInv, [Next]_vars PROVE KeptInv'
    OBVIOUS
  <1>1. OutcomeInv' /\ ConflictIsFinal'
    BY OutcomeStep, ConflictsStayFinal DEF KeptInv
  <1>2. ASSUME NEW w \in Workers, Step(w) \/ Deliver(w) PROVE KeptStep
    BY <1>2, AdvancesKept, PublishKept, AcknowledgeKept, DeliverKept
  <1>3. ASSUME NEW w \in Workers, Crash(w) PROVE KeptStep
    BY <1>3 DEF KeptStep, Calm, Crash, KeptInv, OutcomeInv, TypeInv, TypeOK
  <1>4. ASSUME LateArrival \/ UserAction PROVE KeptStep
    BY <1>4, EnvironmentKept DEF LateArrival, UserAction, envVars, queueVars, counters
  <1>5. ASSUME UNCHANGED vars PROVE KeptStep
    BY <1>5, EnvironmentKept DEF vars, envVars, queueVars, counters
  <1>6. KeptStep
    BY <1>2, <1>3, <1>4, <1>5 DEF Next
  <1> QED
    BY <1>1, <1>6 DEF KeptInv, KeptStep

\* A result that was computed is recorded by the Backend, being delivered, waiting with
\* the broker for a retry of its delivery, or with an operator, unless the Backend refused
\* it by mistake (send_update, retry_or_quarantine and _async_process_job_task).
THEOREM ResultIsKept ==
    ASSUME NoRace
    PROVE  Spec => []ResultKept
  <1>1. Spec => []KeptInv
    BY KeptInit, KeptNext, PTL DEF Spec
  <1>2. KeptInv => ResultKept
    BY DEF KeptInv, Calm, Kept, Carries, Waiting, HandedOver, HasResult, ResultKept
  <1> QED
    BY <1>1, <1>2, PTL

-----------------------------------------------------------------------------
(* The numbering of updates.  A lone worker whose updates are recorded     *)
(* while it posts them, or never, is never behind the record: what it has  *)
(* posted or is posting for a message that carries no result is the last   *)
(* update recorded, or later.  At its first attempt it is later.           *)

NoLate == "late" \notin Faults
Alone == \A v, w \in Workers : v = w

Own(x) == ~Carried(x.held.upd)

Ahead(x) ==
    /\ x.pc = "run" => x.seq >= lastSeq
    /\ x.pc = "post" /\ x.attempt = 0 => x.out.seq > lastSeq
    /\ x.pc = "post" /\ ~IsTerminal(x.out) => x.out.seq = x.seq /\ x.seq >= lastSeq

NumberingInv == late = {} /\ \A w \in Workers : Own(ex[w]) => Ahead(ex[w])

\* Elsewhere than at a post or in the pipeline nothing is asked of the numbers.
LEMMA AbortAhead ==
    ASSUME TypeInv, NEW w \in Workers, NEW e, Abort(w, e) \/ GiveUp(w, e)
    PROVE  Ahead(ex[w])'
  BY AbortLeaves, GiveUpLeaves DEF Ahead

LEMMA AwayAhead ==
    ASSUME TypeInv, NEW w \in Workers, NEW p \in {"ack", "idle"},
           ex' = [ex EXCEPT ![w] = Leaving(w, p)] \/ ex' = [ex EXCEPT ![w] = Idle]
    PROVE  Ahead(ex[w])'
  <1>1. Leaving(w, p).pc = p /\ Idle.pc = "idle"
    BY DEF Leaving, Idle
  <1>2. ex'[w] = Leaving(w, p) \/ ex'[w] = Idle
    BY DEF TypeInv, ExecutionsSound
  <1> QED
    BY <1>1, <1>2 DEF Ahead

\* The terminal update takes the number after the last one.
LEMMA ConcludeAhead ==
    ASSUME TypeInv, NEW w \in Workers, NEW seq \in Nat, seq >= lastSeq,
           NEW outcome \in TerminalStatus, Conclude(w, seq, outcome), lastSeq' = lastSeq
    PROVE  Ahead(ex[w])'
  <1>1. ex'[w].pc = "post" /\ ex'[w].out = [seq |-> seq + 1, status |-> outcome]
    BY DEF TypeInv, ExecutionsSound, Conclude, Leaving, Idle
  <1>2. ex'[w].out.seq = seq + 1 /\ IsTerminal(ex'[w].out)
    BY <1>1 DEF IsTerminal
  <1>3. lastSeq \in Nat
    BY DEF TypeInv, TypeOK, BackendTypeOK
  <1> QED
    BY <1>1, <1>2, <1>3 DEF Ahead

\* So do STARTED and each progress update.
LEMMA NextAhead ==
    ASSUME TypeInv, NEW w \in Workers, NEW seq \in Nat, seq >= lastSeq,
           NEW update \in {"started", "progress"}, lastSeq' = lastSeq,
           ex'[w].out = [seq |-> seq + 1, status |-> update],
           ex'[w].pc = "post", ex'[w].seq = seq + 1
    PROVE  Ahead(ex[w])'
  <1>1. ex'[w].out.seq = seq + 1
    OBVIOUS
  <1>2. lastSeq \in Nat
    BY DEF TypeInv, TypeOK, BackendTypeOK
  <1> QED
    BY <1>1, <1>2 DEF Ahead

\* A failed call of send_update: posted again, given up, or, for progress,
\* passed over, whether or not the Backend recorded the update.
LEMMA RaiseAhead ==
    ASSUME TypeInv, NEW w \in Workers, ex[w].pc = "post", NEW e, Raise(w, e),
           Ahead(ex[w]), lastSeq' \in {lastSeq, ex[w].out.seq}
    PROVE  Ahead(ex[w])'
  <1>1. CASE ex[w].out.status = "progress"
    <2>1. ex'[w].pc = "run" /\ ex'[w].seq = ex[w].seq
      BY <1>1 DEF Raise, TypeInv, ExecutionsSound, Execution
    <2>2. ~IsTerminal(ex[w].out)
      BY <1>1 DEF IsTerminal, TerminalStatus
    <2>3. ex[w].seq \in Nat /\ ex[w].seq >= lastSeq'
      BY <2>2 DEF Ahead, TypeInv, ExecutionsSound, Execution
    <2> QED
      BY <2>1, <2>3 DEF Ahead
  <1>2. CASE ex[w].out.status # "progress"
    BY <1>2, AbortAhead DEF Raise
  <1> QED
    BY <1>1, <1>2

LEMMA TryAgainAhead ==
    ASSUME TypeInv, NEW w \in Workers, ex[w].pc = "post", TryAgain(w),
           Ahead(ex[w]), lastSeq' \in {lastSeq, ex[w].out.seq}
    PROVE  Ahead(ex[w])'
  <1>1. CASE ex[w].attempt + 1 < MaxPostAttempts
    <2>1. /\ ex'[w].pc = "post" /\ ex'[w].seq = ex[w].seq /\ ex'[w].out = ex[w].out
          /\ ex'[w].attempt = ex[w].attempt + 1
      BY <1>1 DEF TryAgain, TypeInv, ExecutionsSound, Execution
    <2>2. ex[w].seq \in Nat /\ ex'[w].attempt # 0
      BY <2>1, DeliveryAssumption DEF TypeInv, ExecutionsSound, Execution
    <2> QED
      BY <2>1, <2>2 DEF Ahead
  <1>2. CASE ~(ex[w].attempt + 1 < MaxPostAttempts)
    BY <1>2, RaiseAhead DEF TryAgain
  <1> QED
    BY <1>1, <1>2

\* The record reaches the number that was posted.
LEMMA PostAhead ==
    ASSUME TypeInv, NoLate, NEW w \in Workers, Post(w), Ahead(ex[w])
    PROVE  Ahead(ex[w])'
  <1>1. ex[w].pc = "post" /\ ex[w] \in Execution /\ ex[w].out \in Update
    BY DEF Post, TypeInv, ExecutionsSound, Sound
  <1>2. CASE PostRecorded(w)
    <2>1. lastSeq' = ex[w].out.seq /\ Delivered(w, lastSeq')
      BY <1>2 DEF PostRecorded, Record
    <2>2. CASE IsTerminal(ex[w].out)
      BY <2>1, <2>2, AwayAhead DEF Delivered
    <2>3. CASE ~IsTerminal(ex[w].out)
      <3>1. ex'[w].pc = "run" /\ ex'[w].seq = MaxOf(ex[w].seq, lastSeq')
        BY <1>1, <2>1, <2>3 DEF Delivered, TypeInv, ExecutionsSound, Execution
      <3>2. ex'[w].seq >= lastSeq'
        BY <1>1, <2>1, <3>1 DEF MaxOf, Update, Execution
      <3> QED
        BY <3>1, <3>2 DEF Ahead
    <2> QED
      BY <2>2, <2>3
  <1>3. CASE PostUnanswered(w)
    BY <1>1, <1>3, TryAgainAhead DEF PostUnanswered, NoLate, Record, backendVars
  <1>4. CASE PostConflict(w)
    <2>1. ASSUME ex' = [ex EXCEPT ![w].pc = "reread"] PROVE Ahead(ex[w])'
      BY <1>1, <2>1 DEF Ahead, TypeInv, ExecutionsSound, Execution
    <2> QED
      BY <1>1, <1>4, <2>1, RaiseAhead DEF PostConflict, backendVars
  <1>5. CASE PostRefused(w) \/ PostBroken(w)
    BY <1>1, <1>5, RaiseAhead DEF PostRefused, PostBroken, Record, backendVars
  <1> QED
    BY <1>2, <1>3, <1>4, <1>5 DEF Post

\* Numbers are drawn from the Backend's record or from the pipeline's own.
LEMMA PipelineAhead ==
    ASSUME TypeInv, NEW w \in Workers, Ahead(ex[w]),
           \/ CheckBeforeDispatch(w) \/ ReadSequence(w) \/ EmitProgress(w)
           \/ CheckCancellation(w) \/ Finish(w) \/ FailTransiently(w)
    PROVE  Ahead(ex[w])' /\ lastSeq' = lastSeq
  <1>1. ex[w] \in Execution /\ lastSeq \in Nat /\ lastSeq' = lastSeq
    BY DEF CheckBeforeDispatch, ReadSequence, EmitProgress, CheckCancellation, Finish,
           FailTransiently, backendVars, TypeInv, TypeOK, BackendTypeOK, ExecutionsSound
  <1>2. {"completed", "failed", "cancelled"} \subseteq TerminalStatus /\ ex[w].seq \in Nat
    BY <1>1 DEF TerminalStatus, Execution
  <1>3. CASE CheckBeforeDispatch(w)
    <2>1. ASSUME ex' = [ex EXCEPT ![w].pc = "sequence", ![w].cancelled = CancelSeen]
          PROVE  ex'[w].pc = "sequence"
      BY <2>1 DEF TypeInv, ExecutionsSound, Execution
    <2> QED
      BY <1>1, <1>3, <2>1, AbortAhead DEF CheckBeforeDispatch, Ahead
  <1>4. CASE ReadSequence(w)
    <2>1. lastSeq \in Nat /\ lastSeq >= lastSeq
      BY <1>1
    <2>2. ASSUME PostNext(w, lastSeq, "started") PROVE Ahead(ex[w])'
      <3>1. /\ ex'[w].pc = "post" /\ ex'[w].seq = lastSeq + 1
            /\ ex'[w].out = [seq |-> lastSeq + 1, status |-> "started"]
        BY <2>2 DEF PostNext, TypeInv, ExecutionsSound, Execution
      <3> QED
        BY <1>1, <2>1, <3>1, NextAhead
    <2>3. ASSUME NEW outcome \in TerminalStatus, Conclude(w, lastSeq, outcome)
          PROVE  Ahead(ex[w])'
      BY <1>1, <2>1, <2>3, ConcludeAhead
    <2>4. ASSUME NEW e, Abort(w, e) PROVE Ahead(ex[w])'
      BY <2>4, AbortAhead
    <2>5. "failed" \in TerminalStatus /\ "cancelled" \in TerminalStatus
      BY DEF TerminalStatus
    <2> QED
      BY <1>1, <1>4, <2>2, <2>3, <2>4, <2>5 DEF ReadSequence
  <1>5. CASE EmitProgress(w)
    <2>1. /\ ex'[w].pc = "post" /\ ex'[w].seq = ex[w].seq + 1
          /\ ex'[w].out = [seq |-> ex[w].seq + 1, status |-> "progress"]
      BY <1>5 DEF EmitProgress, TypeInv, ExecutionsSound, Execution
    <2>2. ex[w].seq >= lastSeq
      BY <1>5 DEF EmitProgress, Ahead
    <2> QED
      BY <1>1, <1>2, <2>1, <2>2, NextAhead
  <1>6. CASE CheckCancellation(w) \/ Finish(w) \/ FailTransiently(w)
    <2>1. ex[w].seq >= lastSeq
      BY <1>6 DEF CheckCancellation, Finish, FailTransiently, Ahead
    <2> QED
      BY <1>1, <1>2, <1>6, <2>1, AbortAhead, ConcludeAhead
      DEF CheckCancellation, Finish, FailTransiently
  <1> QED
    BY <1>1, <1>3, <1>4, <1>5, <1>6

\* A conflict that is posted again is not at its first attempt.
LEMMA RereadAhead ==
    ASSUME TypeInv, NEW w \in Workers, RereadAfterConflict(w), Ahead(ex[w])
    PROVE  Ahead(ex[w])' /\ lastSeq' = lastSeq
  <1>1. ex[w] \in Execution /\ ex[w].out \in Result /\ lastSeq' = lastSeq
    BY DEF RereadAfterConflict, backendVars, TypeInv, ExecutionsSound, Sound
  <1>2. ASSUME ex' = [ex EXCEPT ![w].pc = "post", ![w].attempt = @ + 1]
        PROVE  Ahead(ex[w])'
    <2>1. ex'[w].attempt = ex[w].attempt + 1 /\ ex'[w].out = ex[w].out
      BY <1>1, <1>2 DEF TypeInv, ExecutionsSound, Execution
    <2>2. ex'[w].attempt # 0
      BY <1>1, <2>1, DeliveryAssumption DEF Execution
    <2>3. IsTerminal(ex'[w].out) /\ ex'[w].pc = "post"
      BY <1>1, <1>2, <2>1 DEF IsTerminal, Result, TypeInv, ExecutionsSound, Execution
    <2> QED
      BY <2>2, <2>3 DEF Ahead
  <1> QED
    BY <1>1, <1>2, AwayAhead, AbortAhead DEF RereadAfterConflict

\* A message is taken without a number of its own.
LEMMA DeliverAhead ==
    ASSUME TypeInv, NEW w \in Workers, Deliver(w)
    PROVE  (Own(ex[w]) => Ahead(ex[w]))'
  <1>1. PICK m \in broker :
          ex' = [ex EXCEPT ![w] =
                   [Idle EXCEPT
                       !.held = m,
                       !.knew = CancelSeen,
                       !.pc = IF Carried(m.upd) THEN "post" ELSE FirstCall,
                       !.out = m.upd,
                       !.err = IF ~Carried(m.upd) /\ kind = "unidentified"
                               THEN "malformed" ELSE "none"]]
    BY DEF Deliver
  <1>2. ex'[w].held = m /\ ex'[w].pc = IF Carried(m.upd) THEN "post" ELSE FirstCall
    BY <1>1 DEF Idle, TypeInv, ExecutionsSound
  <1> QED
    BY <1>2 DEF Own, Ahead, FirstCall

\* An execution that goes on does so with the message it holds.
LEMMA HoldsOn ==
    ASSUME OutcomeInv, NEW w \in Workers, Step(w), Own(ex'[w])
    PROVE  Own(ex[w]) \/ Ahead(ex[w])'
  <1>1. CASE PublishRetry(w) \/ Acknowledge(w)
    BY <1>1, AwayAhead DEF PublishRetry, Acknowledge, OutcomeInv
  <1>2. CASE ~(PublishRetry(w) \/ Acknowledge(w))
    <2>1. Advances(w)
      BY <1>2, CheckAdvances, ReadSequenceAdvances, PostAdvances, RereadAdvances,
         EmitAdvances, PipelineAdvances, QuarantineAdvances DEF Step
    <2> QED
      BY <2>1 DEF Advances, Onward, Concludes, Enters, Further, Own
  <1> QED
    BY <1>1, <1>2

LEMMA NumberingStep ==
    ASSUME NoLate, Alone, OutcomeInv, NumberingInv, [Next]_vars
    PROVE  NumberingInv'
  <1>1. TypeInv
    BY DEF OutcomeInv
  <1>2. late' = {}
    BY ZenonT(60)
       DEF NumberingInv, NoLate, Next, Step, Deliver, Crash, LateArrival, UserAction, vars,
           envVars, CheckBeforeDispatch, ReadSequence, Post, RereadAfterConflict, EmitProgress,
           CheckCancellation, Finish, FailTransiently, PublishRetry, Quarantine, Acknowledge,
           PostRecorded, PostUnanswered, PostConflict, PostRefused, PostBroken
  <1>3. ASSUME NEW w \in Workers, Own(ex[w])' PROVE Ahead(ex[w])'
    <2>1. CASE Step(w)
      <3>1. CASE ~Own(ex[w])
        BY <1>3, <2>1, <3>1, HoldsOn
      <3>2. CASE Own(ex[w])
        <4>1. Ahead(ex[w])
          BY <3>2 DEF NumberingInv
        <4>2. CASE PublishRetry(w) \/ Quarantine(w) \/ Acknowledge(w)
          BY <1>1, <4>2, AwayAhead DEF PublishRetry, Quarantine, Acknowledge
        <4> QED
          BY <1>1, <2>1, <4>1, <4>2, PostAhead, PipelineAhead, RereadAhead DEF Step
      <3> QED
        BY <3>1, <3>2
    <2>2. CASE Deliver(w)
      BY <1>1, <1>3, <2>2, DeliverAhead
    <2>3. CASE Crash(w)
      BY <1>1, <2>3, AwayAhead DEF Crash
    <2>4. CASE UNCHANGED <<ex, lastSeq>>
      BY <1>3, <2>4 DEF NumberingInv, Own, Ahead
    <2>5. (\E v \in Workers : Deliver(v) \/ Step(v) \/ Crash(v)) \/ UNCHANGED <<ex, lastSeq>>
      BY DEF Next, LateArrival, UserAction, RequestCancellation, Supersede, vars, backendVars,
             NumberingInv
    <2> QED
      BY <2>1, <2>2, <2>3, <2>4, <2>5 DEF Alone
  <1> QED
    BY <1>2, <1>3 DEF NumberingInv

\* A redelivered or repeated job resumes the Backend's sequence: the first post of each
\* update that a lone worker numbers itself is above everything recorded, whatever
\* crashes, is lost or is refused (MonotonicUpdateTracker.send_update).
THEOREM JobResumesSequence ==
    ASSUME IsFiniteSet(Workers)
    PROVE  Spec => []ResumesAboveRecorded
  <1>1. CASE Cardinality(Workers) = 1 /\ NoLate
    <2>1. Alone
      BY <1>1, FS_Singleton DEF Alone
    <2>2. Init => NumberingInv
      BY DEF Init, NumberingInv, Ahead, Idle
    <2>3. NumberingInv => ResumesAboveRecorded
      BY DEF NumberingInv, ResumesAboveRecorded, Own, Ahead
    <2> QED
      BY <1>1, <2>1, <2>2, <2>3, NumberingStep, OutcomeInvariance, PTL DEF Spec
  <1>2. CASE ~(Cardinality(Workers) = 1 /\ NoLate)
    <2>1. ResumesAboveRecorded
      BY <1>2 DEF ResumesAboveRecorded, NoLate
    <2> QED
      BY <2>1, PTL
  <1> QED
    BY <1>1, <1>2
=============================================================================
