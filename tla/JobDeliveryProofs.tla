-------------------------- MODULE JobDeliveryProofs --------------------------
(***************************************************************************)
(* What JobDelivery guarantees for every number of workers, every limit on *)
(* attempts and retries and every combination of faults, or, where a       *)
(* theorem says so, every combination without two of them: its types, that *)
(* no job is lost, and that it implements JobPromise.                      *)
(***************************************************************************)
EXTENDS JobDelivery, TLAPS

-----------------------------------------------------------------------------
(* Type correctness.  TypeOK is not inductive: that a retry is published   *)
(* with a counter in range and an update of the right form depends on what *)
(* an execution carries at the place it has reached.                       *)

Sound(x) ==
    /\ x \in Execution
    /\ x.pc = "post" => x.out \in Update
    /\ x.pc = "reread" => x.out \in Result
    /\ x.pc = "failed" => x.out \in Result \cup {NoUpdate}
    /\ x.pc = "failed" /\ x.err = "provider"
          => x.held.retries < MaxProviderRetries

ExecutionsSound ==
    /\ ex \in [Workers -> Execution]
    /\ \A w \in Workers : Sound(ex[w])

TypeInv == TypeOK /\ ExecutionsSound

\* An idle worker, whose message is NoMessage, is sound.
LEMMA IdleSound == Sound(Idle)
  BY DeliveryAssumption
  DEF Sound, Idle, Execution, Place, Reason, Refusals, Message, NoMessage,
      MaxTaskRetries

\* An action that replaces one worker's execution by a sound one leaves every
\* execution sound.
LEMMA ReplaceSound ==
    ASSUME ExecutionsSound, NEW w \in Workers, NEW x, Sound(x),
           ex' = [ex EXCEPT ![w] = x]
    PROVE  ExecutionsSound'
  BY DEF ExecutionsSound, Sound

\* Leaving keeps the message and forgets the rest.
LEMMA LeavingSound ==
    ASSUME ExecutionsSound, NEW w \in Workers, NEW p \in {"ack", "idle", "run"}
    PROVE  Sound(Leaving(w, p))
  BY IdleSound DEF Sound, Leaving, Idle, Execution, Place, ExecutionsSound

\* GiveUp ends in "failed", with the result to deliver if there is one.  Only
\* a message with provider retries left may fail for the provider.
LEMMA GiveUpSound ==
    ASSUME TypeOK, ExecutionsSound, NEW w \in Workers, NEW e \in Reason,
           e = "provider" => ex[w].held.retries < MaxProviderRetries,
           GiveUp(w, e)
    PROVE  ExecutionsSound'
  <1> DEFINE x == [Leaving(w, "failed") EXCEPT
                     !.err = e,
                     !.out = IF IsTerminal(ex[w].out) THEN ex[w].out
                             ELSE NoUpdate]
  <1>1. ex[w] \in Execution
    BY DEF ExecutionsSound
  <1>2. ex[w].out \in Update \cup {NoUpdate}
    BY <1>1 DEF Execution
  <1>3. IsTerminal(ex[w].out) => ex[w].out \in Result
    BY <1>2 DEF IsTerminal, Update, Result, NoUpdate, TerminalStatus
  <1>4. Sound(x)
    BY ZenonT(60), <1>1, <1>2, <1>3, IdleSound
    DEF Sound, Leaving, Idle, Execution, Place
  <1>5. ex' = [ex EXCEPT ![w] = x]
    BY DEF GiveUp
  <1> HIDE DEF x
  <1> QED BY <1>4, <1>5, ReplaceSound

\* The same when the error is one the HTTP client does not name.
LEMMA AbortSound ==
    ASSUME TypeOK, ExecutionsSound, NEW w \in Workers,
           NEW e \in Reason \ {"provider"}, Abort(w, e)
    PROVE  ExecutionsSound'
  <1>1. CASE e = "exception" /\ ~IsTerminal(ex[w].out)
    <2>1. ex' = [ex EXCEPT ![w] = Leaving(w, "ack")]
      BY <1>1 DEF Abort
    <2> QED BY <2>1, LeavingSound, ReplaceSound
  <1>2. CASE ~(e = "exception" /\ ~IsTerminal(ex[w].out))
    <2>1. GiveUp(w, e)
      BY <1>2 DEF Abort
    <2> QED BY <2>1, GiveUpSound
  <1> QED BY <1>1, <1>2

-----------------------------------------------------------------------------
(* One lemma for each action.                                              *)

\* An action of the Backend's record keeps its type.
LEMMA BackendTypes ==
    ASSUME BackendTypeOK
    PROVE  /\ \A u \in Update : Record(u) => BackendTypeOK'
           /\ RequestCancellation => BackendTypeOK'
           /\ Supersede => BackendTypeOK'
  BY DEF BackendTypeOK, Record, RequestCancellation, Supersede, Update,
         IsTerminal, JobStatus, Active, TerminalStatus, UpdateStatus

\* Initially no worker executes anything.
LEMMA TypeInit == Init => TypeInv
  <1> SUFFICES ASSUME Init PROVE TypeInv
    OBVIOUS
  <1>1. BackendTypeOK
    BY DEF Init, BackendInit, BackendTypeOK, JobStatus, Active, TerminalStatus
  <1>2. ExecutionsSound
    BY IdleSound DEF Init, ExecutionsSound, Sound
  <1>3. kind \in AllKinds
    BY DeliveryAssumption DEF Init
  <1>4. broker \subseteq Message
    BY DeliveryAssumption DEF Init, Message, MaxTaskRetries
  <1>5. computed \in 0..MaxCounted /\ dispatched \in 0..MaxCounted
    BY DeliveryAssumption DEF Init
  <1>6. /\ quarantine \subseteq QuarantineRecord /\ late \subseteq Update
        /\ nextId \in Nat /\ crashes \in Nat /\ redeliveries \in Nat
    BY DEF Init
  <1> QED
    BY <1>1, <1>2, <1>3, <1>4, <1>5, <1>6
    DEF TypeInv, TypeOK, ExecutionsSound

LEMMA TypeDeliver ==
    ASSUME TypeInv, NEW w \in Workers, Deliver(w)
    PROVE  TypeInv'
  <1>1. PICK m \in broker :
          ex' = [ex EXCEPT ![w] =
                   [Idle EXCEPT
                       !.held = m,
                       !.knew = CancelSeen,
                       !.pc = IF Carried(m.upd) THEN "post" ELSE FirstCall,
                       !.out = m.upd,
                       !.err = IF ~Carried(m.upd) /\ kind = "unidentified"
                               THEN "malformed" ELSE "none"]]
    BY DEF Deliver
  <1> DEFINE x == [Idle EXCEPT
                     !.held = m,
                     !.knew = CancelSeen,
                     !.pc = IF Carried(m.upd) THEN "post" ELSE FirstCall,
                     !.out = m.upd,
                     !.err = IF ~Carried(m.upd) /\ kind = "unidentified"
                             THEN "malformed" ELSE "none"]
  <1>2. m \in Message
    BY DEF TypeInv, TypeOK
  <1>3. /\ m.upd \in Result \cup {NoUpdate}
        /\ Carried(m.upd) => m.upd \in Result
        /\ m.upd \in Update \cup {NoUpdate}
        /\ Result \subseteq Update
    BY <1>2 DEF Message, Carried, Result, Update, UpdateStatus
  <1>4. FirstCall \in {"check", "sequence", "failed"}
    BY DEF FirstCall
  <1>5. CancelSeen \in BOOLEAN
    BY DEF CancelSeen, TypeInv, TypeOK, BackendTypeOK
  <1>6. /\ x.pc \in {"check", "sequence", "failed", "post"}
        /\ x.err \in {"malformed", "none"}
        /\ x.pc = "post" => Carried(m.upd)
    BY <1>4 DEF Idle
  <1>7. x \in Execution
    BY ZenonT(60), <1>2, <1>3, <1>5, <1>6, IdleSound
    DEF Sound, Idle, Execution, Place, Reason
  <1>8. x.out = m.upd
    BY DEF Idle
  <1>9. Sound(x)
    BY <1>3, <1>6, <1>7, <1>8 DEF Sound
  <1>10. ex' = [ex EXCEPT ![w] = x]
    BY <1>1
  <1> HIDE DEF x
  <1>11. ExecutionsSound'
    BY <1>9, <1>10, ReplaceSound DEF TypeInv
  <1>12. redeliveries' \in Nat
    BY <1>1 DEF Deliver, TypeInv, TypeOK
  <1> QED
    BY <1>11, <1>12
    DEF Deliver, TypeInv, TypeOK, ExecutionsSound, backendVars, queueVars,
        counters, BackendTypeOK

\* The reasons a call without an answer may give.
LEMMA FailureReasons == GetFailure \subseteq Reason \ {"provider", "conflict"}
  BY DEF GetFailure, Reason, Refusals

LEMMA TypeCheckBeforeDispatch ==
    ASSUME TypeInv, NEW w \in Workers, CheckBeforeDispatch(w)
    PROVE  TypeInv'
  <1>1. ASSUME ex' = [ex EXCEPT ![w].pc = "sequence",
                                ![w].cancelled = CancelSeen]
        PROVE  ExecutionsSound'
    <2> DEFINE x == [ex[w] EXCEPT !.pc = "sequence", !.cancelled = CancelSeen]
    <2>1. CancelSeen \in BOOLEAN
      BY DEF CancelSeen, TypeInv, TypeOK, BackendTypeOK
    <2>2. Sound(x)
      BY <2>1 DEF TypeInv, ExecutionsSound, Sound, Execution, Place
    <2>3. ex' = [ex EXCEPT ![w] = x]
      BY <1>1 DEF TypeInv, ExecutionsSound
    <2> HIDE DEF x
    <2> QED
      BY <2>2, <2>3, ReplaceSound DEF TypeInv
  <1>2. ASSUME NEW e \in GetFailure, Abort(w, e)
        PROVE  ExecutionsSound'
    BY <1>2, FailureReasons, AbortSound DEF TypeInv
  <1>3. ExecutionsSound'
    BY <1>1, <1>2 DEF CheckBeforeDispatch
  <1> QED
    BY <1>3
    DEF CheckBeforeDispatch, TypeInv, TypeOK, ExecutionsSound, backendVars,
        queueVars, counters, envVars, BackendTypeOK

\* An execution that concludes posts a result of its own.
LEMMA ConcludeSound ==
    ASSUME TypeInv, NEW w \in Workers, NEW seq \in Nat,
           NEW outcome \in TerminalStatus, Conclude(w, seq, outcome)
    PROVE  ExecutionsSound' /\ computed' \in 0..MaxCounted
  <1> DEFINE x == [Leaving(w, "post") EXCEPT
                     !.knew = ex[w].knew,
                     !.out = [seq |-> seq + 1, status |-> outcome]]
  <1>1. ex[w] \in Execution
    BY DEF TypeInv, ExecutionsSound
  <1>2. [seq |-> seq + 1, status |-> outcome] \in Update
    BY DEF Update, UpdateStatus
  <1>3. Sound(x)
    BY <1>1, <1>2, IdleSound DEF Sound, Leaving, Idle, Execution, Place
  <1>4. ex' = [ex EXCEPT ![w] = x]
    BY DEF Conclude
  <1> HIDE DEF x
  <1>5. ExecutionsSound'
    BY <1>3, <1>4, ReplaceSound DEF TypeInv
  <1>6. computed' \in 0..MaxCounted
    BY DeliveryAssumption DEF Conclude, Count, TypeInv, TypeOK
  <1> QED BY <1>5, <1>6

LEMMA TypeReadSequence ==
    ASSUME TypeInv, NEW w \in Workers, ReadSequence(w)
    PROVE  TypeInv'
  <1>1. lastSeq \in Nat
    BY DEF TypeInv, TypeOK, BackendTypeOK
  <1>2. ASSUME NEW outcome \in {"failed", "cancelled"},
               Conclude(w, lastSeq, outcome)
        PROVE  ExecutionsSound' /\ computed' \in 0..MaxCounted
    BY <1>1, <1>2, ConcludeSound DEF TerminalStatus
  <1>3. ASSUME PostNext(w, lastSeq, "started")
        PROVE  ExecutionsSound'
    <2> DEFINE u == [seq |-> lastSeq + 1, status |-> "started"]
               x == [ex[w] EXCEPT !.pc = "post", !.seq = lastSeq + 1, !.out = u]
    <2>1. u \in Update
      BY <1>1 DEF Update, UpdateStatus
    <2>2. ex' = [ex EXCEPT ![w] = x]
      BY <1>3 DEF PostNext, TypeInv, ExecutionsSound
    <2> HIDE DEF u
    <2>3. ex[w] \in Execution /\ lastSeq + 1 \in Nat
      BY <1>1 DEF TypeInv, ExecutionsSound
    <2>4. /\ x \in Execution
          /\ x.pc = "post" /\ x.out = u
      BY <2>1, <2>3 DEF Execution, Place
    <2> HIDE DEF x
    <2>5. Sound(x)
      BY <2>1, <2>4 DEF Sound
    <2> QED
      BY <2>2, <2>5, ReplaceSound DEF TypeInv
  <1>4. ASSUME NEW e \in GetFailure, Abort(w, e)
        PROVE  ExecutionsSound'
    BY <1>4, FailureReasons, AbortSound DEF TypeInv
  <1>5. UNCHANGED computed => computed' \in 0..MaxCounted
    BY DEF TypeInv, TypeOK
  <1>6. ExecutionsSound' /\ computed' \in 0..MaxCounted
    BY <1>2, <1>3, <1>4, <1>5 DEF ReadSequence
  <1> QED
    BY <1>6
    DEF ReadSequence, TypeInv, TypeOK, ExecutionsSound, backendVars,
        queueVars, envVars, BackendTypeOK

-----------------------------------------------------------------------------
(* The post of an update.                                                  *)

LEMMA DeliveredSound ==
    ASSUME TypeInv, NEW w \in Workers, NEW acknowledged \in Nat,
           Delivered(w, acknowledged)
    PROVE  ExecutionsSound' /\ dispatched' \in 0..MaxCounted
  <1> DEFINE x == [ex[w] EXCEPT !.pc = "run", !.out = NoUpdate, !.attempt = 0,
                                !.seq = MaxOf(@, acknowledged)]
  <1>1. ex[w] \in Execution /\ Sound(ex[w])
    BY DEF TypeInv, ExecutionsSound
  <1>2. MaxOf(ex[w].seq, acknowledged) \in Nat
    BY <1>1 DEF MaxOf, Execution
  <1>3. 0 \in 0..(MaxPostAttempts - 1)
    BY DeliveryAssumption
  <1>4. Sound(x)
    BY <1>1, <1>2, <1>3 DEF Sound, Execution, Place
  <1>5. ex' = [ex EXCEPT ![w] = IF IsTerminal(ex[w].out)
                                THEN Leaving(w, "ack") ELSE x]
    BY DEF Delivered
  <1> HIDE DEF x
  <1>6. ExecutionsSound'
    BY <1>4, <1>5, LeavingSound, ReplaceSound DEF TypeInv
  <1>7. dispatched' \in 0..MaxCounted
    BY DeliveryAssumption DEF Delivered, Count, TypeInv, TypeOK
  <1> QED BY <1>6, <1>7

LEMMA RaiseSound ==
    ASSUME TypeInv, NEW w \in Workers, NEW e \in Reason \ {"provider"},
           Raise(w, e)
    PROVE  ExecutionsSound' /\ dispatched' \in 0..MaxCounted
  <1>1. 0 \in 0..(MaxPostAttempts - 1)
    BY DeliveryAssumption
  <1>2. ASSUME ex' = [ex EXCEPT ![w].pc = "run", ![w].out = NoUpdate,
                                ![w].attempt = 0]
        PROVE  ExecutionsSound'
    <2> DEFINE x == [ex[w] EXCEPT !.pc = "run", !.out = NoUpdate, !.attempt = 0]
    <2>1. Sound(x)
      BY <1>1 DEF TypeInv, ExecutionsSound, Sound, Execution, Place
    <2>2. ex' = [ex EXCEPT ![w] = x]
      BY <1>2 DEF TypeInv, ExecutionsSound
    <2> HIDE DEF x
    <2> QED
      BY <2>1, <2>2, ReplaceSound DEF TypeInv
  <1>3. ASSUME Abort(w, e)
        PROVE  ExecutionsSound'
    BY <1>3, AbortSound DEF TypeInv
  <1> QED
    BY <1>2, <1>3 DEF Raise, TypeInv, TypeOK

LEMMA TryAgainSound ==
    ASSUME TypeInv, NEW w \in Workers, ex[w].pc = "post", TryAgain(w)
    PROVE  ExecutionsSound' /\ dispatched' \in 0..MaxCounted
  <1>1. CASE ex[w].attempt + 1 < MaxPostAttempts
    <2>1. ex' = [ex EXCEPT ![w].attempt = @ + 1] /\ UNCHANGED dispatched
      BY <1>1 DEF TryAgain
    <2>2. ex[w].attempt + 1 \in 0..(MaxPostAttempts - 1)
      BY <1>1, DeliveryAssumption DEF TypeInv, ExecutionsSound, Execution
    <2> QED
      BY <2>1, <2>2 DEF TypeInv, TypeOK, ExecutionsSound, Sound, Execution
  <1>2. CASE ~(ex[w].attempt + 1 < MaxPostAttempts)
    <2>1. Raise(w, "unavailable")
      BY <1>2 DEF TryAgain
    <2> QED
      BY <2>1, RaiseSound DEF Reason
  <1> QED BY <1>1, <1>2

LEMMA TypePost ==
    ASSUME TypeInv, NEW w \in Workers, Post(w)
    PROVE  TypeInv'
  <1> DEFINE Good == /\ ExecutionsSound' /\ dispatched' \in 0..MaxCounted
                     /\ BackendTypeOK' /\ late' \subseteq Update
  <1>1. /\ ex[w].pc = "post" /\ ex[w].out \in Update
        /\ BackendTypeOK /\ late \subseteq Update
        /\ lastSeq \in Nat /\ ex[w].out.seq \in Nat
    BY DEF Post, TypeInv, TypeOK, ExecutionsSound, Sound, BackendTypeOK, Update
  <1>2. Record(ex[w].out) => BackendTypeOK' /\ lastSeq' \in Nat
    BY <1>1, BackendTypes DEF BackendTypeOK
  <1>3. UNCHANGED backendVars => BackendTypeOK'
    BY <1>1 DEF backendVars, BackendTypeOK
  <1>4. ASSUME PostRecorded(w) PROVE Good
    BY <1>1, <1>2, <1>4, DeliveredSound DEF PostRecorded
  <1>5. ASSUME PostUnanswered(w) PROVE Good
    <2>1. BackendTypeOK' /\ late' \subseteq Update
      BY <1>1, <1>2, <1>3, <1>5 DEF PostUnanswered
    <2> QED
      BY <1>1, <1>5, <2>1, TryAgainSound DEF PostUnanswered
  <1>6. ASSUME PostConflict(w) PROVE Good
    <2>1. ASSUME IsTerminal(ex[w].out),
                 ex' = [ex EXCEPT ![w].pc = "reread"], UNCHANGED dispatched
          PROVE  ExecutionsSound' /\ dispatched' \in 0..MaxCounted
      <3>1. ex[w].out \in Result
        BY <1>1, <2>1 DEF IsTerminal, Update, Result, TerminalStatus
      <3> QED
        BY <2>1, <3>1
        DEF TypeInv, TypeOK, ExecutionsSound, Sound, Execution, Place
    <2>2. Raise(w, "conflict")
            => ExecutionsSound' /\ dispatched' \in 0..MaxCounted
      BY RaiseSound DEF Reason
    <2> QED
      BY <1>1, <1>3, <1>6, <2>1, <2>2 DEF PostConflict
  <1>7. ASSUME PostRefused(w) PROVE Good
    <2>1. PICK e \in Refusals : Raise(w, e)
      BY <1>7 DEF PostRefused
    <2>2. ExecutionsSound' /\ dispatched' \in 0..MaxCounted
      BY <2>1, RaiseSound DEF Refusals, Reason
    <2> QED
      BY <1>1, <1>3, <1>7, <2>2 DEF PostRefused
  <1>8. ASSUME PostBroken(w) PROVE Good
    <2>1. ExecutionsSound' /\ dispatched' \in 0..MaxCounted
      BY <1>8, RaiseSound DEF PostBroken, Reason
    <2> QED
      BY <1>1, <1>2, <1>3, <1>8, <2>1 DEF PostBroken
  <1>9. Good
    BY <1>4, <1>5, <1>6, <1>7, <1>8 DEF Post
  <1> QED
    BY <1>9 DEF Post, TypeInv, TypeOK, ExecutionsSound, queueVars

LEMMA TypeRereadAfterConflict ==
    ASSUME TypeInv, NEW w \in Workers, RereadAfterConflict(w)
    PROVE  TypeInv'
  <1>1. ex[w].pc = "reread" /\ Sound(ex[w]) /\ ex[w].out \in Result
    BY DEF RereadAfterConflict, TypeInv, ExecutionsSound, Sound
  <1>2. ASSUME ex[w].attempt + 1 < MaxPostAttempts,
               ex' = [ex EXCEPT ![w].pc = "post", ![w].attempt = @ + 1]
        PROVE  ExecutionsSound'
    <2>1. ex[w].attempt + 1 \in 0..(MaxPostAttempts - 1)
      BY <1>2, DeliveryAssumption DEF TypeInv, ExecutionsSound, Execution
    <2>2. ex[w].out \in Update
      BY <1>1 DEF Result, Update, UpdateStatus
    <2> QED
      BY <1>1, <1>2, <2>1, <2>2
      DEF TypeInv, ExecutionsSound, Sound, Execution, Place
  <1>3. ASSUME ex' = [ex EXCEPT ![w] = Leaving(w, "ack")]
        PROVE  ExecutionsSound'
    BY <1>3, LeavingSound, ReplaceSound DEF TypeInv
  <1>4. GiveUp(w, "conflict") => ExecutionsSound'
    BY GiveUpSound DEF TypeInv, Reason
  <1>5. ASSUME NEW e \in GetFailure, Abort(w, e)
        PROVE  ExecutionsSound'
    BY <1>5, FailureReasons, AbortSound DEF TypeInv
  <1>6. ExecutionsSound'
    BY <1>2, <1>3, <1>4, <1>5 DEF RereadAfterConflict
  <1> QED
    BY <1>6
    DEF RereadAfterConflict, TypeInv, TypeOK, ExecutionsSound, backendVars,
        queueVars, counters, envVars, BackendTypeOK

-----------------------------------------------------------------------------
(* The pipeline, the end of an execution, and the environment.             *)

LEMMA TypeEmitProgress ==
    ASSUME TypeInv, NEW w \in Workers, EmitProgress(w)
    PROVE  TypeInv'
  <1> DEFINE u == [seq |-> ex[w].seq + 1, status |-> "progress"]
             n == ex[w].seq + 1
             k == ex[w].emitted + 1
             x == [ex[w] EXCEPT !.pc = "post", !.seq = n, !.emitted = k,
                                !.out = u]
  <1>1. ex[w] \in Execution /\ ex[w].seq \in Nat
    BY DEF TypeInv, ExecutionsSound, Execution
  <1>2. n \in Nat /\ k \in 0..MaxProgress
    BY <1>1, DeliveryAssumption DEF EmitProgress, Execution
  <1>3. u \in Update
    BY <1>1 DEF Update, UpdateStatus
  <1>4. ex' = [ex EXCEPT ![w] = x]
    BY DEF EmitProgress, TypeInv, ExecutionsSound
  <1> HIDE DEF u, n, k
  <1>5. x \in Execution
    BY <1>1, <1>2, <1>3 DEF Execution, Place
  <1>6. x.pc = "post" /\ x.out = u
    BY <1>1 DEF Execution
  <1> HIDE DEF x
  <1>7. ExecutionsSound'
    BY <1>3, <1>4, <1>5, <1>6, ReplaceSound DEF Sound, TypeInv
  <1> QED
    BY <1>7
    DEF EmitProgress, TypeInv, TypeOK, ExecutionsSound, backendVars,
        queueVars, counters, envVars, BackendTypeOK

LEMMA TypePipeline ==
    ASSUME TypeInv, NEW w \in Workers,
           CheckCancellation(w) \/ Finish(w) \/ FailTransiently(w)
    PROVE  TypeInv'
  <1>1. ex[w].seq \in Nat
    BY DEF TypeInv, ExecutionsSound, Execution
  <1>2. ASSUME NEW outcome \in TerminalStatus, Conclude(w, ex[w].seq, outcome)
        PROVE  ExecutionsSound' /\ computed' \in 0..MaxCounted
    BY <1>1, <1>2, ConcludeSound
  <1>3. ASSUME NEW e \in GetFailure, GiveUp(w, e)
        PROVE  ExecutionsSound'
    BY <1>3, FailureReasons, GiveUpSound DEF TypeInv
  <1>4. ASSUME ex[w].held.retries < MaxProviderRetries, GiveUp(w, "provider")
        PROVE  ExecutionsSound'
    BY <1>4, GiveUpSound DEF TypeInv, Reason
  <1>5. UNCHANGED computed => computed' \in 0..MaxCounted
    BY DEF TypeInv, TypeOK
  <1>6. ExecutionsSound' /\ computed' \in 0..MaxCounted
    BY <1>2, <1>3, <1>4, <1>5
    DEF CheckCancellation, Finish, FailTransiently, TerminalStatus
  <1>7. UNCHANGED <<backendVars, queueVars, quarantine, dispatched, envVars>>
    BY DEF CheckCancellation, Finish, FailTransiently
  <1> QED
    BY <1>6, <1>7
    DEF TypeInv, TypeOK, ExecutionsSound, backendVars, queueVars, envVars,
        BackendTypeOK

\* A retry's counter stays in range because WillRetry looks at it first, and
\* after a provider failure because FailTransiently did.
LEMMA TypePublishRetry ==
    ASSUME TypeInv, NEW w \in Workers, PublishRetry(w)
    PROVE  TypeInv'
  <1> DEFINE m == [id |-> nextId, retries |-> ex[w].held.retries + 1,
                   upd |-> ex[w].out]
  <1>1. /\ ex[w].pc = "failed" /\ Sound(ex[w])
        /\ ex[w].held.retries \in 0..MaxTaskRetries
    BY DEF PublishRetry, TypeInv, ExecutionsSound, Sound, Execution, Message
  <1>2. ex[w].held.retries < MaxTaskRetries
    BY <1>1, DeliveryAssumption
    DEF PublishRetry, WillRetry, Sound, MaxTaskRetries
  <1>3. ex[w].held.retries + 1 \in 0..MaxTaskRetries
    BY <1>1, <1>2, DeliveryAssumption DEF MaxTaskRetries
  <1>4. m \in Message
    BY <1>1, <1>3 DEF Message, Sound, TypeInv, TypeOK
  <1>5. ExecutionsSound'
    BY LeavingSound, ReplaceSound DEF PublishRetry, TypeInv
  <1>6. broker' = broker \cup {m}
    BY DEF PublishRetry
  <1> HIDE DEF m
  <1>7. broker' \subseteq Message
    BY <1>4, <1>6 DEF TypeInv, TypeOK
  <1> QED
    BY <1>5, <1>7
    DEF PublishRetry, TypeInv, TypeOK, ExecutionsSound, backendVars, counters,
        envVars, BackendTypeOK

LEMMA TypeQuarantine ==
    ASSUME TypeInv, NEW w \in Workers, Quarantine(w)
    PROVE  TypeInv'
  <1>1. ex[w].pc = "failed" /\ Sound(ex[w]) /\ ex[w].err \in Reason
    BY DEF Quarantine, TypeInv, ExecutionsSound, Sound, Execution
  <1>2. ex[w].out.status \in TerminalStatus \cup {"none"}
    BY <1>1 DEF Sound, Result, NoUpdate
  <1>3. quarantine' \subseteq QuarantineRecord
    BY <1>1, <1>2 DEF Quarantine, QuarantineRecord, TypeInv, TypeOK
  <1>4. ExecutionsSound'
    BY LeavingSound, ReplaceSound DEF Quarantine, TypeInv
  <1> QED
    BY <1>3, <1>4
    DEF Quarantine, TypeInv, TypeOK, ExecutionsSound, backendVars, queueVars,
        counters, envVars, BackendTypeOK

LEMMA TypeAcknowledge ==
    ASSUME TypeInv, NEW w \in Workers, Acknowledge(w)
    PROVE  TypeInv'
  <1>1. ExecutionsSound'
    BY IdleSound, ReplaceSound DEF Acknowledge, TypeInv
  <1> QED
    BY <1>1
    DEF Acknowledge, TypeInv, TypeOK, ExecutionsSound, backendVars, counters,
        envVars, BackendTypeOK

LEMMA TypeCrash ==
    ASSUME TypeInv, NEW w \in Workers, Crash(w)
    PROVE  TypeInv'
  <1>1. ExecutionsSound'
    BY IdleSound, ReplaceSound DEF Crash, TypeInv
  <1>2. ex[w].pc = "post" => ex[w].out \in Update
    BY DEF TypeInv, ExecutionsSound, Sound
  <1>3. late' \subseteq Update
    BY <1>2 DEF Crash, TypeInv, TypeOK
  <1> QED
    BY <1>1, <1>3
    DEF Crash, TypeInv, TypeOK, ExecutionsSound, backendVars, queueVars,
        counters, BackendTypeOK

LEMMA TypeEnvironment ==
    ASSUME TypeInv, LateArrival \/ UserAction
    PROVE  TypeInv'
  <1>1. BackendTypeOK' /\ late' \subseteq Update
    <2>1. BackendTypeOK /\ late \subseteq Update
      BY DEF TypeInv, TypeOK
    <2>2. UNCHANGED backendVars => BackendTypeOK'
      BY <2>1 DEF backendVars, BackendTypeOK
    <2> QED
      BY <2>1, <2>2, BackendTypes DEF LateArrival, UserAction, envVars
  <1>2. /\ UNCHANGED <<queueVars, ex, quarantine, counters>>
        /\ UNCHANGED <<crashes, redeliveries>>
    BY DEF LateArrival, UserAction, envVars
  <1> QED
    BY <1>1, <1>2
    DEF TypeInv, TypeOK, ExecutionsSound, queueVars, counters

\* The type invariant is inductive.
LEMMA TypeStep == TypeInv /\ [Next]_vars => TypeInv'
  <1> SUFFICES ASSUME TypeInv, [Next]_vars PROVE TypeInv'
    OBVIOUS
  <1>1. ASSUME NEW w \in Workers, Deliver(w) \/ Step(w) \/ Crash(w)
        PROVE  TypeInv'
    BY <1>1, TypeDeliver, TypeCheckBeforeDispatch, TypeReadSequence, TypePost,
       TypeRereadAfterConflict, TypeEmitProgress, TypePipeline,
       TypePublishRetry, TypeQuarantine, TypeAcknowledge, TypeCrash
    DEF Step
  <1>2. CASE UNCHANGED vars
    BY <1>2
    DEF vars, TypeInv, TypeOK, ExecutionsSound, backendVars, queueVars,
        counters, envVars, BackendTypeOK
  <1> QED
    BY <1>1, <1>2, TypeEnvironment DEF Next

\* Every variable keeps its type, a message never carries more retries than
\* MAX_TASK_RETRIES, and what is retried or quarantined is a result or nothing,
\* whatever the limits, the workers and the faults.
THEOREM TypeCorrect == Spec => []TypeOK
  <1>1. TypeInv => TypeOK
    BY DEF TypeInv
  <1> QED
    BY <1>1, TypeInit, TypeStep, PTL DEF Spec

-----------------------------------------------------------------------------
(* No job is lost, and JobDelivery implements JobPromise, as long as two   *)
(* faults stay away: an answer 409 to a result that could have been        *)
(* recorded, and an error that the HTTP client code does not name.  (With  *)
(* either the worker acknowledges a job whose result nobody has.)          *)

NoResultLost == Faults \cap {"race", "exception"} = {}

\* Ids of messages are below nextId.
IdsBelowNext ==
    /\ nextId > 0
    /\ \A m \in broker : m.id < nextId
    /\ \A w \in Workers : ex[w].held.id < nextId

\* Until the job is settled, the broker holds the message published last.
LatestHeld == Settled \/ \E m \in broker : m.id = nextId - 1

\* What a worker acknowledges is settled, or a later message took over.
AckIsSafe ==
    \A w \in Workers :
        ex[w].pc = "ack" => Settled \/ ex[w].held.id < nextId - 1

\* A conflict that is read about is a conflict for good.
ConflictIsFinal ==
    \A w \in Workers : ex[w].pc = "reread" => ~WorthRetrying(ex[w].out)

PromiseInv ==
    /\ TypeInv
    /\ IdsBelowNext
    /\ LatestHeld
    /\ AckIsSafe
    /\ ConflictIsFinal

-----------------------------------------------------------------------------
(* What no step of the system takes back.                                  *)

Forward ==
    /\ lastSeq <= lastSeq'
    /\ cancelRequested => cancelRequested'
    /\ Closed => status' = status
    /\ quarantine # {} => quarantine' # {}

LEMMA RecordForward ==
    ASSUME BackendTypeOK, NEW u \in Update, Record(u), UNCHANGED quarantine
    PROVE  Forward /\ (IsTerminal(u) => Closed')
  <1>1. u.seq \in Nat /\ u.status \in UpdateStatus
    BY DEF Update
  <1>2. lastSeq <= lastSeq'
    BY <1>1 DEF Record, CanRecord, BackendTypeOK
  <1>3. Closed => status' = status
    BY DEF Record, CanRecord, Closed, IsTerminal, Active, TerminalStatus
  <1>4. IsTerminal(u) => Closed'
    BY DEF Record, Closed, IsTerminal, Active, TerminalStatus
  <1> QED
    BY <1>2, <1>3, <1>4 DEF Forward, Record

LEMMA StillForward ==
    ASSUME BackendTypeOK, UNCHANGED backendVars, quarantine \subseteq quarantine'
    PROVE  Forward
  BY DEF Forward, backendVars, BackendTypeOK

\* The sequence, the request to cancel and the closing of the record are never
\* taken back, nor is what an operator was handed.
LEMMA StepsForward ==
    ASSUME TypeInv, [Next]_vars
    PROVE  Forward
  <1>1. BackendTypeOK
    BY DEF TypeInv, TypeOK
  <1>2. ASSUME NEW w \in Workers, Post(w) PROVE Forward
    <2>1. ex[w].out \in Update
      BY <1>2 DEF Post, TypeInv, ExecutionsSound, Sound
    <2>2. UNCHANGED quarantine
      BY <1>2 DEF Post
    <2>3. Record(ex[w].out) \/ UNCHANGED backendVars
      BY <1>2
      DEF Post, PostRecorded, PostUnanswered, PostConflict, PostRefused,
          PostBroken
    <2> QED
      BY <1>1, <2>1, <2>2, <2>3, RecordForward, StillForward
  <1>3. ASSUME NEW w \in Workers, Deliver(w) \/ Step(w) \/ Crash(w), ~Post(w)
        PROVE  Forward
    <2>1. UNCHANGED backendVars /\ quarantine \subseteq quarantine'
      BY <1>3
      DEF Step, Deliver, CheckBeforeDispatch, ReadSequence,
          RereadAfterConflict, EmitProgress, CheckCancellation, Finish,
          FailTransiently, PublishRetry, Quarantine, Acknowledge, Crash
    <2> QED
      BY <1>1, <2>1, StillForward
  <1>4. ASSUME LateArrival PROVE Forward
    <2>1. PICK u \in late : IF CanRecord(u) THEN Record(u)
                            ELSE UNCHANGED backendVars
      BY <1>4 DEF LateArrival
    <2>2. u \in Update /\ UNCHANGED quarantine
      BY <1>4 DEF LateArrival, TypeInv, TypeOK
    <2> QED
      BY <1>1, <2>1, <2>2, RecordForward, StillForward
  <1>5. ASSUME UserAction PROVE Forward
    BY <1>1, <1>5
    DEF UserAction, RequestCancellation, Supersede, Forward, Closed,
        BackendTypeOK
  <1>6. CASE UNCHANGED vars
    BY <1>1, <1>6, StillForward DEF vars
  <1> QED
    BY <1>2, <1>3, <1>4, <1>5, <1>6 DEF Next

LEMMA SettledStays ==
    ASSUME Forward, Settled
    PROVE  Settled'
  BY DEF Forward, Settled, Closed

-----------------------------------------------------------------------------
(* Most actions change one execution and no message.                       *)

Quiet(w) ==
    /\ \A v \in Workers \ {w} : ex'[v] = ex[v]
    /\ ex'[w].held.id < nextId
    /\ ex'[w].pc = "ack" => Settled'
    /\ (ex[w].pc = "reread" => ~WorthRetrying(ex[w].out))'
    /\ UNCHANGED <<broker, nextId>>

LEMMA QuietStep ==
    ASSUME PromiseInv, TypeInv', Forward, NEW w \in Workers, Quiet(w)
    PROVE  PromiseInv'
  <1>1. IdsBelowNext'
    BY DEF PromiseInv, IdsBelowNext, Quiet
  <1>2. LatestHeld'
    BY SettledStays DEF PromiseInv, LatestHeld, Quiet
  <1>3. AckIsSafe'
    BY SettledStays DEF PromiseInv, AckIsSafe, Quiet
  <1>4. ConflictIsFinal'
    <2> SUFFICES ASSUME NEW v \in Workers, ex'[v].pc = "reread"
                 PROVE  ~WorthRetrying(ex[v].out)'
      BY DEF ConflictIsFinal
    <2>1. CASE v = w
      BY <2>1 DEF Quiet
    <2>2. CASE v # w
      <3>1. ex'[v] = ex[v]
        BY <2>2 DEF Quiet
      <3>2. ~WorthRetrying(ex[v].out) /\ ex[v].out \in Update
        BY <3>1
        DEF PromiseInv, ConflictIsFinal, TypeInv, ExecutionsSound, Sound,
            Result, Update, UpdateStatus
      <3>3. /\ lastSeq \in Nat /\ lastSeq' \in Nat
            /\ ex[v].out.seq \in Nat
        BY <3>2 DEF PromiseInv, TypeInv, TypeOK, BackendTypeOK, Update
      <3> QED
        BY <3>1, <3>2, <3>3 DEF WorthRetrying, Forward, Closed
    <2> QED BY <2>1, <2>2
  <1> QED
    BY <1>1, <1>2, <1>3, <1>4 DEF PromiseInv

\* The execution moves on, still far from its acknowledgement.
Moved(w) ==
    /\ \A v \in Workers \ {w} : ex'[v] = ex[v]
    /\ ex'[w].held = ex[w].held
    /\ ex'[w].pc \notin {"ack", "reread"}

LEMMA MovedQuiet ==
    ASSUME PromiseInv, NEW w \in Workers, Moved(w),
           UNCHANGED <<broker, nextId>>
    PROVE  Quiet(w)
  BY DEF PromiseInv, IdsBelowNext, Moved, Quiet

LEMMA GiveUpMoves ==
    ASSUME TypeInv, NEW w \in Workers, NEW e, GiveUp(w, e)
    PROVE  Moved(w)
  BY DEF TypeInv, ExecutionsSound, GiveUp, Leaving, Idle, Moved

LEMMA AbortMoves ==
    ASSUME TypeInv, NEW w \in Workers, NEW e, e # "exception", Abort(w, e)
    PROVE  Moved(w)
  BY GiveUpMoves DEF Abort

LEMMA ConcludeMoves ==
    ASSUME TypeInv, NEW w \in Workers, NEW seq, NEW outcome,
           Conclude(w, seq, outcome)
    PROVE  Moved(w)
  BY DEF TypeInv, ExecutionsSound, Conclude, Leaving, Idle, Moved

LEMMA RaiseMoves ==
    ASSUME TypeInv, NEW w \in Workers, NEW e, e # "exception", Raise(w, e)
    PROVE  Moved(w)
  <1>1. ASSUME ex' = [ex EXCEPT ![w].pc = "run", ![w].out = NoUpdate,
                                ![w].attempt = 0]
        PROVE  Moved(w)
    BY <1>1 DEF TypeInv, ExecutionsSound, Execution, Moved
  <1> QED
    BY <1>1, AbortMoves DEF Raise

LEMMA TryAgainMoves ==
    ASSUME TypeInv, NEW w \in Workers, ex[w].pc = "post", TryAgain(w)
    PROVE  Moved(w)
  <1>1. CASE ex[w].attempt + 1 < MaxPostAttempts
    BY <1>1 DEF TryAgain, TypeInv, ExecutionsSound, Execution, Moved
  <1>2. CASE ~(ex[w].attempt + 1 < MaxPostAttempts)
    BY <1>2, RaiseMoves DEF TryAgain
  <1> QED BY <1>1, <1>2

-----------------------------------------------------------------------------
(* One lemma for each kind of action.                                      *)

LEMMA NamedFailures ==
    ASSUME NoResultLost
    PROVE  "exception" \notin GetFailure
  BY DEF NoResultLost, GetFailure, Refusals

\* Before its post an execution only moves on.
LEMMA BeforePostQuiet ==
    ASSUME NoResultLost, PromiseInv, NEW w \in Workers,
           \/ CheckBeforeDispatch(w) \/ ReadSequence(w) \/ EmitProgress(w)
           \/ CheckCancellation(w) \/ Finish(w) \/ FailTransiently(w)
    PROVE  Quiet(w)
  <1> USE DEF PromiseInv
  <1>1. UNCHANGED <<broker, nextId>>
    BY DEF CheckBeforeDispatch, ReadSequence, EmitProgress, CheckCancellation,
           Finish, FailTransiently, queueVars
  <1>2. ASSUME NEW e \in GetFailure, Abort(w, e) \/ GiveUp(w, e)
        PROVE  Moved(w)
    BY <1>2, NamedFailures, AbortMoves, GiveUpMoves
  <1>3. ASSUME CheckBeforeDispatch(w) PROVE Moved(w)
    <2>1. ASSUME ex' = [ex EXCEPT ![w].pc = "sequence",
                                  ![w].cancelled = CancelSeen]
          PROVE  Moved(w)
      BY <2>1 DEF TypeInv, ExecutionsSound, Execution, Moved
    <2> QED
      BY <1>2, <1>3, <2>1 DEF CheckBeforeDispatch
  <1>4. ASSUME ReadSequence(w) PROVE Moved(w)
    <2>1. PostNext(w, lastSeq, "started") => Moved(w)
      BY DEF PostNext, TypeInv, ExecutionsSound, Execution, Moved
    <2> QED
      BY <1>2, <1>4, <2>1, ConcludeMoves DEF ReadSequence
  <1>5. ASSUME EmitProgress(w) PROVE Moved(w)
    BY <1>5 DEF EmitProgress, TypeInv, ExecutionsSound, Execution, Moved
  <1>6. ASSUME CheckCancellation(w) \/ Finish(w) \/ FailTransiently(w)
        PROVE  Moved(w)
    BY <1>2, <1>6, ConcludeMoves, GiveUpMoves
    DEF CheckCancellation, Finish, FailTransiently
  <1> QED
    BY <1>1, <1>3, <1>4, <1>5, <1>6, MovedQuiet

LEMMA DeliverQuiet ==
    ASSUME PromiseInv, NEW w \in Workers, Deliver(w)
    PROVE  Quiet(w)
  <1>1. PICK m \in broker :
          ex' = [ex EXCEPT ![w] =
                   [Idle EXCEPT
                       !.held = m,
                       !.knew = CancelSeen,
                       !.pc = IF Carried(m.upd) THEN "post" ELSE FirstCall,
                       !.out = m.upd,
                       !.err = IF ~Carried(m.upd) /\ kind = "unidentified"
                               THEN "malformed" ELSE "none"]]
    BY DEF Deliver
  <1>2. m.id < nextId
    BY DEF PromiseInv, IdsBelowNext
  <1>3. ex'[w].held = m /\ ex'[w].pc \notin {"ack", "reread"}
    BY <1>1 DEF Idle, FirstCall, PromiseInv, TypeInv, ExecutionsSound
  <1> QED
    BY <1>1, <1>2, <1>3
    DEF Quiet, Deliver, queueVars, PromiseInv, TypeInv, ExecutionsSound

\* A post that is answered leaves the result recorded or the execution going.
LEMMA PostQuiet ==
    ASSUME NoResultLost, PromiseInv, NEW w \in Workers, Post(w)
    PROVE  Quiet(w)
  <1>1. /\ ex[w].pc = "post" /\ ex[w].out \in Update
        /\ BackendTypeOK /\ TypeInv
        /\ ex[w].held.id < nextId
    BY DEF Post, PromiseInv, IdsBelowNext, TypeInv, TypeOK, ExecutionsSound,
           Sound
  <1>2. UNCHANGED <<broker, nextId, quarantine>>
    BY DEF Post, queueVars
  <1>3. ASSUME PostRecorded(w) PROVE Quiet(w)
    <2>1. IsTerminal(ex[w].out) => Settled'
      BY <1>1, <1>2, <1>3, RecordForward DEF PostRecorded, Settled
    <2>2. CASE IsTerminal(ex[w].out)
      BY <1>1, <1>2, <1>3, <2>1, <2>2
      DEF PostRecorded, Delivered, Leaving, Idle, Quiet, TypeInv,
          ExecutionsSound
    <2>3. CASE ~IsTerminal(ex[w].out)
      <3>1. Moved(w)
        BY <1>1, <1>3, <2>3
        DEF PostRecorded, Delivered, Moved, TypeInv, ExecutionsSound, Execution
      <3> QED
        BY <1>2, <3>1, MovedQuiet
    <2> QED BY <2>2, <2>3
  <1>4. ASSUME PostConflict(w) PROVE Quiet(w)
    <2>1. CASE IsTerminal(ex[w].out)
      <3>1. /\ ex' = [ex EXCEPT ![w].pc = "reread"]
            /\ UNCHANGED backendVars
            /\ MayConflict(ex[w].out)
        BY <1>4, <2>1 DEF PostConflict
      <3>2. ~WorthRetrying(ex[w].out)
        BY <1>1, <3>1
        DEF MayConflict, CanRecord, WorthRetrying, NoResultLost, Update,
            BackendTypeOK
      <3>3. /\ ex'[w].out = ex[w].out /\ ex'[w].held = ex[w].held
            /\ ex'[w].pc = "reread"
            /\ \A v \in Workers \ {w} : ex'[v] = ex[v]
        BY <1>1, <3>1 DEF TypeInv, ExecutionsSound, Execution
      <3>4. (ex[w].pc = "reread" => ~WorthRetrying(ex[w].out))'
        BY <3>1, <3>2, <3>3 DEF WorthRetrying, backendVars
      <3> QED
        BY <1>1, <1>2, <3>3, <3>4 DEF Quiet
    <2>2. CASE ~IsTerminal(ex[w].out)
      BY <1>1, <1>2, <1>4, <2>2, RaiseMoves, MovedQuiet DEF PostConflict
    <2> QED BY <2>1, <2>2
  <1>5. ASSUME PostUnanswered(w) \/ PostRefused(w) PROVE Quiet(w)
    <2>1. Moved(w)
      BY <1>1, <1>5, TryAgainMoves, RaiseMoves
      DEF PostUnanswered, PostRefused, Refusals
    <2> QED
      BY <1>2, <2>1, MovedQuiet
  <1>6. ~PostBroken(w)
    BY DEF PostBroken, NoResultLost
  <1> QED
    BY <1>3, <1>4, <1>5, <1>6 DEF Post

\* Without a race a conflict is final, and the result goes to a retry or to an
\* operator.
LEMMA RereadQuiet ==
    ASSUME NoResultLost, PromiseInv, NEW w \in Workers, RereadAfterConflict(w)
    PROVE  Quiet(w)
  <1>1. ~WorthRetrying(ex[w].out)
    BY DEF RereadAfterConflict, PromiseInv, ConflictIsFinal
  <1>2. Moved(w)
    BY <1>1, NamedFailures, AbortMoves, GiveUpMoves
    DEF RereadAfterConflict, PromiseInv
  <1> QED
    BY <1>2, MovedQuiet DEF RereadAfterConflict, queueVars

LEMMA QuarantineQuiet ==
    ASSUME PromiseInv, NEW w \in Workers, Quarantine(w)
    PROVE  Quiet(w)
  <1>1. Settled'
    BY DEF Quarantine, Settled
  <1> QED
    BY <1>1
    DEF Quarantine, Quiet, Leaving, Idle, queueVars, PromiseInv, IdsBelowNext,
        TypeInv, ExecutionsSound

LEMMA CrashQuiet ==
    ASSUME PromiseInv, NEW w \in Workers, Crash(w)
    PROVE  Quiet(w)
  BY DEF Crash, Quiet, Idle, NoMessage, queueVars, PromiseInv, IdsBelowNext,
         TypeInv, ExecutionsSound

\* A retry is the new latest message: what was the latest is no longer.
LEMMA PublishRetryPromise ==
    ASSUME PromiseInv, TypeInv', Forward, NEW w \in Workers, PublishRetry(w)
    PROVE  PromiseInv'
  <1> DEFINE m == [id |-> nextId, retries |-> ex[w].held.retries + 1,
                   upd |-> ex[w].out]
  <1>1. /\ ex' = [ex EXCEPT ![w] = Leaving(w, "ack")]
        /\ broker' = broker \cup {m} /\ nextId' = nextId + 1
        /\ UNCHANGED <<backendVars, quarantine>>
    BY DEF PublishRetry
  <1>2. /\ ex'[w].held = ex[w].held /\ ex'[w].pc = "ack"
        /\ \A v \in Workers \ {w} : ex'[v] = ex[v]
    BY <1>1 DEF Leaving, Idle, PromiseInv, TypeInv, ExecutionsSound
  <1>3. m.id = nextId
    OBVIOUS
  <1> HIDE DEF m
  <1>4. /\ nextId \in Nat
        /\ \A n \in broker : n.id \in Nat
        /\ \A v \in Workers : ex[v].held.id \in Nat
    BY DEF PromiseInv, TypeInv, TypeOK, ExecutionsSound, Execution, Message
  <1>5. IdsBelowNext'
    BY <1>1, <1>2, <1>3, <1>4 DEF PromiseInv, IdsBelowNext
  <1>6. LatestHeld'
    BY <1>1, <1>3, <1>4 DEF LatestHeld
  <1>7. AckIsSafe'
    BY <1>1, <1>2, <1>4, SettledStays DEF PromiseInv, AckIsSafe, IdsBelowNext
  <1>8. ConflictIsFinal'
    BY <1>1, <1>2
    DEF PromiseInv, ConflictIsFinal, WorthRetrying, backendVars
  <1> QED
    BY <1>5, <1>6, <1>7, <1>8 DEF PromiseInv

LEMMA AcknowledgePromise ==
    ASSUME PromiseInv, TypeInv', Forward, NEW w \in Workers, Acknowledge(w)
    PROVE  PromiseInv'
  <1>1. /\ ex[w].pc = "ack"
        /\ broker' = broker \ {ex[w].held}
        /\ ex' = [ex EXCEPT ![w] = Idle]
        /\ UNCHANGED <<backendVars, nextId, quarantine>>
    BY DEF Acknowledge
  <1>2. /\ ex'[w] = Idle
        /\ \A v \in Workers \ {w} : ex'[v] = ex[v]
    BY <1>1 DEF PromiseInv, TypeInv, ExecutionsSound
  <1>3. nextId \in Nat /\ ex[w].held.id \in Nat
    BY DEF PromiseInv, TypeInv, TypeOK, ExecutionsSound, Execution, Message
  <1>4. Settled \/ ex[w].held.id < nextId - 1
    BY <1>1 DEF PromiseInv, AckIsSafe
  <1>5. IdsBelowNext'
    BY <1>1, <1>2 DEF PromiseInv, IdsBelowNext, Idle, NoMessage
  <1>6. LatestHeld'
    BY <1>1, <1>3, <1>4, SettledStays DEF PromiseInv, LatestHeld
  <1>7. AckIsSafe'
    BY <1>1, <1>2, SettledStays DEF PromiseInv, AckIsSafe, Idle
  <1>8. ConflictIsFinal'
    BY <1>1, <1>2
    DEF PromiseInv, ConflictIsFinal, WorthRetrying, backendVars, Idle
  <1> QED
    BY <1>5, <1>6, <1>7, <1>8 DEF PromiseInv

\* What happens outside the workers changes neither messages nor executions.
LEMMA EnvironmentPromise ==
    ASSUME PromiseInv, TypeInv', Forward,
           UNCHANGED <<broker, nextId, ex>>
    PROVE  PromiseInv'
  <1>1. IdsBelowNext' /\ LatestHeld' /\ AckIsSafe'
    BY SettledStays DEF PromiseInv, IdsBelowNext, LatestHeld, AckIsSafe
  <1>2. ASSUME NEW v \in Workers, ex[v].pc = "reread"
        PROVE  ~WorthRetrying(ex[v].out)'
    <2>1. ~WorthRetrying(ex[v].out) /\ ex[v].out \in Update
      BY <1>2
      DEF PromiseInv, ConflictIsFinal, TypeInv, ExecutionsSound, Sound,
          Result, Update, UpdateStatus
    <2>2. /\ lastSeq \in Nat /\ lastSeq' \in Nat
          /\ ex[v].out.seq \in Nat
      BY <2>1 DEF PromiseInv, TypeInv, TypeOK, BackendTypeOK, Update
    <2> QED
      BY <2>1, <2>2 DEF WorthRetrying, Forward, Closed
  <1> QED
    BY <1>1, <1>2 DEF PromiseInv, ConflictIsFinal

-----------------------------------------------------------------------------
(* The theorems.                                                           *)

LEMMA PromiseInit == Init => PromiseInv
  <1> SUFFICES ASSUME Init PROVE PromiseInv
    OBVIOUS
  <1>1. IdsBelowNext /\ LatestHeld
    BY DEF Init, IdsBelowNext, LatestHeld, Idle, NoMessage
  <1>2. AckIsSafe /\ ConflictIsFinal
    BY DEF Init, AckIsSafe, ConflictIsFinal, Idle
  <1> QED
    BY <1>1, <1>2, TypeInit DEF PromiseInv

LEMMA PromiseStep ==
    ASSUME NoResultLost
    PROVE  PromiseInv /\ [Next]_vars => PromiseInv'
  <1> SUFFICES ASSUME PromiseInv, [Next]_vars PROVE PromiseInv'
    OBVIOUS
  <1>1. TypeInv' /\ Forward
    BY TypeStep, StepsForward DEF PromiseInv
  <1>2. ASSUME NEW w \in Workers, Quiet(w) PROVE PromiseInv'
    BY <1>1, <1>2, QuietStep
  <1>3. ASSUME NEW w \in Workers, Deliver(w) \/ Step(w) \/ Crash(w)
        PROVE  PromiseInv'
    BY <1>1, <1>2, <1>3, DeliverQuiet, BeforePostQuiet, PostQuiet,
       RereadQuiet, QuarantineQuiet, CrashQuiet, PublishRetryPromise,
       AcknowledgePromise
    DEF Step
  <1>4. CASE LateArrival \/ UserAction \/ UNCHANGED vars
    BY <1>1, <1>4, EnvironmentPromise
    DEF LateArrival, UserAction, queueVars, vars
  <1> QED
    BY <1>3, <1>4 DEF Next

\* While its record is open and no operator was handed it, the broker holds a
\* message for the job: through crashes, second deliveries, outages, lost and
\* late updates, refusals and cancellations, for any limits on attempts and
\* retries and any number of workers.
THEOREM JobIsNeverLost ==
    ASSUME NoResultLost
    PROVE  Spec => []NoJobLost
  <1>1. PromiseInv => NoJobLost
    BY DEF PromiseInv, LatestHeld, NoJobLost
  <1> QED
    BY <1>1, PromiseInit, PromiseStep, PTL DEF Spec

\* Each step of the worker and its environment is a step of the promise.
LEMMA PromiseSimulated ==
    ASSUME PromiseInv, PromiseInv', [Next]_vars
    PROVE  [Promise!Next]_(Promise!vars)
  <1> USE DEF Promise!Next, Promise!vars, Promise!Settled
  <1>1. /\ Forward
        /\ status \in JobStatus /\ status' \in JobStatus
        /\ Settled <=> status \notin Active \/ quarantine # {}
        /\ Settled' <=> status' \notin Active \/ quarantine' # {}
    BY StepsForward
    DEF PromiseInv, TypeInv, TypeOK, BackendTypeOK, Settled, Closed
  <1>2. "open" \notin JobStatus
    BY DEF JobStatus, Active, TerminalStatus
  <1>3. CASE UNCHANGED <<broker, quarantine>>
    BY <1>1, <1>2, <1>3 DEF Forward, Closed, Promise!Close
  <1>4. ASSUME NEW w \in Workers, Quarantine(w)
        PROVE  Promise!Park
    BY <1>4 DEF Quarantine, Promise!Park, backendVars, queueVars
  <1>5. ASSUME NEW w \in Workers, PublishRetry(w)
        PROVE  [Promise!Next]_(Promise!vars)
    <2>1. broker' # {} /\ UNCHANGED <<status, quarantine>>
      BY <1>5 DEF PublishRetry, backendVars
    <2>2. broker = {} => Settled
      BY DEF PromiseInv, LatestHeld
    <2> QED
      BY <1>1, <1>2, <2>1, <2>2 DEF Promise!Reopen
  <1>6. ASSUME NEW w \in Workers, Acknowledge(w)
        PROVE  [Promise!Next]_(Promise!vars)
    <2>1. broker' \subseteq broker /\ UNCHANGED <<status, quarantine>>
      BY <1>6 DEF Acknowledge, backendVars
    <2>2. broker' = {} => Settled'
      BY DEF PromiseInv, LatestHeld
    <2> QED
      BY <1>1, <1>2, <2>1, <2>2 DEF Promise!Release
  <1>7. ASSUME NEW w \in Workers, Deliver(w) \/ Step(w) \/ Crash(w),
               ~(Quarantine(w) \/ PublishRetry(w) \/ Acknowledge(w))
        PROVE  UNCHANGED <<broker, quarantine>>
    BY <1>7
    DEF Step, Deliver, Crash, CheckBeforeDispatch, ReadSequence, Post,
        RereadAfterConflict, EmitProgress, CheckCancellation, Finish,
        FailTransiently, queueVars
  <1>8. LateArrival \/ UserAction \/ UNCHANGED vars
          => UNCHANGED <<broker, quarantine>>
    BY DEF LateArrival, UserAction, vars, queueVars
  <1> QED
    BY <1>3, <1>4, <1>5, <1>6, <1>7, <1>8 DEF Next, Step

\* The worker keeps the promise of JobPromise: a closed record keeps its
\* outcome, and the broker lets go of a job only when it is settled.
THEOREM DeliveryImplementsPromise ==
    ASSUME NoResultLost
    PROVE  Spec => ImplementsPromise
  <1>1. Init => Promise!Init
    BY DEF Init, BackendInit, Promise!Init, JobStatus, Active, TerminalStatus
  <1>2. PromiseInv /\ PromiseInv' /\ [Next]_vars
          => [Promise!Next]_(Promise!vars)
    BY PromiseSimulated
  <1> QED
    BY <1>1, <1>2, PromiseInit, PromiseStep, PTL
    DEF Spec, ImplementsPromise, Promise!Spec
=============================================================================
