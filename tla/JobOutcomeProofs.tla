---------------------------- MODULE JobOutcomeProofs ----------------------------
(***************************************************************************)
(* What a job comes to: while no worker dies and no message is handed out  *)
(* twice it has one result and a bounded number of runs, and a cancelled   *)
(* job is not run, for every number of workers, every limit on attempts    *)
(* and retries and every combination of the other faults.                  *)
(***************************************************************************)
EXTENDS JobDeliveryProofs

-----------------------------------------------------------------------------
(* The inductive invariant.                                                *)

InHand(x) == x.pc \notin {"idle", "ack"}
HasResult(x) == IsTerminal(x.out)

\* The pipeline has not been run yet for the message.
Early(x) ==
    \/ x.pc \in {"check", "sequence"}
    \/ x.pc = "post" /\ x.out.status = "started"

\* Nothing is posted between the calls.
Clear(x) == x.pc \in {"check", "sequence", "run"} => x.out = NoUpdate

\* The job was cancelled before the message was taken, and is spared its run.
Warned(x) == x.knew /\ kind = "analysis" /\ ~Carried(x.held.upd)
Spared(x) ==
    \/ x.pc = "check"
    \/ x.pc = "sequence" /\ x.cancelled
    \/ x.pc \in {"post", "reread"} /\ x.out.status = "cancelled"

ExecutionsClear == \A w \in Workers : Clear(ex[w])

WarnedAreSpared == \A w \in Workers : Warned(ex[w]) => CancelSeen /\ Spared(ex[w])

Calm == crashes = 0 /\ redeliveries = 0

Held(m) == \E w \in Workers : Busy(w) /\ ex[w].held = m

\* The latest message is the only one whose execution is not over.
MessagesSound ==
    /\ \A m \in broker : m.id < nextId
    /\ \A m, n \in broker : m.id = n.id => m = n
    /\ \A w \in Workers : Busy(w) => ex[w].held \in broker
    /\ \A v, w \in Workers : Busy(v) /\ Busy(w) /\ ex[v].held = ex[w].held => v = w
    /\ \A m \in broker :
          m.id = nextId - 1 \/ \E w \in Workers : ex[w].pc = "ack" /\ ex[w].held = m

\* Once there is a result it is all that is executed or waits.
ResultsSound ==
    /\ computed <= 1
    /\ computed # 0 => /\ \A w \in Workers : InHand(ex[w]) => HasResult(ex[w])
                       /\ \A m \in broker : Held(m) \/ Carried(m.upd)

\* Each message counts the runs before it.
RunsCounted ==
    /\ dispatched <= 1 + MaxTaskRetries
    /\ \A w \in Workers : InHand(ex[w]) =>
          /\ dispatched <= ex[w].held.retries + 1
          /\ Early(ex[w]) => dispatched <= ex[w].held.retries
    /\ \A m \in broker : Held(m) \/ dispatched <= m.retries

CalmInv == Calm => MessagesSound /\ ResultsSound /\ RunsCounted

OutcomeInv == TypeInv /\ ExecutionsClear /\ WarnedAreSpared /\ CalmInv

-----------------------------------------------------------------------------
(* One execution at a time.                                                *)

\* While an execution is not over no other one is going on and no message waits.
LEMMA Sole ==
    ASSUME TypeInv, MessagesSound, NEW w \in Workers, InHand(ex[w])
    PROVE  /\ \A v \in Workers \ {w} : ~InHand(ex[v])
           /\ \A m \in broker : Held(m)
  <1>1. ASSUME NEW v \in Workers, InHand(ex[v])
        PROVE  ex[v].held \in broker /\ ex[v].held.id = nextId - 1
    <2>1. Busy(v) /\ ex[v].pc # "ack"
      BY <1>1 DEF InHand, Busy
    <2>2. \A u \in Workers : ex[u].pc = "ack" => Busy(u)
      BY DEF Busy
    <2> QED
      BY <2>1, <2>2 DEF MessagesSound
  <1>2. \A v \in Workers \ {w} : ~InHand(ex[v])
    <2> SUFFICES ASSUME NEW v \in Workers, InHand(ex[v]) PROVE v = w
      OBVIOUS
    <2>1. ex[v].held = ex[w].held
      BY <1>1 DEF MessagesSound
    <2>2. Busy(v) /\ Busy(w)
      BY DEF InHand, Busy
    <2> QED
      BY <2>1, <2>2 DEF MessagesSound
  <1>3. \A m \in broker : Held(m)
    <2> SUFFICES ASSUME NEW m \in broker PROVE Held(m)
      OBVIOUS
    <2>1. CASE m.id = nextId - 1
      BY <1>1, <2>1 DEF MessagesSound, Held, InHand, Busy
    <2>2. CASE \E v \in Workers : ex[v].pc = "ack" /\ ex[v].held = m
      BY <2>2 DEF Held, Busy
    <2> QED
      BY <2>1, <2>2 DEF MessagesSound
  <1> QED
    BY <1>2, <1>3

LEMMA Counting ==
    ASSUME NEW n \in 0..MaxCounted
    PROVE  Count(n) \in {n, n + 1}
  BY DEF Count

-----------------------------------------------------------------------------
(* Most steps take one execution further with its message.                 *)

Further(w) ==
    /\ \A v \in Workers \ {w} : ex'[v] = ex[v]
    /\ InHand(ex[w]) /\ ex'[w].pc # "idle" /\ ex'[w].held = ex[w].held
    /\ Clear(ex'[w])
    /\ Warned(ex'[w]) /\ CancelSeen /\ Spared(ex[w]) => Spared(ex'[w])
    /\ ex'[w].knew => ex[w].knew

\* Without a new result or run.
Onward(w) ==
    /\ Further(w)
    /\ HasResult(ex[w]) => HasResult(ex'[w]) \/ ex'[w].pc = "ack"
    /\ Early(ex'[w]) => Early(ex[w])

\* With a new result.
Concludes(w) ==
    /\ Further(w)
    /\ ~HasResult(ex[w]) /\ HasResult(ex'[w]) /\ ~Early(ex'[w])

\* Into the pipeline.
Enters(w) ==
    /\ Further(w)
    /\ ~HasResult(ex[w]) /\ Early(ex[w]) /\ ~Early(ex'[w])

Advances(w) ==
    /\ \/ Onward(w) /\ UNCHANGED counters
       \/ Concludes(w) /\ computed' = Count(computed) /\ UNCHANGED dispatched
       \/ Enters(w) /\ dispatched' = Count(dispatched) /\ UNCHANGED computed
    /\ UNCHANGED <<kind, broker, nextId, crashes, redeliveries>>

\* A cancellation that was seen is seen again.
LEMMA CancelStaysSeen ==
    ASSUME TypeInv, [Next]_vars, CancelSeen
    PROVE  CancelSeen'
  <1>1. ASSUME NEW u, Record(u) PROVE CancelSeen'
    BY <1>1 DEF Record, CanRecord, CancelSeen, Active, IsTerminal, TerminalStatus
  <1>2. ASSUME UNCHANGED backendVars PROVE CancelSeen'
    BY <1>2 DEF backendVars, CancelSeen
  <1>3. ASSUME UserAction PROVE CancelSeen'
    BY <1>3 DEF UserAction, RequestCancellation, Supersede, CancelSeen, Active
  <1>4. ASSUME LateArrival PROVE CancelSeen'
    BY <1>1, <1>2, <1>4 DEF LateArrival
  <1>5. ASSUME NEW w \in Workers, Deliver(w) \/ Step(w) \/ Crash(w) PROVE CancelSeen'
    <2>1. UNCHANGED backendVars \/ Record(ex[w].out)
      BY <1>5
      DEF Step, Deliver, CheckBeforeDispatch, ReadSequence, Post, PostRecorded,
          PostUnanswered, PostConflict, PostRefused, PostBroken,
          RereadAfterConflict, EmitProgress, CheckCancellation, Finish,
          FailTransiently, PublishRetry, Quarantine, Acknowledge, Crash
    <2> QED
      BY <1>1, <1>2, <2>1
  <1>6. CASE UNCHANGED vars
    BY <1>2, <1>6 DEF vars
  <1> QED
    BY <1>3, <1>4, <1>5, <1>6 DEF Next

LEMMA WarnedStaySpared ==
    ASSUME TypeInv, WarnedAreSpared, [Next]_vars, NEW w \in Workers, Further(w),
           UNCHANGED kind
    PROVE  WarnedAreSpared'
  <1> SUFFICES ASSUME NEW v \in Workers, Warned(ex[v])' PROVE (CancelSeen /\ Spared(ex[v]))'
    BY DEF WarnedAreSpared
  <1>1. Warned(ex'[v])
    BY DEF Warned
  <1>2. CASE v # w
    <2>1. ex'[v] = ex[v]
      BY <1>2 DEF Further
    <2>2. CancelSeen /\ Spared(ex[v])
      BY <1>1, <2>1 DEF WarnedAreSpared
    <2> QED
      BY <2>1, <2>2, CancelStaysSeen DEF Spared
  <1>3. CASE v = w
    <2>1. Warned(ex[w])
      BY <1>1, <1>3 DEF Warned, Further
    <2>2. CancelSeen /\ Spared(ex[w])
      BY <2>1 DEF WarnedAreSpared
    <2>3. Spared(ex'[w])
      BY <1>1, <1>3, <2>2 DEF Further
    <2> QED
      BY <1>3, <2>2, <2>3, CancelStaysSeen DEF Spared
  <1> QED
    BY <1>2, <1>3

LEMMA MessagesStaySound ==
    ASSUME TypeInv, MessagesSound, NEW w \in Workers, Further(w),
           UNCHANGED <<broker, nextId>>
    PROVE  /\ MessagesSound'
           /\ \A m \in broker : Held(m)'
  <1>1. \A v \in Workers : Busy(v)' <=> Busy(v)
    BY DEF Further, Busy, InHand
  <1>2. \A v \in Workers : ex'[v].held = ex[v].held
    BY DEF Further
  <1>3. \A v \in Workers : ex[v].pc = "ack" => ex'[v].pc = "ack"
    BY DEF Further, InHand
  <1>4. MessagesSound'
    BY <1>1, <1>2, <1>3 DEF MessagesSound
  <1>5. \A m \in broker : Held(m)
    BY Sole DEF Further
  <1> QED
    BY <1>1, <1>2, <1>4, <1>5 DEF Held

LEMMA AdvancesSound ==
    ASSUME OutcomeInv, TypeInv', [Next]_vars, NEW w \in Workers, Advances(w)
    PROVE  OutcomeInv'
  <1>1. Further(w) /\ UNCHANGED <<kind, broker, nextId, crashes, redeliveries>>
    BY DEF Advances, Onward, Concludes, Enters
  <1>2. ExecutionsClear'
    BY <1>1 DEF OutcomeInv, ExecutionsClear, Further, Clear
  <1>3. WarnedAreSpared'
    BY <1>1, WarnedStaySpared DEF OutcomeInv
  <1>4. CalmInv'
    <2> SUFFICES ASSUME Calm PROVE (MessagesSound /\ ResultsSound /\ RunsCounted)'
      BY <1>1 DEF CalmInv, Calm
    <2>1. MessagesSound /\ ResultsSound /\ RunsCounted /\ TypeInv
      BY DEF OutcomeInv, CalmInv
    <2>2. MessagesSound' /\ (\A m \in broker : Held(m)')
      BY <1>1, <2>1, MessagesStaySound
    <2>3. \A v \in Workers \ {w} : ~InHand(ex[v]) /\ ~InHand(ex'[v])
      BY <1>1, <2>1, Sole DEF Further
    <2>4. InHand(ex[w]) /\ ex'[w].held = ex[w].held
      BY <1>1 DEF Further
    <2>5. /\ computed \in 0..MaxCounted /\ dispatched \in 0..MaxCounted
          /\ MaxTaskRetries \in Nat /\ ex[w].held.retries \in 0..MaxTaskRetries
      BY <2>1, DeliveryAssumption
      DEF TypeInv, TypeOK, ExecutionsSound, Execution, Message, MaxTaskRetries
    <2>6. ResultsSound'
      <3>1. \/ Onward(w) /\ computed' = computed
            \/ Concludes(w) /\ computed' = Count(computed)
            \/ Enters(w) /\ computed' = computed
        BY DEF Advances, counters
      <3>2. computed' <= 1
        BY <2>1, <2>4, <2>5, <3>1, Counting DEF ResultsSound, Concludes
      <3>3. computed' # 0 /\ InHand(ex'[w]) => HasResult(ex'[w])
        BY <2>1, <2>4, <3>1 DEF ResultsSound, Concludes, Onward, Enters, InHand
      <3>4. \A v \in Workers : computed' # 0 /\ InHand(ex'[v]) => HasResult(ex'[v])
        BY <2>3, <3>3
      <3> QED
        BY <1>1, <2>2, <3>2, <3>4 DEF ResultsSound, InHand, HasResult
    <2>7. RunsCounted'
      <3>1. \/ dispatched' = dispatched /\ (Early(ex'[w]) => Early(ex[w]))
            \/ dispatched' = dispatched /\ ~Early(ex'[w])
            \/ Early(ex[w]) /\ ~Early(ex'[w]) /\ dispatched' \in {dispatched, dispatched + 1}
        BY <2>5, Counting DEF Advances, counters, Onward, Concludes, Enters
      <3>2. /\ dispatched' <= ex[w].held.retries + 1
            /\ Early(ex'[w]) => dispatched' <= ex[w].held.retries
        BY <2>1, <2>4, <2>5, <3>1 DEF RunsCounted
      <3>3. dispatched' <= 1 + MaxTaskRetries
        BY <2>5, <3>1, <3>2
      <3>4. \A v \in Workers : InHand(ex'[v]) =>
               /\ dispatched' <= ex'[v].held.retries + 1
               /\ Early(ex'[v]) => dispatched' <= ex'[v].held.retries
        BY <2>3, <2>4, <3>2
      <3> QED
        BY <1>1, <2>2, <3>3, <3>4 DEF RunsCounted, InHand, Early, MaxTaskRetries
    <2> QED
      BY <2>2, <2>6, <2>7
  <1> QED
    BY <1>2, <1>3, <1>4 DEF OutcomeInv

-----------------------------------------------------------------------------
(* The actions of an execution.                                            *)

\* What GiveUp, Abort and Conclude leave.
LEMMA GiveUpLeaves ==
    ASSUME TypeInv, NEW w \in Workers, NEW e, GiveUp(w, e)
    PROVE  /\ \A v \in Workers \ {w} : ex'[v] = ex[v]
           /\ ex'[w].pc = "failed" /\ ex'[w].held = ex[w].held /\ ex'[w].knew = FALSE
           /\ HasResult(ex[w]) => HasResult(ex'[w])
  BY DEF TypeInv, ExecutionsSound, GiveUp, Leaving, Idle, HasResult

LEMMA GiveUpOnward ==
    ASSUME TypeInv, NEW w \in Workers, InHand(ex[w]), NEW e, GiveUp(w, e)
    PROVE  Onward(w)
  BY GiveUpLeaves DEF Onward, Further, InHand, Clear, Warned, Early

LEMMA AckOnward ==
    ASSUME TypeInv, NEW w \in Workers, InHand(ex[w]),
           ex' = [ex EXCEPT ![w] = Leaving(w, "ack")]
    PROVE  Onward(w)
  <1>1. /\ \A v \in Workers \ {w} : ex'[v] = ex[v]
        /\ ex'[w].pc = "ack" /\ ex'[w].held = ex[w].held /\ ex'[w].knew = FALSE
    BY DEF TypeInv, ExecutionsSound, Leaving, Idle
  <1> QED
    BY <1>1 DEF Onward, Further, InHand, Clear, Warned, Early

LEMMA AbortOnward ==
    ASSUME TypeInv, NEW w \in Workers, InHand(ex[w]), NEW e, Abort(w, e)
    PROVE  Onward(w)
  BY GiveUpOnward, AckOnward DEF Abort

\* An execution that has no result yet concludes; one that is spared, as cancelled.
LEMMA ConcludeConcludes ==
    ASSUME TypeInv, NEW w \in Workers, InHand(ex[w]), ~HasResult(ex[w]), NEW seq,
           NEW outcome \in TerminalStatus, Conclude(w, seq, outcome),
           Warned(ex[w]) /\ CancelSeen /\ Spared(ex[w]) => outcome = "cancelled"
    PROVE  Concludes(w) /\ computed' = Count(computed)
  <1>1. /\ \A v \in Workers \ {w} : ex'[v] = ex[v]
        /\ ex'[w].pc = "post" /\ ex'[w].held = ex[w].held /\ ex'[w].knew = ex[w].knew
        /\ ex'[w].out = [seq |-> seq + 1, status |-> outcome]
    BY DEF TypeInv, ExecutionsSound, Conclude, Leaving, Idle
  <1>2. /\ ex'[w].out.status = outcome /\ outcome # "started"
    BY <1>1 DEF TerminalStatus
  <1>3. HasResult(ex'[w]) /\ ~Early(ex'[w])
    BY <1>1, <1>2 DEF HasResult, Early, IsTerminal
  <1> QED
    BY <1>1, <1>2, <1>3 DEF Concludes, Further, InHand, Clear, Warned, Spared, Conclude

LEMMA EmptyHanded ==
    ASSUME ExecutionsClear, NEW w \in Workers, ex[w].pc \in {"check", "sequence", "run"}
    PROVE  InHand(ex[w]) /\ ~HasResult(ex[w])
  BY DEF ExecutionsClear, Clear, InHand, HasResult, IsTerminal, NoUpdate, TerminalStatus

LEMMA CheckAdvances ==
    ASSUME OutcomeInv, NEW w \in Workers, CheckBeforeDispatch(w)
    PROVE  Advances(w)
  <1>1. TypeInv /\ ex[w].pc = "check" /\ InHand(ex[w]) /\ ex[w] \in Execution
        /\ ex[w].out = NoUpdate
    BY EmptyHanded
    DEF OutcomeInv, CheckBeforeDispatch, TypeInv, ExecutionsSound, ExecutionsClear, Clear
  <1>2. ASSUME ex' = [ex EXCEPT ![w].pc = "sequence", ![w].cancelled = CancelSeen]
        PROVE  Onward(w)
    <2>1. /\ \A v \in Workers \ {w} : ex'[v] = ex[v]
          /\ ex'[w].pc = "sequence" /\ ex'[w].cancelled = CancelSeen
          /\ ex'[w].held = ex[w].held /\ ex'[w].out = NoUpdate /\ ex'[w].knew = ex[w].knew
      BY <1>1, <1>2 DEF TypeInv, ExecutionsSound, Execution
    <2>2. CancelSeen => ex'[w].cancelled
      BY <2>1
    <2> QED
      BY <1>1, <2>1, <2>2 DEF Onward, Further, InHand, HasResult, Clear, Spared, Early
  <1>3. Onward(w)
    BY <1>1, <1>2, AbortOnward DEF CheckBeforeDispatch
  <1> QED
    BY <1>3 DEF Advances, CheckBeforeDispatch, queueVars, envVars

LEMMA ReadSequenceAdvances ==
    ASSUME OutcomeInv, NEW w \in Workers, ReadSequence(w)
    PROVE  Advances(w)
  <1>1. TypeInv /\ ex[w].pc = "sequence" /\ InHand(ex[w]) /\ ~HasResult(ex[w])
        /\ ex[w] \in Execution
    BY EmptyHanded DEF OutcomeInv, ReadSequence, TypeInv, ExecutionsSound
  <1>2. ASSUME kind = "invalid", Conclude(w, lastSeq, "failed")
        PROVE  Concludes(w) /\ computed' = Count(computed)
    BY <1>1, <1>2, ConcludeConcludes DEF Warned, TerminalStatus
  <1>3. ASSUME Conclude(w, lastSeq, "cancelled")
        PROVE  Concludes(w) /\ computed' = Count(computed)
    BY <1>1, <1>3, ConcludeConcludes DEF TerminalStatus
  <1>4. ASSUME ~ex[w].cancelled, PostNext(w, lastSeq, "started")
        PROVE  Onward(w)
    <2>1. /\ \A v \in Workers \ {w} : ex'[v] = ex[v]
          /\ ex'[w].pc = "post" /\ ex'[w].held = ex[w].held /\ ex'[w].knew = ex[w].knew
      BY <1>1, <1>4 DEF PostNext, TypeInv, ExecutionsSound, Execution
    <2>2. ~Spared(ex[w])
      BY <1>1, <1>4 DEF Spared
    <2> QED
      BY <1>1, <2>1, <2>2 DEF Onward, Further, InHand, Clear, Early
  <1>5. ASSUME NEW e \in GetFailure, Abort(w, e) PROVE Onward(w)
    BY <1>1, <1>5, AbortOnward
  <1>6. \/ Onward(w) /\ UNCHANGED computed
        \/ Concludes(w) /\ computed' = Count(computed)
    BY <1>2, <1>3, <1>4, <1>5 DEF ReadSequence
  <1> QED
    BY <1>6 DEF Advances, ReadSequence, queueVars, envVars, counters

LEMMA RaiseOnward ==
    ASSUME TypeInv, NEW w \in Workers, ex[w].pc = "post", NEW e, Raise(w, e)
    PROVE  Onward(w)
  <1>1. InHand(ex[w])
    BY DEF InHand
  <1>2. CASE ex[w].out.status = "progress"
    <2>1. /\ \A v \in Workers \ {w} : ex'[v] = ex[v]
          /\ ex'[w].pc = "run" /\ ex'[w].held = ex[w].held /\ ex'[w].knew = ex[w].knew
          /\ ex'[w].out = NoUpdate
      BY <1>2 DEF Raise, TypeInv, ExecutionsSound, Execution
    <2>2. ~HasResult(ex[w]) /\ ~Spared(ex[w])
      BY <1>2 DEF HasResult, IsTerminal, TerminalStatus, Spared
    <2> QED
      BY <1>1, <2>1, <2>2 DEF Onward, Further, InHand, Clear, Early
  <1>3. CASE ex[w].out.status # "progress"
    BY <1>1, <1>3, AbortOnward DEF Raise
  <1> QED
    BY <1>2, <1>3

\* The same update is posted again, or what became of it read.
LEMMA SameUpdateOnward ==
    ASSUME TypeInv, NEW w \in Workers, ex[w].pc \in {"post", "reread"},
           \A v \in Workers \ {w} : ex'[v] = ex[v],
           ex'[w].pc \in {"post", "reread"}, ex[w].pc = "reread" => HasResult(ex[w]),
           ex'[w].held = ex[w].held, ex'[w].out = ex[w].out, ex'[w].knew = ex[w].knew
    PROVE  Onward(w)
  <1>1. HasResult(ex[w]) => ex[w].out.status # "started"
    BY DEF HasResult, IsTerminal, TerminalStatus
  <1> QED
    BY <1>1 DEF Onward, Further, InHand, HasResult, Clear, Spared, Early

LEMMA TryAgainOnward ==
    ASSUME TypeInv, NEW w \in Workers, ex[w].pc = "post", TryAgain(w)
    PROVE  Onward(w)
  <1>1. CASE ex[w].attempt + 1 < MaxPostAttempts
    <2>1. /\ \A v \in Workers \ {w} : ex'[v] = ex[v]
          /\ ex'[w].pc = "post" /\ ex'[w].held = ex[w].held
          /\ ex'[w].out = ex[w].out /\ ex'[w].knew = ex[w].knew
      BY <1>1 DEF TryAgain, TypeInv, ExecutionsSound, Execution
    <2> QED
      BY <2>1, SameUpdateOnward
  <1>2. CASE ~(ex[w].attempt + 1 < MaxPostAttempts)
    BY <1>2, RaiseOnward DEF TryAgain
  <1> QED
    BY <1>1, <1>2

\* STARTED is delivered, and the pipeline runs; or a result, and nothing is left.
LEMMA DeliveredAdvances ==
    ASSUME TypeInv, NEW w \in Workers, ex[w].pc = "post", NEW seq, Delivered(w, seq)
    PROVE  \/ Onward(w) /\ UNCHANGED dispatched
           \/ Enters(w) /\ dispatched' = Count(dispatched)
  <1>1. InHand(ex[w])
    BY DEF InHand
  <1>2. CASE IsTerminal(ex[w].out)
    <2>1. ex[w].out.status # "started"
      BY <1>2 DEF IsTerminal, TerminalStatus
    <2> QED
      BY <1>1, <1>2, <2>1, AckOnward DEF Delivered
  <1>3. CASE ~IsTerminal(ex[w].out)
    <2>1. /\ \A v \in Workers \ {w} : ex'[v] = ex[v]
          /\ ex'[w].pc = "run" /\ ex'[w].held = ex[w].held /\ ex'[w].knew = ex[w].knew
          /\ ex'[w].out = NoUpdate
      BY <1>3 DEF Delivered, TypeInv, ExecutionsSound, Execution
    <2>2. ~HasResult(ex[w]) /\ ~Spared(ex[w])
      BY <1>3 DEF HasResult, IsTerminal, TerminalStatus, Spared
    <2>3. Onward(w)
      BY <1>1, <2>1, <2>2 DEF Onward, Further, InHand, Clear, Early
    <2>4. ex[w].out.status = "started" => Enters(w)
      BY <2>1, <2>2, <2>3 DEF Onward, Enters, Early
    <2> QED
      BY <2>3, <2>4 DEF Delivered
  <1> QED
    BY <1>2, <1>3

LEMMA PostAdvances ==
    ASSUME OutcomeInv, NEW w \in Workers, Post(w)
    PROVE  Advances(w)
  <1>1. TypeInv /\ ex[w].pc = "post"
    BY DEF OutcomeInv, Post
  <1>2. ASSUME PostConflict(w) PROVE Onward(w) /\ UNCHANGED dispatched
    <2>1. CASE IsTerminal(ex[w].out)
      <3>1. /\ \A v \in Workers \ {w} : ex'[v] = ex[v]
            /\ ex'[w].pc = "reread" /\ ex'[w].held = ex[w].held
            /\ ex'[w].out = ex[w].out /\ ex'[w].knew = ex[w].knew
        BY <1>1, <1>2, <2>1 DEF PostConflict, TypeInv, ExecutionsSound, Execution
      <3> QED
        BY <1>1, <1>2, <2>1, <3>1, SameUpdateOnward DEF PostConflict
    <2>2. CASE ~IsTerminal(ex[w].out)
      BY <1>1, <1>2, <2>2, RaiseOnward DEF PostConflict, Raise
    <2> QED
      BY <2>1, <2>2
  <1>3. ASSUME PostUnanswered(w) PROVE Onward(w) /\ UNCHANGED dispatched
    BY <1>1, <1>3, TryAgainOnward DEF PostUnanswered, TryAgain, Raise
  <1>4. ASSUME PostRefused(w) \/ PostBroken(w) PROVE Onward(w) /\ UNCHANGED dispatched
    BY <1>1, <1>4, RaiseOnward DEF PostRefused, PostBroken, Raise
  <1>5. ASSUME PostRecorded(w)
        PROVE  \/ Onward(w) /\ UNCHANGED dispatched
               \/ Enters(w) /\ dispatched' = Count(dispatched)
    BY <1>1, <1>5, DeliveredAdvances DEF PostRecorded
  <1>6. \/ Onward(w) /\ UNCHANGED dispatched
        \/ Enters(w) /\ dispatched' = Count(dispatched)
    BY <1>2, <1>3, <1>4, <1>5 DEF Post
  <1> QED
    BY <1>6 DEF Advances, Post, queueVars, counters

LEMMA RereadAdvances ==
    ASSUME OutcomeInv, NEW w \in Workers, RereadAfterConflict(w)
    PROVE  Advances(w)
  <1>1. TypeInv /\ ex[w].pc = "reread" /\ InHand(ex[w]) /\ HasResult(ex[w])
    BY DEF OutcomeInv, RereadAfterConflict, InHand, HasResult, IsTerminal, TypeInv,
           ExecutionsSound, Sound, Result
  <1>2. ASSUME ex' = [ex EXCEPT ![w].pc = "post", ![w].attempt = @ + 1] PROVE Onward(w)
    <2>1. /\ \A v \in Workers \ {w} : ex'[v] = ex[v]
          /\ ex'[w].pc = "post" /\ ex'[w].held = ex[w].held
          /\ ex'[w].out = ex[w].out /\ ex'[w].knew = ex[w].knew
      BY <1>1, <1>2 DEF TypeInv, ExecutionsSound, Execution
    <2> QED
      BY <1>1, <2>1, SameUpdateOnward
  <1>3. Onward(w)
    BY <1>1, <1>2, AckOnward, GiveUpOnward, AbortOnward DEF RereadAfterConflict
  <1> QED
    BY <1>3 DEF Advances, RereadAfterConflict, queueVars, envVars

LEMMA EmitAdvances ==
    ASSUME OutcomeInv, NEW w \in Workers, EmitProgress(w)
    PROVE  Advances(w)
  <1>1. TypeInv /\ ex[w].pc = "run" /\ InHand(ex[w]) /\ ~HasResult(ex[w])
        /\ ~Spared(ex[w])
    BY EmptyHanded DEF OutcomeInv, EmitProgress, Spared
  <1>2. /\ \A v \in Workers \ {w} : ex'[v] = ex[v]
        /\ ex'[w].pc = "post" /\ ex'[w].held = ex[w].held /\ ex'[w].knew = ex[w].knew
        /\ ex'[w].out.status = "progress"
    BY <1>1 DEF EmitProgress, TypeInv, ExecutionsSound, Execution
  <1>3. Onward(w)
    BY <1>1, <1>2 DEF Onward, Further, InHand, Clear, Early
  <1> QED
    BY <1>3 DEF Advances, EmitProgress, queueVars, envVars

LEMMA PipelineAdvances ==
    ASSUME OutcomeInv, NEW w \in Workers,
           CheckCancellation(w) \/ Finish(w) \/ FailTransiently(w)
    PROVE  Advances(w)
  <1>1. TypeInv /\ ex[w].pc = "run" /\ InHand(ex[w]) /\ ~HasResult(ex[w])
        /\ ~Spared(ex[w])
    BY EmptyHanded DEF OutcomeInv, CheckCancellation, Finish, FailTransiently, Spared
  <1>2. ASSUME NEW outcome \in TerminalStatus, Conclude(w, ex[w].seq, outcome)
        PROVE  Concludes(w) /\ computed' = Count(computed)
    BY <1>1, <1>2, ConcludeConcludes
  <1>3. ASSUME NEW e, GiveUp(w, e) PROVE Onward(w)
    BY <1>1, <1>3, GiveUpOnward
  <1>4. \/ Onward(w) /\ UNCHANGED computed
        \/ Concludes(w) /\ computed' = Count(computed)
    BY <1>2, <1>3 DEF CheckCancellation, Finish, FailTransiently, TerminalStatus
  <1> QED
    BY <1>4 DEF Advances, CheckCancellation, Finish, FailTransiently, queueVars, envVars,
                counters

LEMMA QuarantineAdvances ==
    ASSUME OutcomeInv, NEW w \in Workers, Quarantine(w)
    PROVE  Advances(w)
  <1>1. Onward(w)
    BY AckOnward DEF OutcomeInv, Quarantine, InHand
  <1> QED
    BY <1>1 DEF Advances, Quarantine, queueVars, envVars

-----------------------------------------------------------------------------
(* Messages come and go.                                                   *)

LEMMA DeliverOutcome ==
    ASSUME OutcomeInv, TypeInv', [Next]_vars, NEW w \in Workers, Deliver(w)
    PROVE  OutcomeInv'
  <1>1. PICK m \in broker :
          /\ (\E v \in Workers : Busy(v) /\ ex[v].held = m)
                => redeliveries' = redeliveries + 1
          /\ ex' = [ex EXCEPT ![w] =
                   [Idle EXCEPT
                       !.held = m,
                       !.knew = CancelSeen,
                       !.pc = IF Carried(m.upd) THEN "post" ELSE FirstCall,
                       !.out = m.upd,
                       !.err = IF ~Carried(m.upd) /\ kind = "unidentified"
                               THEN "malformed" ELSE "none"]]
    BY DEF Deliver
  <1>2. /\ ~Busy(w) /\ TypeInv /\ m \in Message
        /\ UNCHANGED <<backendVars, kind, broker, nextId, counters, crashes>>
        /\ redeliveries' \in {redeliveries, redeliveries + 1}
    BY DEF Deliver, OutcomeInv, TypeInv, TypeOK, queueVars
  <1>3. /\ \A v \in Workers \ {w} : ex'[v] = ex[v]
        /\ ex'[w].held = m /\ ex'[w].knew = CancelSeen /\ ex'[w].out = m.upd
        /\ ex'[w].pc = IF Carried(m.upd) THEN "post" ELSE FirstCall
    BY <1>1, <1>2 DEF Idle, TypeInv, ExecutionsSound
  <1>4. /\ m.upd \in Result \cup {NoUpdate} /\ m.retries \in 0..MaxTaskRetries
        /\ FirstCall \in {"check", "sequence", "failed"}
        /\ kind = "analysis" => FirstCall = "check"
    BY <1>2 DEF Message, FirstCall
  <1>5. Clear(ex'[w]) /\ InHand(ex'[w])
    BY <1>3, <1>4 DEF Clear, InHand, Carried
  <1>6. Carried(m.upd) => HasResult(ex'[w]) /\ ~Early(ex'[w])
    BY <1>3, <1>4 DEF Carried, HasResult, IsTerminal, Result, Early, TerminalStatus
  <1>7. Warned(ex'[w]) => CancelSeen /\ Spared(ex'[w])
    BY <1>3, <1>4 DEF Warned, Spared
  <1>8. ExecutionsClear'
    BY <1>3, <1>5 DEF OutcomeInv, ExecutionsClear, Clear
  <1>9. WarnedAreSpared'
    BY <1>2, <1>3, <1>7
    DEF OutcomeInv, WarnedAreSpared, Warned, Spared, CancelSeen, backendVars
  <1>10. CalmInv'
    <2> SUFFICES ASSUME Calm' PROVE (MessagesSound /\ ResultsSound /\ RunsCounted)'
      BY DEF CalmInv
    <2>1. Calm /\ redeliveries' = redeliveries
      BY <1>2 DEF Calm, TypeInv, TypeOK
    <2>2. MessagesSound /\ ResultsSound /\ RunsCounted
      BY <2>1 DEF OutcomeInv, CalmInv
    <2>3. \A v \in Workers : Busy(v) => ex[v].held # m
      BY <1>1, <2>1 DEF TypeInv, TypeOK, Calm
    <2>4. /\ \A v \in Workers \ {w} : (Busy(v)' <=> Busy(v)) /\ ex'[v].held = ex[v].held
          /\ Busy(w)' /\ ~Busy(w)
      BY <1>2, <1>3, <1>5 DEF Busy, InHand
    <2>5. MessagesSound'
      <3>1. \A v \in Workers : ex[v].pc = "ack" => v # w /\ ex'[v] = ex[v]
        BY <1>2, <1>3 DEF Busy
      <3>2. \A v \in Workers : Busy(v)' => ex'[v].held \in broker
        BY <1>3, <2>2, <2>4 DEF MessagesSound
      <3>3. \A u, v \in Workers : Busy(u)' /\ Busy(v)' /\ ex'[u].held = ex'[v].held => u = v
        BY <1>3, <2>2, <2>3, <2>4 DEF MessagesSound
      <3> QED
        BY <1>2, <2>2, <3>1, <3>2, <3>3 DEF MessagesSound
    <2>6. \A n \in broker : n # m /\ Held(n) => Held(n)'
      BY <1>3, <2>4 DEF Held
    <2>7. Held(m)'
      BY <1>3, <2>4 DEF Held
    <2>8. ~Held(m)
      BY <2>3 DEF Held
    <2>9. ResultsSound'
      <3>1. computed' = computed /\ (computed # 0 => Carried(m.upd))
        BY <1>2, <2>2, <2>8 DEF ResultsSound, counters
      <3>2. \A v \in Workers : computed # 0 /\ InHand(ex'[v]) => HasResult(ex'[v])
        BY <1>3, <1>6, <2>2, <3>1 DEF ResultsSound
      <3>3. \A n \in broker : computed # 0 => Held(n)' \/ Carried(n.upd)
        BY <2>2, <2>6, <2>7 DEF ResultsSound
      <3> QED
        BY <1>2, <2>2, <3>1, <3>2, <3>3 DEF ResultsSound, InHand, HasResult
    <2>10. RunsCounted'
      <3>1. dispatched' = dispatched /\ dispatched <= m.retries /\ dispatched \in Nat
            /\ m.retries \in Nat
        BY <1>2, <1>4, <2>2, <2>8, DeliveryAssumption
        DEF RunsCounted, counters, TypeInv, TypeOK, MaxTaskRetries
      <3>2. \A v \in Workers : InHand(ex'[v]) =>
               /\ dispatched <= ex'[v].held.retries + 1
               /\ Early(ex'[v]) => dispatched <= ex'[v].held.retries
        BY <1>3, <2>2, <3>1 DEF RunsCounted
      <3>3. \A n \in broker : Held(n)' \/ dispatched <= n.retries
        BY <2>2, <2>6, <2>7 DEF RunsCounted
      <3> QED
        BY <1>2, <2>2, <3>1, <3>2, <3>3 DEF RunsCounted, InHand, Early, MaxTaskRetries
    <2> QED
      BY <2>5, <2>9, <2>10
  <1> QED
    BY <1>8, <1>9, <1>10 DEF OutcomeInv

\* The retry is the new latest message, and the execution that was going on is over.
LEMMA PublishOutcome ==
    ASSUME OutcomeInv, TypeInv', [Next]_vars, NEW w \in Workers, PublishRetry(w)
    PROVE  OutcomeInv'
  <1> DEFINE m == [id |-> nextId, retries |-> ex[w].held.retries + 1, upd |-> ex[w].out]
  <1>1. /\ ex[w].pc = "failed" /\ ex' = [ex EXCEPT ![w] = Leaving(w, "ack")]
        /\ broker' = broker \cup {m} /\ nextId' = nextId + 1
        /\ UNCHANGED <<backendVars, kind, counters, crashes, redeliveries>>
        /\ TypeInv /\ InHand(ex[w])
    BY DEF PublishRetry, envVars, OutcomeInv, InHand
  <1>2. m.id = nextId /\ m.retries = ex[w].held.retries + 1 /\ m.upd = ex[w].out
    OBVIOUS
  <1> HIDE DEF m
  <1>3. /\ \A v \in Workers \ {w} : ex'[v] = ex[v]
        /\ ex'[w].pc = "ack" /\ ex'[w].held = ex[w].held /\ ex'[w].knew = FALSE
    BY <1>1 DEF TypeInv, ExecutionsSound, Leaving, Idle
  <1>4. ExecutionsClear'
    BY <1>3 DEF OutcomeInv, ExecutionsClear, Clear
  <1>5. WarnedAreSpared'
    BY <1>1, <1>3 DEF OutcomeInv, WarnedAreSpared, Warned, Spared, CancelSeen, backendVars
  <1>6. CalmInv'
    <2> SUFFICES ASSUME Calm PROVE (MessagesSound /\ ResultsSound /\ RunsCounted)'
      BY <1>1 DEF CalmInv, Calm
    <2>1. MessagesSound /\ ResultsSound /\ RunsCounted
      BY DEF OutcomeInv, CalmInv
    <2>2. /\ \A v \in Workers \ {w} : ~InHand(ex[v])
          /\ \A n \in broker : Held(n)
      BY <1>1, <2>1, Sole
    <2>3. \A v \in Workers : (Busy(v)' <=> Busy(v)) /\ ex'[v].held = ex[v].held
                              /\ ~InHand(ex'[v])
      BY <1>1, <1>3, <2>2 DEF Busy, InHand
    <2>4. \A n \in broker : Held(n)'
      BY <2>2, <2>3 DEF Held
    <2>5. nextId \in Nat /\ (\A n \in broker : n.id \in Nat) /\ m \notin broker
      BY <1>1, <1>2, <2>1 DEF TypeInv, TypeOK, Message, MessagesSound
    <2>6. MessagesSound'
      <3>1. \A n \in broker : \E v \in Workers : ex'[v].pc = "ack" /\ ex'[v].held = n
        BY <2>2, <2>3 DEF Held, Busy, InHand
      <3>2. \A n \in broker' : n.id < nextId' /\ (n = m \/ n.id < nextId)
        BY <1>1, <1>2, <2>1, <2>5 DEF MessagesSound
      <3>3. \A n, o \in broker' : n.id = o.id => n = o
        BY <1>1, <1>2, <2>1, <2>5 DEF MessagesSound
      <3>4. \A v \in Workers : Busy(v)' => ex'[v].held \in broker'
        BY <1>1, <2>1, <2>3 DEF MessagesSound
      <3>5. \A u, v \in Workers : Busy(u)' /\ Busy(v)' /\ ex'[u].held = ex'[v].held => u = v
        BY <2>1, <2>3 DEF MessagesSound
      <3>6. \A n \in broker' : n.id = nextId' - 1
                                 \/ \E v \in Workers : ex'[v].pc = "ack" /\ ex'[v].held = n
        BY <1>1, <1>2, <2>5, <3>1
      <3> QED
        BY <3>2, <3>3, <3>4, <3>5, <3>6 DEF MessagesSound
    <2>7. ResultsSound'
      <3>1. computed # 0 => Carried(m.upd)
        BY <1>1, <1>2, <2>1
        DEF ResultsSound, HasResult, IsTerminal, Carried, NoUpdate, TerminalStatus
      <3> QED
        BY <1>1, <2>1, <2>3, <2>4, <3>1 DEF ResultsSound, counters, InHand
    <2>8. RunsCounted'
      <3>1. dispatched <= m.retries
        BY <1>1, <1>2, <2>1 DEF RunsCounted
      <3> QED
        BY <1>1, <2>1, <2>3, <2>4, <3>1 DEF RunsCounted, counters, InHand, MaxTaskRetries
    <2> QED
      BY <2>6, <2>7, <2>8
  <1> QED
    BY <1>4, <1>5, <1>6 DEF OutcomeInv

LEMMA AcknowledgeOutcome ==
    ASSUME OutcomeInv, TypeInv', [Next]_vars, NEW w \in Workers, Acknowledge(w)
    PROVE  OutcomeInv'
  <1>1. /\ ex[w].pc = "ack" /\ ex' = [ex EXCEPT ![w] = Idle]
        /\ broker' = broker \ {ex[w].held}
        /\ UNCHANGED <<backendVars, kind, nextId, counters, crashes, redeliveries>>
        /\ TypeInv
    BY DEF Acknowledge, envVars, OutcomeInv
  <1>2. /\ \A v \in Workers \ {w} : ex'[v] = ex[v]
        /\ ex'[w].pc = "idle" /\ ex'[w].knew = FALSE
    BY <1>1 DEF TypeInv, ExecutionsSound, Idle
  <1>3. ExecutionsClear'
    BY <1>2 DEF OutcomeInv, ExecutionsClear, Clear
  <1>4. WarnedAreSpared'
    BY <1>1, <1>2 DEF OutcomeInv, WarnedAreSpared, Warned, Spared, CancelSeen, backendVars
  <1>5. CalmInv'
    <2> SUFFICES ASSUME Calm PROVE (MessagesSound /\ ResultsSound /\ RunsCounted)'
      BY <1>1 DEF CalmInv, Calm
    <2>1. MessagesSound /\ ResultsSound /\ RunsCounted
      BY DEF OutcomeInv, CalmInv
    <2>2. /\ Busy(w) /\ ~Busy(w)' /\ ~InHand(ex'[w])
          /\ \A v \in Workers \ {w} : (Busy(v)' <=> Busy(v)) /\ ex'[v] = ex[v]
      BY <1>1, <1>2 DEF Busy, InHand
    <2>3. \A v \in Workers \ {w} : Busy(v) => ex[v].held # ex[w].held
      BY <2>1, <2>2 DEF MessagesSound
    <2>4. \A n \in broker' : n \in broker /\ (Held(n) => Held(n)')
      BY <1>1, <2>2 DEF Held
    <2>5. MessagesSound'
      <3>1. \A n \in broker' : n.id = nextId - 1
                                 \/ \E v \in Workers : ex'[v].pc = "ack" /\ ex'[v].held = n
        BY <1>1, <1>2, <2>1 DEF MessagesSound
      <3>2. \A v \in Workers : Busy(v)' => ex'[v].held \in broker'
        BY <1>1, <2>1, <2>2, <2>3 DEF MessagesSound
      <3>3. \A u, v \in Workers : Busy(u)' /\ Busy(v)' /\ ex'[u].held = ex'[v].held => u = v
        BY <2>1, <2>2 DEF MessagesSound
      <3> QED
        BY <1>1, <2>1, <2>4, <3>1, <3>2, <3>3 DEF MessagesSound
    <2>6. ResultsSound'
      BY <1>1, <2>1, <2>2, <2>4 DEF ResultsSound, counters, InHand, HasResult
    <2>7. RunsCounted'
      BY <1>1, <2>1, <2>2, <2>4 DEF RunsCounted, counters, InHand, Early, MaxTaskRetries
    <2> QED
      BY <2>5, <2>6, <2>7
  <1> QED
    BY <1>3, <1>4, <1>5 DEF OutcomeInv

LEMMA CrashOutcome ==
    ASSUME OutcomeInv, TypeInv', [Next]_vars, NEW w \in Workers, Crash(w)
    PROVE  OutcomeInv'
  <1>1. /\ ex' = [ex EXCEPT ![w] = Idle] /\ crashes' = crashes + 1
        /\ UNCHANGED <<backendVars, kind>> /\ TypeInv
    BY DEF Crash, queueVars, OutcomeInv
  <1>2. /\ \A v \in Workers \ {w} : ex'[v] = ex[v]
        /\ ex'[w].pc = "idle" /\ ex'[w].knew = FALSE
    BY <1>1 DEF TypeInv, ExecutionsSound, Idle
  <1>3. ExecutionsClear'
    BY <1>2 DEF OutcomeInv, ExecutionsClear, Clear
  <1>4. WarnedAreSpared'
    BY <1>1, <1>2 DEF OutcomeInv, WarnedAreSpared, Warned, Spared, CancelSeen, backendVars
  <1>5. ~Calm'
    BY <1>1 DEF Calm, TypeInv, TypeOK
  <1> QED
    BY <1>3, <1>4, <1>5 DEF OutcomeInv, CalmInv

\* What happens outside the workers.
LEMMA EnvironmentOutcome ==
    ASSUME OutcomeInv, TypeInv', [Next]_vars,
           UNCHANGED <<queueVars, ex, counters, crashes, redeliveries>>
    PROVE  OutcomeInv'
  <1>1. ExecutionsClear'
    BY DEF OutcomeInv, ExecutionsClear, Clear
  <1>2. WarnedAreSpared'
    BY CancelStaysSeen DEF OutcomeInv, WarnedAreSpared, Warned, Spared, queueVars
  <1>3. CalmInv'
    BY DEF OutcomeInv, CalmInv, Calm, MessagesSound, ResultsSound, RunsCounted, Held, Busy,
           InHand, Early, HasResult, queueVars, counters
  <1> QED
    BY <1>1, <1>2, <1>3 DEF OutcomeInv

-----------------------------------------------------------------------------
(* The invariant holds of every behaviour.                                 *)

LEMMA OutcomeInit == Init => OutcomeInv
  <1> SUFFICES ASSUME Init PROVE OutcomeInv
    OBVIOUS
  <1>1. TypeInv
    BY TypeInit
  <1>2. \A w \in Workers : ex[w].pc = "idle" /\ ex[w].knew = FALSE
    BY DEF Init, Idle
  <1>3. /\ nextId = 2 /\ computed = 0 /\ dispatched = 0
        /\ \A m \in broker : m.id = 1 /\ m.retries = 0
        /\ \A m, n \in broker : m = n
    BY DEF Init
  <1>4. MessagesSound
    BY <1>2, <1>3 DEF MessagesSound, Busy
  <1>5. ResultsSound /\ RunsCounted
    BY <1>2, <1>3, DeliveryAssumption
    DEF ResultsSound, RunsCounted, InHand, MaxTaskRetries
  <1> QED
    BY <1>1, <1>2, <1>4, <1>5
    DEF OutcomeInv, ExecutionsClear, Clear, WarnedAreSpared, Warned, CalmInv

LEMMA OutcomeStep == OutcomeInv /\ [Next]_vars => OutcomeInv'
  <1> SUFFICES ASSUME OutcomeInv, [Next]_vars PROVE OutcomeInv'
    OBVIOUS
  <1>1. TypeInv'
    BY TypeStep DEF OutcomeInv
  <1>2. ASSUME NEW w \in Workers, Step(w) PROVE OutcomeInv'
    <2>1. Advances(w) \/ PublishRetry(w) \/ Acknowledge(w)
      BY <1>2, CheckAdvances, ReadSequenceAdvances, PostAdvances, RereadAdvances,
         EmitAdvances, PipelineAdvances, QuarantineAdvances DEF Step
    <2> QED
      BY <1>1, <2>1, AdvancesSound, PublishOutcome, AcknowledgeOutcome
  <1>3. ASSUME NEW w \in Workers, Deliver(w) \/ Crash(w) PROVE OutcomeInv'
    BY <1>1, <1>3, DeliverOutcome, CrashOutcome
  <1>4. ASSUME LateArrival \/ UserAction PROVE OutcomeInv'
    BY <1>1, <1>4, EnvironmentOutcome DEF LateArrival, UserAction, envVars
  <1>5. CASE UNCHANGED vars
    BY <1>1, <1>5, EnvironmentOutcome DEF vars, envVars
  <1> QED
    BY <1>2, <1>3, <1>4, <1>5 DEF Next

LEMMA OutcomeInvariance == Spec => []OutcomeInv
  BY OutcomeInit, OutcomeStep, PTL DEF Spec

\* While no worker dies and no message is handed out twice, retries of the terminal
\* callback resend the result and never compute another (_async_process_job_task).
THEOREM OneResultOnly == Spec => []OneResult
  <1>1. OutcomeInv => OneResult
    BY DEF OutcomeInv, CalmInv, Calm, ResultsSound, OneResult
  <1> QED
    BY <1>1, OutcomeInvariance, PTL

\* Under the same condition the pipeline is run at most 1 + MAX_TASK_RETRIES times, for
\* one counter limits the retries whatever their reasons (retry_or_quarantine).
THEOREM RunsStayBounded == Spec => []RunsAreBounded
  <1>1. OutcomeInv => RunsAreBounded
    BY DEF OutcomeInv, CalmInv, Calm, RunsCounted, RunsAreBounded
  <1> QED
    BY <1>1, OutcomeInvariance, PTL

\* A job that was cancelled before a worker took its message is not run for it, and is
\* reported as nothing but cancelled, with any faults and any number of workers.
THEOREM CancelledIsNotRun == Spec => []CancelledBeforeTaken
  <1>1. OutcomeInv => CancelledBeforeTaken
    <2> SUFFICES ASSUME OutcomeInv, NEW w \in Workers, Warned(ex[w])
                 PROVE  ex[w].pc # "run" /\ ex[w].out.status \in {"none", "cancelled"}
      BY DEF CancelledBeforeTaken, Warned
    <2>1. Spared(ex[w]) /\ Clear(ex[w])
      BY DEF OutcomeInv, WarnedAreSpared, ExecutionsClear
    <2> QED
      BY <2>1 DEF Spared, Clear, NoUpdate
  <1> QED
    BY <1>1, OutcomeInvariance, PTL
=============================================================================
