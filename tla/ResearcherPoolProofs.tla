------------------------ MODULE ResearcherPoolProofs ------------------------
(***************************************************************************)
(* Proofs about ResearcherPool for every set of submissions and workers,   *)
(* every assignment of task IDs and every queue size.                      *)
(***************************************************************************)
EXTENDS ResearcherPool, TLAPS, FiniteSetTheorems, SequenceTheorems

-----------------------------------------------------------------------------
(* The inductive invariant.                                                *)

\* A worker has a submission in exactly the places that use one, and so has the
\* forwarder.
InHand    == \A w \in Worker : wpc[w] \in HoldsTask <=> wjob[w] # NoSub
InTransit == fpc \in {"tracking", "completing", "forwarding"} <=> fjob # NoSub

\* Before Start there are no goroutines; Start makes new ones and needs no old ones gone.
NotYetStarted ==
    ~running /\ stop = "idle" => fpc = "unborn" /\ \A w \in Worker : wpc[w] = "unborn"

Shape == TypeOK /\ InHand /\ InTransit /\ NotYetStarted

\* An accepted submission waits in the queue once or is with one worker.  Only a worker
\* whose result was discarded reports on a submission that is not accepted any more.
QueueIsAccepted ==
    /\ \A i \in 1..Len(taskQueue) : sub[taskQueue[i]] = "accepted"
    /\ \A i, k \in 1..Len(taskQueue) : taskQueue[i] = taskQueue[k] => i = k

HeldIsAccepted ==
    \A w \in Worker : wjob[w] # NoSub =>
        /\ sub[wjob[w]] = "accepted" \/ (wpc[w] = "failing" /\ sub[wjob[w]] = "discarded")
        /\ \A i \in 1..Len(taskQueue) : taskQueue[i] # wjob[w]
        /\ \A v \in Worker : wjob[v] = wjob[w] => v = w

OnePlace == QueueIsAccepted /\ HeldIsAccepted

\* Stop closes the consumers' channels after its wait, which a Stop that has not given
\* up passes only with all goroutines gone.
StopOrder ==
    /\ "delivered" \in closed => stop \in {"closeErrors", "stopped"}
    /\ "errors" \in closed => stop = "stopped"
    /\ stop \in {"closeDelivered", "closeErrors", "stopped"} /\ ~timedOut => WaitGroupDone

-----------------------------------------------------------------------------
(* The helpers the actions are built from.                                 *)

LEMMA ConstantTypes ==
    /\ IsFiniteSet(Submission) /\ IsFiniteSet(Worker) /\ NoSub \notin Submission
    /\ QueueSize \in Nat /\ QueueSize > 0
    /\ \A s \in Submission : IdOf[s] \in TaskID
BY ResearcherPoolAssumption

LEMMA ChannelSend ==
    ASSUME NEW q \in Seq(Submission), NEW s \in Submission
    PROVE  LET r == Append(q, s) IN
           /\ r \in Seq(Submission) /\ Len(q) \in Nat /\ Len(r) = Len(q) + 1
           /\ HasRoom(q) => Len(r) <= QueueSize
           /\ r[Len(q) + 1] = s
           /\ \A i \in 1..Len(q) : r[i] = q[i]
BY AppendProperties, LenProperties, ConstantTypes DEF HasRoom

LEMMA ChannelReceive ==
    ASSUME NEW q \in Seq(Submission), q # <<>>
    PROVE  LET r == Tail(q) IN
           /\ Head(q) \in Submission /\ Head(q) = q[1]
           /\ r \in Seq(Submission) /\ Len(q) \in Nat \ {0} /\ Len(r) = Len(q) - 1
           /\ \A i \in 1..Len(r) : r[i] = q[i + 1]
<1>1. Len(q) \in Nat \ {0}
  BY LenProperties, EmptySeq
<1>. QED BY <1>1, HeadTailProperties, ElementOfSeq

LEMMA QueuedChanges ==
    ASSUME NEW m \in PoolMetrics, NEW n \in Int
    PROVE  LET r == [m EXCEPT !.tasksQueued = n] IN
           /\ r \in PoolMetrics /\ r.tasksQueued = n
           /\ r.tasksProcessing = m.tasksProcessing /\ r.tasksCompleted = m.tasksCompleted
BY DEF PoolMetrics

LEMMA ProcessingChanges ==
    ASSUME NEW m \in PoolMetrics, NEW n \in Int
    PROVE  LET r == [m EXCEPT !.tasksProcessing = n] IN
           /\ r \in PoolMetrics /\ r.tasksQueued = m.tasksQueued
           /\ r.tasksProcessing = n /\ r.tasksCompleted = m.tasksCompleted
BY DEF PoolMetrics

LEMMA CompletedChanges ==
    ASSUME NEW m \in PoolMetrics, NEW n \in Int
    PROVE  LET r == [m EXCEPT !.tasksCompleted = n] IN
           /\ r \in PoolMetrics /\ r.tasksQueued = m.tasksQueued
           /\ r.tasksProcessing = m.tasksProcessing /\ r.tasksCompleted = n
BY DEF PoolMetrics

\* What the tracker's steps do to the counters.
LEMMA TrackerCounts ==
    ASSUME metrics \in PoolMetrics
    PROVE  /\ metrics.tasksQueued \in Int /\ metrics.tasksProcessing \in Int
           /\ metrics.tasksCompleted \in Int
           /\ \A w \in Worker : RegisterTaskStart(w) =>
                 /\ metrics' \in PoolMetrics
                 /\ metrics'.tasksQueued = metrics.tasksQueued - 1
                 /\ metrics'.tasksProcessing = metrics.tasksProcessing
                 /\ metrics'.tasksCompleted = metrics.tasksCompleted
           /\ \A w \in Worker : CountProcessing(w) =>
                 /\ metrics' \in PoolMetrics /\ metrics'.tasksQueued = metrics.tasksQueued
                 /\ metrics'.tasksProcessing = metrics.tasksProcessing + 1
                 /\ metrics'.tasksCompleted = metrics.tasksCompleted
           /\ TrackTaskCompletion =>
                 /\ metrics' \in PoolMetrics /\ metrics'.tasksQueued = metrics.tasksQueued
                 /\ metrics'.tasksCompleted = metrics.tasksCompleted
                 /\ \/ /\ fpc' = "completing"
                       /\ metrics'.tasksProcessing = metrics.tasksProcessing - 1
                    \/ /\ fpc' = "forwarding"
                       /\ metrics'.tasksProcessing = metrics.tasksProcessing
           /\ CountCompleted =>
                 /\ metrics' \in PoolMetrics /\ metrics'.tasksQueued = metrics.tasksQueued
                 /\ metrics'.tasksProcessing = metrics.tasksProcessing
                 /\ metrics'.tasksCompleted = metrics.tasksCompleted + 1
<1>1. /\ metrics.tasksQueued \in Int /\ metrics.tasksProcessing \in Int
      /\ metrics.tasksCompleted \in Int
  BY DEF PoolMetrics
<1>2. ASSUME NEW w \in Worker, RegisterTaskStart(w)
      PROVE  /\ metrics' \in PoolMetrics /\ metrics'.tasksQueued = metrics.tasksQueued - 1
             /\ metrics'.tasksProcessing = metrics.tasksProcessing
             /\ metrics'.tasksCompleted = metrics.tasksCompleted
  BY <1>1, <1>2, QueuedChanges DEF RegisterTaskStart
<1>3. ASSUME NEW w \in Worker, CountProcessing(w)
      PROVE  /\ metrics' \in PoolMetrics /\ metrics'.tasksQueued = metrics.tasksQueued
             /\ metrics'.tasksProcessing = metrics.tasksProcessing + 1
             /\ metrics'.tasksCompleted = metrics.tasksCompleted
  BY <1>1, <1>3, ProcessingChanges DEF CountProcessing
<1>4. ASSUME TrackTaskCompletion
      PROVE  /\ metrics' \in PoolMetrics /\ metrics'.tasksQueued = metrics.tasksQueued
             /\ metrics'.tasksCompleted = metrics.tasksCompleted
             /\ \/ /\ fpc' = "completing"
                   /\ metrics'.tasksProcessing = metrics.tasksProcessing - 1
                \/ /\ fpc' = "forwarding"
                   /\ metrics'.tasksProcessing = metrics.tasksProcessing
  <2>1. CASE IdOf[fjob] \in activeTasks
    <3>1. /\ fpc' = "completing"
          /\ metrics' = [metrics EXCEPT !.tasksProcessing = metrics.tasksProcessing - 1]
      BY <1>4, <2>1 DEF TrackTaskCompletion
    <3>2. metrics.tasksProcessing - 1 \in Int
      BY <1>1
    <3>. QED BY <3>1, <3>2, ProcessingChanges
  <2>2. CASE IdOf[fjob] \notin activeTasks
    BY <1>1, <1>4, <2>2 DEF TrackTaskCompletion
  <2>. QED BY <2>1, <2>2
<1>5. ASSUME CountCompleted
      PROVE  /\ metrics' \in PoolMetrics /\ metrics'.tasksQueued = metrics.tasksQueued
             /\ metrics'.tasksProcessing = metrics.tasksProcessing
             /\ metrics'.tasksCompleted = metrics.tasksCompleted + 1
  BY <1>1, <1>5, CompletedChanges DEF CountCompleted
<1>. QED BY <1>1, <1>2, <1>3, <1>4, <1>5

-----------------------------------------------------------------------------
(* Types, and who holds a submission.                                      *)

LEMMA ShapeInit == Init => Shape
<1> SUFFICES ASSUME Init PROVE Shape
  OBVIOUS
<1>1. <<>> \in Seq(Submission) /\ Len(<<>>) <= QueueSize
  BY EmptySeq, ConstantTypes
<1>2. TypeOK
  <2>1. metrics \in PoolMetrics
    BY DEF Init, PoolMetrics
  <2>2. sub \in [Submission -> SubState] /\ wpc \in [Worker -> WorkState]
    BY DEF Init, SubState, WorkState
  <2>3. wjob \in [Worker -> Submission \cup {NoSub}]
    BY DEF Init
  <2>. QED BY <1>1, <2>1, <2>2, <2>3 DEF Init, TypeOK, StopState, FwdState
<1>. QED
  BY <1>2 DEF Init, Shape, InHand, InTransit, NotYetStarted, HoldsTask

\* A worker that moves among the places with a submission, or among those without.
LEMMA MoveShape ==
    ASSUME Shape, NEW w \in Worker, NEW from, NEW to \in WorkState \ {"unborn"},
           Move(w, from, to), from # "unborn",
           from \in HoldsTask <=> to \in HoldsTask, UNCHANGED <<wjob, running, stop>>
    PROVE  wpc' \in [Worker -> WorkState] /\ InHand' /\ NotYetStarted'
<1>1. /\ wpc[w] = from /\ wpc' \in [Worker -> WorkState]
      /\ \A v \in Worker : wpc'[v] = IF v = w THEN to ELSE wpc[v]
  BY DEF Move, Shape, TypeOK
<1>2. InHand'
  BY <1>1 DEF Shape, InHand
<1>3. NotYetStarted'
  BY <1>1 DEF Shape, NotYetStarted
<1>. QED BY <1>1, <1>2, <1>3

\* A worker that lets go of its submission and goes back to the select.
LEMMA FinishShape ==
    ASSUME Shape, NEW w \in Worker, NEW from \in HoldsTask, NEW st \in SubState,
           Move(w, from, "select"), Finish(w, st), UNCHANGED <<running, stop>>
    PROVE  /\ wjob[w] \in Submission
           /\ wpc' \in [Worker -> WorkState] /\ wjob' \in [Worker -> Submission \cup {NoSub}]
           /\ sub' \in [Submission -> SubState]
           /\ InHand' /\ NotYetStarted'
<1>1. /\ wpc[w] = from /\ wpc' \in [Worker -> WorkState]
      /\ \A v \in Worker : wpc'[v] = IF v = w THEN "select" ELSE wpc[v]
  BY DEF Move, Shape, TypeOK, WorkState
<1>2. wjob[w] \in Submission
  BY <1>1 DEF Shape, TypeOK, InHand
<1>3. /\ wjob' \in [Worker -> Submission \cup {NoSub}]
      /\ \A v \in Worker : wjob'[v] = IF v = w THEN NoSub ELSE wjob[v]
  BY DEF Finish, Shape, TypeOK
<1>4. sub' \in [Submission -> SubState]
  BY <1>2 DEF Finish, Shape, TypeOK
<1>5. InHand'
  BY <1>1, <1>3 DEF Shape, InHand, HoldsTask
<1>6. NotYetStarted'
  BY <1>1 DEF Shape, NotYetStarted, HoldsTask
<1>. QED BY <1>1, <1>2, <1>3, <1>4, <1>5, <1>6

LEMMA SubmitShape ==
    ASSUME Shape, NEW s \in Submission, SubmitTask(s) \/ SubmitStep(s)
    PROVE  Shape'
<1> USE DEF stopVars, chanVars, workerVars, fwdVars, trackVars
<1>1. CASE SubmitTask(s)
  <2>1. metrics' \in PoolMetrics
    BY <1>1, QueuedChanges DEF SubmitTask, Shape, TypeOK, PoolMetrics
  <2>2. sub' \in [Submission -> SubState]
    BY <1>1 DEF SubmitTask, Shape, TypeOK, SubState
  <2>. QED
    BY <1>1, <2>1, <2>2 DEF SubmitTask, Shape, TypeOK, InHand, InTransit, NotYetStarted
<1>2. CASE SubmitSend(s)
  <2>1. taskQueue' \in Seq(Submission) /\ Len(taskQueue') <= QueueSize
    BY <1>2, ChannelSend DEF SubmitSend, Shape, TypeOK
  <2>2. sub' \in [Submission -> SubState]
    BY <1>2 DEF SubmitSend, Shape, TypeOK, SubState
  <2>. QED
    BY <1>2, <2>1, <2>2 DEF SubmitSend, Shape, TypeOK, InHand, InTransit, NotYetStarted
<1>3. CASE SubmitPanic(s)
  BY <1>3 DEF SubmitPanic, Panic, Shape, TypeOK, InHand, InTransit, NotYetStarted
<1>4. CASE SubmitWithdraw(s)
  <2>1. metrics' \in PoolMetrics
    BY <1>4, QueuedChanges DEF SubmitWithdraw, Shape, TypeOK, PoolMetrics
  <2>2. sub' \in [Submission -> SubState]
    BY <1>4 DEF SubmitWithdraw, Shape, TypeOK, SubState
  <2>. QED
    BY <1>4, <2>1, <2>2 DEF SubmitWithdraw, Shape, TypeOK, InHand, InTransit, NotYetStarted
<1>. QED BY <1>1, <1>2, <1>3, <1>4 DEF SubmitStep

LEMMA WorkerShape ==
    ASSUME Shape, NEW w \in Worker, WorkerStep(w)
    PROVE  Shape'
<1> USE DEF stopVars, chanVars, workerVars, fwdVars, trackVars
<1>1. CASE Receive(w)
  <2>1. /\ Head(taskQueue) \in Submission
        /\ taskQueue' \in Seq(Submission) /\ Len(taskQueue') <= QueueSize
    BY <1>1, ChannelReceive, ConstantTypes DEF Receive, Shape, TypeOK
  <2>2. /\ wpc[w] = "select" /\ wpc' \in [Worker -> WorkState]
        /\ \A v \in Worker : wpc'[v] = IF v = w THEN "received" ELSE wpc[v]
    BY <1>1 DEF Receive, Move, Shape, TypeOK, WorkState, HoldsTask
  <2>3. /\ wjob' \in [Worker -> Submission \cup {NoSub}]
        /\ \A v \in Worker : wjob'[v] = IF v = w THEN Head(taskQueue) ELSE wjob[v]
    BY <1>1, <2>1 DEF Receive, Shape, TypeOK
  <2>4. InHand'
    BY <2>1, <2>2, <2>3, ConstantTypes DEF Shape, InHand, HoldsTask
  <2>5. NotYetStarted' /\ InTransit'
    BY <1>1, <2>2 DEF Receive, Shape, NotYetStarted, InTransit
  <2>. QED BY <1>1, <2>1, <2>2, <2>3, <2>4, <2>5 DEF Receive, Shape, TypeOK
<1>2. CASE RegisterTaskStart(w)
  <2>1. wpc' \in [Worker -> WorkState] /\ InHand' /\ NotYetStarted'
    BY <1>2, MoveShape DEF RegisterTaskStart, WorkState, HoldsTask
  <2>2. wjob[w] \in Submission
    BY <1>2 DEF RegisterTaskStart, Move, Shape, TypeOK, InHand, HoldsTask
  <2>3. activeTasks' \subseteq TaskID /\ metrics' \in PoolMetrics
    BY <1>2, <2>2, ConstantTypes, TrackerCounts DEF RegisterTaskStart, Shape, TypeOK
  <2>. QED BY <1>2, <2>1, <2>3 DEF RegisterTaskStart, Shape, TypeOK, InTransit
<1>10. CASE CountProcessing(w)
  <2>1. wpc' \in [Worker -> WorkState] /\ InHand' /\ NotYetStarted'
    BY <1>10, MoveShape DEF CountProcessing, WorkState, HoldsTask
  <2>2. metrics' \in PoolMetrics
    BY <1>10, TrackerCounts DEF Shape, TypeOK
  <2>. QED BY <1>10, <2>1, <2>2 DEF CountProcessing, Shape, TypeOK, InTransit
<1>3. CASE Execute(w)
  <2>1. wpc' \in [Worker -> WorkState] /\ InHand' /\ NotYetStarted'
    BY <1>3, MoveShape DEF Execute, WorkState, HoldsTask
  <2>. QED BY <1>3, <2>1 DEF Execute, Shape, TypeOK, InTransit
<1>4. CASE SendResult(w)
  <2>1. /\ wjob[w] \in Submission
        /\ wpc' \in [Worker -> WorkState] /\ wjob' \in [Worker -> Submission \cup {NoSub}]
        /\ sub' \in [Submission -> SubState] /\ InHand' /\ NotYetStarted'
    BY <1>4, FinishShape DEF SendResult, SubState, HoldsTask
  <2>2. results' \in Seq(Submission) /\ Len(results') <= QueueSize
    BY <1>4, <2>1, ChannelSend DEF SendResult, Shape, TypeOK
  <2>. QED BY <1>4, <2>1, <2>2 DEF SendResult, Shape, TypeOK, InTransit
<1>5. CASE DropResult(w)
  <2>1. /\ wpc' \in [Worker -> WorkState] /\ wjob' \in [Worker -> Submission \cup {NoSub}]
        /\ sub' \in [Submission -> SubState] /\ InHand' /\ NotYetStarted'
    BY <1>5, FinishShape DEF DropResult, SubState, HoldsTask
  <2>. QED BY <1>5, <2>1 DEF DropResult, Shape, TypeOK, InTransit
<1>6. CASE SendRecovered(w)
  <2>1. wpc' \in [Worker -> WorkState] /\ InHand' /\ NotYetStarted'
    BY <1>6, MoveShape DEF SendRecovered, WorkState, HoldsTask
  <2>2. sub' \in [Submission -> SubState]
    BY <1>6 DEF SendRecovered, Shape, TypeOK, SubState
  <2>. QED BY <1>6, <2>1, <2>2 DEF SendRecovered, Shape, TypeOK, InTransit
<1>7. CASE SendError(w)
  <2>1. /\ wpc' \in [Worker -> WorkState] /\ wjob' \in [Worker -> Submission \cup {NoSub}]
        /\ sub' \in [Submission -> SubState] /\ InHand' /\ NotYetStarted'
    <3>1. (IF sub[wjob[w]] = "discarded" THEN "discarded" ELSE "failed") \in SubState
      BY DEF SubState
    <3>. QED BY <1>7, <3>1, FinishShape DEF SendError, HoldsTask
  <2>. QED BY <1>7, <2>1 DEF SendError, Shape, TypeOK, InTransit
<1>8. CASE ErrorPanic(w)
  BY <1>8 DEF ErrorPanic, Panic, Shape, TypeOK, InHand, InTransit, NotYetStarted
<1>9. CASE Leave(w)
  <2>1. wpc' \in [Worker -> WorkState] /\ InHand' /\ NotYetStarted'
    BY <1>9, MoveShape DEF Leave, WorkState, HoldsTask
  <2>. QED BY <1>9, <2>1 DEF Leave, Shape, TypeOK, InTransit
<1>. QED
  BY <1>1, <1>2, <1>3, <1>4, <1>5, <1>6, <1>7, <1>8, <1>9, <1>10 DEF WorkerStep

LEMMA ForwardShape ==
    ASSUME Shape, ForwardStep \/ TakeResult
    PROVE  Shape'
<1> USE DEF stopVars, chanVars, workerVars, fwdVars, trackVars
<1>1. CASE ForwardReceive
  <2>1. /\ Head(results) \in Submission
        /\ results' \in Seq(Submission) /\ Len(results') <= QueueSize
    BY <1>1, ChannelReceive, ConstantTypes DEF ForwardReceive, Shape, TypeOK
  <2>. QED
    BY <1>1, <2>1, ConstantTypes
       DEF ForwardReceive, Shape, TypeOK, InHand, InTransit, NotYetStarted, FwdState
<1>2. CASE TrackTaskCompletion
  <2>1. activeTasks' \subseteq TaskID /\ metrics' \in PoolMetrics
    BY <1>2, TrackerCounts DEF TrackTaskCompletion, Shape, TypeOK
  <2>. QED
    BY <1>2, <2>1
       DEF TrackTaskCompletion, Shape, TypeOK, InHand, InTransit, NotYetStarted, FwdState
<1>7. CASE CountCompleted
  <2>1. activeTasks' \subseteq TaskID /\ metrics' \in PoolMetrics
    BY <1>7, TrackerCounts DEF CountCompleted, Shape, TypeOK
  <2>. QED
    BY <1>7, <2>1
       DEF CountCompleted, Shape, TypeOK, InHand, InTransit, NotYetStarted, FwdState
<1>3. CASE Forward
  <2>1. fjob \in Submission
    BY <1>3 DEF Forward, Shape, TypeOK, InTransit
  <2>2. delivered' \in Seq(Submission) /\ Len(delivered') <= QueueSize
    BY <1>3, <2>1, ChannelSend DEF Forward, Shape, TypeOK
  <2>. QED
    BY <1>3, <2>2 DEF Forward, Shape, TypeOK, InHand, InTransit, NotYetStarted, FwdState
<1>4. CASE ForwardPanic
  BY <1>4 DEF ForwardPanic, Panic, Shape, TypeOK, InHand, InTransit, NotYetStarted
<1>5. CASE ForwardLeave
  BY <1>5 DEF ForwardLeave, Shape, TypeOK, InHand, InTransit, NotYetStarted, FwdState
<1>6. CASE TakeResult
  <2>1. /\ Head(delivered) \in Submission
        /\ delivered' \in Seq(Submission) /\ Len(delivered') <= QueueSize
    BY <1>6, ChannelReceive, ConstantTypes DEF TakeResult, Shape, TypeOK
  <2>. QED
    BY <1>6, <2>1 DEF TakeResult, Shape, TypeOK, InHand, InTransit, NotYetStarted
<1>. QED BY <1>1, <1>2, <1>3, <1>4, <1>5, <1>6, <1>7 DEF ForwardStep

LEMMA ControlShape ==
    ASSUME Shape, Start \/ CancelContext \/ StopBegin \/ StopStep
    PROVE  Shape'
<1> USE DEF stopVars, chanVars, workerVars, fwdVars, trackVars
<1>1. CASE Start
  <2>1. wpc' \in [Worker -> WorkState] /\ \A w \in Worker : wpc'[w] = "select"
    BY <1>1 DEF Start, WorkState
  <2>2. InHand' /\ InTransit'
    BY <1>1, <2>1 DEF Start, Shape, InHand, InTransit, NotYetStarted, HoldsTask
  <2>. QED BY <1>1, <2>1, <2>2 DEF Start, Shape, TypeOK, NotYetStarted, FwdState
<1>2. CASE CancelContext \/ StopBegin
  BY <1>2 DEF CancelContext, StopBegin, Shape, TypeOK, InHand, InTransit, NotYetStarted,
              StopState
<1>3. ASSUME NEW from \in StopState \ {"idle"}, NEW to \in StopState \ {"idle"},
             NEW chan \in Chan, Close(from, to, chan)
      PROVE  Shape'
  BY <1>3 DEF Close, Shape, TypeOK, InHand, InTransit, NotYetStarted
<1>4. CASE StopWait
  BY <1>4 DEF StopWait, Shape, TypeOK, InHand, InTransit, NotYetStarted, StopState
<1>. QED
  BY <1>1, <1>2, <1>3, <1>4 DEF StopStep, StopState, Chan

LEMMA ShapeStep == Shape /\ [Next]_vars => Shape'
<1>1. ASSUME Shape, UNCHANGED vars PROVE Shape'
  BY <1>1 DEF vars, stopVars, chanVars, workerVars, fwdVars, trackVars, Shape, TypeOK, InHand,
              InTransit, NotYetStarted
<1>. QED BY <1>1, SubmitShape, WorkerShape, ForwardShape, ControlShape DEF Next

\* Every variable of the pool keeps its type, and no channel holds more than QueueSize.
THEOREM PoolTyped == Spec => []TypeOK
<1>1. Shape => TypeOK
  BY DEF Shape
<1>. QED BY <1>1, ShapeInit, ShapeStep, PTL DEF Spec

-----------------------------------------------------------------------------
(* Every accepted submission is in one place.                              *)

LEMMA HeldTypes ==
    ASSUME Shape
    PROVE  /\ \A i \in 1..Len(taskQueue) : taskQueue[i] \in Submission
           /\ \A w \in Worker : wjob[w] # NoSub => wjob[w] \in Submission
BY ElementOfSeq DEF Shape, TypeOK

\* A submission that is neither accepted nor discarded is in no worker's hands and not
\* in the queue: its submitter may move it without the others noticing.
LEMMA StillTheSubmitters ==
    ASSUME Shape, OnePlace, NEW s \in Submission, sub[s] \in {"idle", "sending"}
    PROVE  /\ \A i \in 1..Len(taskQueue) : taskQueue[i] # s
           /\ \A w \in Worker : wjob[w] # s
BY ConstantTypes DEF OnePlace, QueueIsAccepted, HeldIsAccepted

LEMMA SubmitterMoves ==
    ASSUME Shape, OnePlace, NEW s \in Submission, sub[s] \in {"idle", "sending"}, NEW st,
           sub' = [sub EXCEPT ![s] = st], UNCHANGED <<taskQueue, wpc, wjob>>
    PROVE  OnePlace'
<1>1. /\ \A i \in 1..Len(taskQueue) : taskQueue[i] # s
      /\ \A w \in Worker : wjob[w] # s
  BY StillTheSubmitters
<1>2. \A r \in Submission : r # s => sub'[r] = sub[r]
  BY DEF Shape, TypeOK
<1>3. QueueIsAccepted'
  BY <1>1, <1>2, HeldTypes DEF OnePlace, QueueIsAccepted
<1>4. HeldIsAccepted'
  BY <1>1, <1>2, HeldTypes DEF OnePlace, HeldIsAccepted
<1>. QED BY <1>3, <1>4 DEF OnePlace

LEMMA SendPlaces ==
    ASSUME Shape, OnePlace, NEW s \in Submission, SubmitSend(s)
    PROVE  OnePlace'
<1>1. /\ \A i \in 1..Len(taskQueue) : taskQueue[i] # s
      /\ \A w \in Worker : wjob[w] # s
  BY StillTheSubmitters DEF SubmitSend
<1>2. UNCHANGED <<wpc, wjob>>
  BY DEF SubmitSend, workerVars
<1>3. \A r \in Submission : sub'[r] = IF r = s THEN "accepted" ELSE sub[r]
  BY DEF SubmitSend, Shape, TypeOK
<1>4. /\ Len(taskQueue) \in Nat /\ Len(taskQueue') = Len(taskQueue) + 1
      /\ taskQueue'[Len(taskQueue) + 1] = s
      /\ \A i \in 1..Len(taskQueue) : taskQueue'[i] = taskQueue[i]
  BY ChannelSend DEF SubmitSend, Shape, TypeOK
<1>5. QueueIsAccepted'
  <2>1. \A i \in 1..Len(taskQueue') : sub'[taskQueue'[i]] = "accepted"
    BY <1>3, <1>4, HeldTypes DEF OnePlace, QueueIsAccepted
  <2>2. \A i, k \in 1..Len(taskQueue') : taskQueue'[i] = taskQueue'[k] => i = k
    BY <1>1, <1>4 DEF OnePlace, QueueIsAccepted
  <2>. QED BY <2>1, <2>2 DEF QueueIsAccepted
<1>6. HeldIsAccepted'
  <2> SUFFICES ASSUME NEW w \in Worker, wjob[w] # NoSub
               PROVE  /\ \/ sub'[wjob[w]] = "accepted"
                         \/ wpc[w] = "failing" /\ sub'[wjob[w]] = "discarded"
                      /\ \A i \in 1..Len(taskQueue') : taskQueue'[i] # wjob[w]
                      /\ \A v \in Worker : wjob[v] = wjob[w] => v = w
    BY <1>2 DEF HeldIsAccepted
  <2>1. sub'[wjob[w]] = sub[wjob[w]]
    BY <1>1, <1>3, HeldTypes
  <2>2. \A i \in 1..Len(taskQueue') : taskQueue'[i] # wjob[w]
    BY <1>1, <1>4 DEF OnePlace, HeldIsAccepted
  <2>. QED BY <2>1, <2>2 DEF OnePlace, HeldIsAccepted
<1>. QED BY <1>5, <1>6 DEF OnePlace

LEMMA ReceivePlaces ==
    ASSUME Shape, OnePlace, NEW w \in Worker, Receive(w)
    PROVE  OnePlace'
<1> DEFINE s == taskQueue[1]
<1>1. /\ Len(taskQueue) \in Nat \ {0} /\ Len(taskQueue') = Len(taskQueue) - 1
      /\ \A i \in 1..Len(taskQueue') : taskQueue'[i] = taskQueue[i + 1]
      /\ s \in Submission /\ Head(taskQueue) = s
  BY ChannelReceive DEF Receive, Shape, TypeOK
<1>2. /\ sub' = sub
      /\ \A v \in Worker : v # w => wpc'[v] = wpc[v]
      /\ wjob'[w] = s /\ \A v \in Worker : v # w => wjob'[v] = wjob[v]
  <2>1. wpc' = [wpc EXCEPT ![w] = "received"] /\ wjob' = [wjob EXCEPT ![w] = s] /\ sub' = sub
    BY <1>1 DEF Receive, Move
  <2>. QED BY <2>1 DEF Shape, TypeOK
<1>3. /\ sub[s] = "accepted"
      /\ \A i \in 1..Len(taskQueue') : taskQueue'[i] # s
      /\ \A v \in Worker : wjob[v] # s
  <2>1. 1 \in 1..Len(taskQueue) /\ sub[s] = "accepted"
    BY <1>1 DEF OnePlace, QueueIsAccepted
  <2>2. \A i \in 1..Len(taskQueue') : taskQueue'[i] # s
    BY <1>1, <2>1 DEF OnePlace, QueueIsAccepted
  <2>3. \A v \in Worker : wjob[v] # s
    BY <1>1, <2>1, ConstantTypes DEF OnePlace, HeldIsAccepted
  <2>. QED BY <2>1, <2>2, <2>3
<1>4. QueueIsAccepted'
  BY <1>1, <1>2 DEF OnePlace, QueueIsAccepted
<1>5. HeldIsAccepted'
  <2> SUFFICES ASSUME NEW v \in Worker, wjob'[v] # NoSub
               PROVE  /\ \/ sub[wjob'[v]] = "accepted"
                         \/ wpc'[v] = "failing" /\ sub[wjob'[v]] = "discarded"
                      /\ \A i \in 1..Len(taskQueue') : taskQueue'[i] # wjob'[v]
                      /\ \A x \in Worker : wjob'[x] = wjob'[v] => x = v
    BY <1>2 DEF HeldIsAccepted
  <2>1. CASE v = w
    <3>1. wjob'[v] = s /\ \A x \in Worker : x # w => wjob'[x] # s
      BY <1>2, <1>3, <2>1
    <3>. QED BY <1>3, <2>1, <3>1
  <2>2. CASE v # w
    <3>1. wjob'[v] = wjob[v] /\ wpc'[v] = wpc[v] /\ wjob[v] # NoSub /\ wjob[v] # s
      BY <1>2, <1>3, <2>2
    <3>2. /\ sub[wjob[v]] = "accepted" \/ (wpc[v] = "failing" /\ sub[wjob[v]] = "discarded")
          /\ \A i \in 1..Len(taskQueue) : taskQueue[i] # wjob[v]
          /\ \A x \in Worker : wjob[x] = wjob[v] => x = v
      BY <3>1 DEF OnePlace, HeldIsAccepted
    <3>3. \A i \in 1..Len(taskQueue') : taskQueue'[i] # wjob[v]
      BY <1>1, <3>2
    <3>4. \A x \in Worker : wjob'[x] = wjob[v] => x = v
      BY <1>2, <3>1, <3>2
    <3>. QED BY <3>1, <3>2, <3>3, <3>4
  <2>. QED BY <2>1, <2>2
<1>. QED BY <1>4, <1>5 DEF OnePlace

\* A worker that moves with what it has in hand and is not yet reporting an error.
LEMMA WorkerMoves ==
    ASSUME Shape, OnePlace, NEW w \in Worker, NEW from, NEW to,
           Move(w, from, to), from # "failing", UNCHANGED <<taskQueue, sub, wjob>>
    PROVE  OnePlace'
<1>1. \A v \in Worker : wpc[v] = "failing" => wpc'[v] = "failing"
  BY DEF Move, Shape, TypeOK
<1>. QED BY <1>1 DEF OnePlace, QueueIsAccepted, HeldIsAccepted

\* A worker that lets go of its submission.
LEMMA FinishPlaces ==
    ASSUME Shape, OnePlace, NEW w \in Worker, NEW from \in HoldsTask, NEW st,
           Move(w, from, "select"), Finish(w, st), UNCHANGED taskQueue
    PROVE  OnePlace'
<1>1. wjob[w] \in Submission /\ wjob[w] # NoSub /\ wpc[w] = from
  BY ConstantTypes DEF Move, Shape, TypeOK, InHand
<1>2. /\ \A v \in Worker : wjob'[v] = IF v = w THEN NoSub ELSE wjob[v]
      /\ \A v \in Worker : v # w => wpc'[v] = wpc[v]
      /\ \A s \in Submission : s # wjob[w] => sub'[s] = sub[s]
  BY DEF Move, Finish, Shape, TypeOK
<1>3. QueueIsAccepted'
  BY <1>1, <1>2, HeldTypes DEF OnePlace, QueueIsAccepted, HeldIsAccepted
<1>4. HeldIsAccepted'
  BY <1>1, <1>2, HeldTypes DEF OnePlace, HeldIsAccepted
<1>. QED BY <1>3, <1>4 DEF OnePlace

\* Only this makes a worker report on a submission that is not accepted any more.
LEMMA RecoveredPlaces ==
    ASSUME Shape, OnePlace, NEW w \in Worker, SendRecovered(w)
    PROVE  OnePlace'
<1>1. wjob[w] \in Submission /\ wjob[w] # NoSub
  BY ConstantTypes DEF SendRecovered, Move, Shape, TypeOK, InHand, HoldsTask
<1>2. /\ UNCHANGED <<taskQueue, wjob>>
      /\ \A v \in Worker : wpc'[v] = IF v = w THEN "failing" ELSE wpc[v]
      /\ \A s \in Submission : sub'[s] = IF s = wjob[w] THEN "discarded" ELSE sub[s]
  BY DEF SendRecovered, Move, Shape, TypeOK
<1>3. QueueIsAccepted'
  BY <1>1, <1>2, HeldTypes DEF OnePlace, QueueIsAccepted, HeldIsAccepted
<1>4. HeldIsAccepted'
  BY <1>1, <1>2, HeldTypes DEF OnePlace, HeldIsAccepted
<1>. QED BY <1>3, <1>4 DEF OnePlace

LEMMA PlacesStep == Shape /\ OnePlace /\ [Next]_vars => OnePlace'
<1> SUFFICES ASSUME Shape, OnePlace, [Next]_vars PROVE OnePlace'
  OBVIOUS
<1> USE DEF workerVars
<1>1. ASSUME UNCHANGED <<taskQueue, sub, wpc, wjob>> PROVE OnePlace'
  BY <1>1 DEF OnePlace, QueueIsAccepted, HeldIsAccepted
<1>2. ASSUME NEW s \in Submission, SubmitTask(s) \/ SubmitStep(s) PROVE OnePlace'
  <2>1. CASE SubmitTask(s)
    BY <2>1, SubmitterMoves DEF SubmitTask
  <2>2. CASE SubmitSend(s)
    BY <2>2, SendPlaces
  <2>3. CASE SubmitPanic(s)
    BY <2>3, <1>1 DEF SubmitPanic, Panic
  <2>4. CASE SubmitWithdraw(s)
    BY <2>4, SubmitterMoves DEF SubmitWithdraw
  <2>. QED BY <1>2, <2>1, <2>2, <2>3, <2>4 DEF SubmitStep
<1>3. ASSUME NEW w \in Worker, WorkerStep(w) PROVE OnePlace'
  <2>1. CASE Receive(w)
    BY <2>1, ReceivePlaces
  <2>2. CASE RegisterTaskStart(w)
    BY <2>2, WorkerMoves DEF RegisterTaskStart
  <2>10. CASE CountProcessing(w)
    BY <2>10, WorkerMoves DEF CountProcessing
  <2>3. CASE Execute(w)
    BY <2>3, WorkerMoves DEF Execute
  <2>4. CASE SendResult(w)
    BY <2>4, FinishPlaces DEF SendResult, HoldsTask
  <2>5. CASE DropResult(w)
    BY <2>5, FinishPlaces DEF DropResult, HoldsTask
  <2>6. CASE SendRecovered(w)
    BY <2>6, RecoveredPlaces
  <2>7. CASE SendError(w)
    BY <2>7, FinishPlaces DEF SendError, HoldsTask
  <2>8. CASE ErrorPanic(w)
    BY <2>8, <1>1 DEF ErrorPanic, Panic
  <2>9. CASE Leave(w)
    BY <2>9, WorkerMoves DEF Leave
  <2>. QED
    BY <1>3, <2>1, <2>2, <2>3, <2>4, <2>5, <2>6, <2>7, <2>8, <2>9, <2>10 DEF WorkerStep
<1>4. CASE ForwardStep \/ TakeResult
  BY <1>4, <1>1 DEF ForwardStep, ForwardReceive, TrackTaskCompletion, CountCompleted, Forward,
                    ForwardPanic, Panic, ForwardLeave, TakeResult
<1>5. CASE Start
  <2>1. \A w \in Worker : wjob[w] = NoSub
    BY <1>5 DEF Start, Shape, InHand, NotYetStarted, HoldsTask
  <2>. QED BY <1>5, <2>1 DEF Start, OnePlace, QueueIsAccepted, HeldIsAccepted
<1>6. CASE CancelContext \/ StopBegin \/ StopStep
  BY <1>6, <1>1 DEF CancelContext, StopBegin, StopStep, StopWait, Close
<1>7. CASE UNCHANGED vars
  BY <1>7, <1>1 DEF vars
<1>. QED BY <1>2, <1>3, <1>4, <1>5, <1>6, <1>7 DEF Next

LEMMA PlacesInit == Init => OnePlace
BY DEF Init, OnePlace, QueueIsAccepted, HeldIsAccepted

\* An accepted submission is in the queue once or in the hands of one worker, never in
\* both, and one that is refused, withdrawn or settled is in neither place.
THEOREM SubmissionsHaveOnePlace == Spec => []OnePlace
BY ShapeInit, ShapeStep, PlacesInit, PlacesStep, PTL DEF Spec

-----------------------------------------------------------------------------
(* What Stop closes and when.                                              *)

LEMMA GoneStayGone ==
    ASSUME WaitGroupDone
    PROVE  ~ForwardStep /\ \A w \in Worker : ~WorkerStep(w)
<1>1. fpc = "exited" /\ \A w \in Worker : wpc[w] \notin {"select"} \cup HoldsTask
  BY DEF WaitGroupDone, WorkersGone, At
<1>2. ASSUME NEW w \in Worker, WorkerStep(w) PROVE FALSE
  <2>1. wpc[w] \in {"select"} \cup HoldsTask
    BY <1>2 DEF WorkerStep, Receive, RegisterTaskStart, CountProcessing, Execute, SendResult,
                DropResult, SendRecovered, SendError, ErrorPanic, Leave, Move, HoldsTask
  <2>. QED BY <1>1, <2>1
<1>3. ~ForwardStep
  BY <1>1 DEF ForwardStep, ForwardReceive, TrackTaskCompletion, CountCompleted, Forward,
              ForwardPanic, ForwardLeave
<1>. QED BY <1>2, <1>3

\* Steps of workers and forwarder: they leave Stop alone, and there are none once a
\* Stop that has waited is past its wait.
LEMMA GoroutineStop ==
    ASSUME StopOrder, GracefulStop, UNCHANGED stopVars, ~WaitGroupDone,
           \/ panicked' = panicked
           \/ "errors" \in closed
           \/ "delivered" \in closed
    PROVE  StopOrder' /\ GracefulStop'
BY DEF StopOrder, GracefulStop, stopVars

LEMMA StopStepStop ==
    ASSUME StopOrder, GracefulStop, StopBegin \/ StopStep
    PROVE  StopOrder' /\ GracefulStop'
<1>1. WaitGroupDone' <=> WaitGroupDone
  BY DEF WaitGroupDone, WorkersGone, At, StopBegin, StopStep, StopWait, Close, workerVars, fwdVars
<1>2. panicked' = panicked /\ (timedOut => timedOut')
  BY DEF StopBegin, StopStep, StopWait, Close
<1>3. GracefulStop'
  BY <1>2 DEF GracefulStop
<1>4. StopOrder'
  BY <1>1 DEF StopOrder, StopBegin, StopStep, StopWait, Close
<1>. QED BY <1>3, <1>4

LEMMA StopOrderStep ==
    StopOrder /\ GracefulStop /\ [Next]_vars => StopOrder' /\ GracefulStop'
<1> SUFFICES ASSUME StopOrder, GracefulStop, [Next]_vars PROVE StopOrder' /\ GracefulStop'
  OBVIOUS
<1> USE DEF stopVars, workerVars, fwdVars
<1>1. ASSUME UNCHANGED <<stop, timedOut, closed, wpc, fpc>>,
             panicked' = panicked \/ panicked' = "submit"
      PROVE  StopOrder' /\ GracefulStop'
  BY <1>1 DEF StopOrder, GracefulStop, WaitGroupDone, WorkersGone, At
<1>2. ASSUME NEW s \in Submission, SubmitTask(s) \/ SubmitStep(s)
      PROVE  StopOrder' /\ GracefulStop'
  BY <1>1, <1>2 DEF SubmitTask, SubmitStep, SubmitSend, SubmitPanic, Panic, SubmitWithdraw
<1>3. ASSUME NEW w \in Worker, WorkerStep(w) PROVE StopOrder' /\ GracefulStop'
  <2>1. UNCHANGED stopVars /\ (panicked' = panicked \/ "errors" \in closed)
    BY <1>3 DEF WorkerStep, Receive, RegisterTaskStart, CountProcessing, Execute, SendResult,
                DropResult, SendRecovered, SendError, ErrorPanic, Leave, Panic
  <2>. QED BY <1>3, <2>1, GoneStayGone, GoroutineStop
<1>4. CASE ForwardStep
  <2>1. UNCHANGED stopVars /\ (panicked' = panicked \/ "delivered" \in closed)
    BY <1>4 DEF ForwardStep, ForwardReceive, TrackTaskCompletion, CountCompleted, Forward,
                ForwardPanic, ForwardLeave, Panic
  <2>. QED BY <1>4, <2>1, GoneStayGone, GoroutineStop
<1>5. CASE TakeResult \/ CancelContext
  BY <1>1, <1>5 DEF TakeResult, CancelContext
<1>6. CASE Start
  BY <1>6 DEF Start, StopOrder, GracefulStop
<1>7. CASE StopBegin \/ StopStep
  BY <1>7, StopStepStop
<1>8. CASE UNCHANGED vars
  BY <1>1, <1>8 DEF vars
<1>. QED BY <1>2, <1>3, <1>4, <1>5, <1>6, <1>7, <1>8 DEF Next

\* Neither a worker nor the forwarder dies of a channel Stop has closed, unless Stop
\* gave up waiting for them: the early close of workerResultChan kills nobody.
THEOREM StopIsGraceful == Spec => []GracefulStop
<1>1. Init => StopOrder /\ GracefulStop
  BY DEF Init, StopOrder, GracefulStop
<1>. QED BY <1>1, StopOrderStep, PTL DEF Spec

-----------------------------------------------------------------------------
(* A result on its way to a consumer.                                      *)

OnItsWay(s) ==
    \/ s \in received \/ fjob = s
    \/ \E i \in 1..Len(results) : results[i] = s
    \/ \E i \in 1..Len(delivered) : delivered[i] = s
    \/ ctxDone

LEMMA SurvivesMeans ==
    SentResultSurvives <=> \A s \in Submission : sub[s] = "sent" => OnItsWay(s)
BY DEF SentResultSurvives, OnItsWay, In

\* A step that takes no result away and hands none over.
LEMMA WayUntouched ==
    ASSUME SentResultSurvives, UNCHANGED <<received, fjob, results, delivered>>,
           ctxDone => ctxDone',
           \A s \in Submission : sub'[s] = "sent" => sub[s] = "sent"
    PROVE  SentResultSurvives'
BY DEF SentResultSurvives, In

LEMMA ResultIsSent ==
    ASSUME Shape, SentResultSurvives, NEW w \in Worker, SendResult(w)
    PROVE  SentResultSurvives'
<1>1. wjob[w] \in Submission
  BY DEF SendResult, Move, Shape, TypeOK, InHand, HoldsTask
<1>2. /\ Len(results) \in Nat /\ Len(results') = Len(results) + 1
      /\ results'[Len(results) + 1] = wjob[w]
      /\ \A i \in 1..Len(results) : results'[i] = results[i]
  BY <1>1, ChannelSend DEF SendResult, Shape, TypeOK
<1>3. UNCHANGED <<received, fjob, delivered, ctxDone>>
  BY DEF SendResult, fwdVars
<1>4. \A s \in Submission : s # wjob[w] => sub'[s] = sub[s]
  BY DEF SendResult, Finish, Shape, TypeOK
<1>5. ASSUME NEW s \in Submission, sub'[s] = "sent" PROVE OnItsWay(s)'
  <2>1. CASE s = wjob[w]
    BY <1>2, <2>1 DEF OnItsWay
  <2>2. CASE s # wjob[w]
    <3>1. OnItsWay(s)
      BY <1>4, <1>5, <2>2, SurvivesMeans
    <3>. QED BY <1>2, <1>3, <3>1 DEF OnItsWay
  <2>. QED BY <2>1, <2>2
<1>. QED BY <1>5 DEF SentResultSurvives, OnItsWay, In

LEMMA ResultIsForwarded ==
    ASSUME Shape, SentResultSurvives, ForwardStep \/ TakeResult
    PROVE  SentResultSurvives'
<1>1. sub' = sub /\ ctxDone' = ctxDone
  BY DEF ForwardStep, ForwardReceive, TrackTaskCompletion, CountCompleted, Forward, ForwardPanic,
         Panic, ForwardLeave, TakeResult
<1> SUFFICES ASSUME NEW s \in Submission, OnItsWay(s) PROVE OnItsWay(s)'
  BY <1>1, SurvivesMeans DEF SentResultSurvives, OnItsWay, In
<1>2. CASE ForwardReceive
  <2>1. /\ Len(results) \in Nat \ {0} /\ Len(results') = Len(results) - 1
        /\ \A i \in 1..Len(results') : results'[i] = results[i + 1]
        /\ fjob' = results[1]
    BY <1>2, ChannelReceive DEF ForwardReceive, Shape, TypeOK
  <2>2. fjob # s /\ UNCHANGED <<received, delivered>>
    BY <1>2, ConstantTypes DEF ForwardReceive, Shape, InTransit
  <2>3. ASSUME NEW i \in 1..Len(results), results[i] = s PROVE OnItsWay(s)'
    <3>1. CASE i = 1
      BY <2>1, <2>3, <3>1 DEF OnItsWay
    <3>2. CASE i # 1
      <4>1. i - 1 \in 1..Len(results') /\ results'[i - 1] = s
        BY <2>1, <2>3, <3>2
      <4>. QED BY <4>1 DEF OnItsWay
    <3>. QED BY <3>1, <3>2
  <2>. QED BY <1>1, <2>2, <2>3 DEF OnItsWay
<1>3. CASE Forward
  <2>1. fjob \in Submission
    BY <1>3 DEF Forward, Shape, TypeOK, InTransit
  <2>2. /\ Len(delivered) \in Nat /\ Len(delivered') = Len(delivered) + 1
        /\ delivered'[Len(delivered) + 1] = fjob
        /\ \A i \in 1..Len(delivered) : delivered'[i] = delivered[i]
    BY <1>3, <2>1, ChannelSend DEF Forward, Shape, TypeOK
  <2>3. UNCHANGED <<received, results>>
    BY <1>3 DEF Forward
  <2>. QED BY <1>1, <2>2, <2>3 DEF OnItsWay
<1>4. CASE TakeResult
  <2>1. /\ Len(delivered) \in Nat \ {0} /\ Len(delivered') = Len(delivered) - 1
        /\ \A i \in 1..Len(delivered') : delivered'[i] = delivered[i + 1]
        /\ received' = received \cup {delivered[1]}
    BY <1>4, ChannelReceive DEF TakeResult, Shape, TypeOK
  <2>2. UNCHANGED <<fjob, results>>
    BY <1>4 DEF TakeResult, fwdVars
  <2>3. ASSUME NEW i \in 1..Len(delivered), delivered[i] = s PROVE OnItsWay(s)'
    <3>1. CASE i = 1
      BY <2>1, <2>3, <3>1 DEF OnItsWay
    <3>2. CASE i # 1
      <4>1. i - 1 \in 1..Len(delivered') /\ delivered'[i - 1] = s
        BY <2>1, <2>3, <3>2
      <4>. QED BY <4>1 DEF OnItsWay
    <3>. QED BY <3>1, <3>2
  <2>. QED BY <1>1, <2>1, <2>2, <2>3 DEF OnItsWay
<1>5. CASE ForwardLeave
  <2>1. fjob # s \/ ctxDone
    BY <1>5, ConstantTypes DEF ForwardLeave, ForwardMayLeave, Shape, InTransit
  <2>. QED BY <1>1, <1>5, <2>1 DEF ForwardLeave, OnItsWay, chanVars
<1>6. CASE TrackTaskCompletion \/ CountCompleted \/ ForwardPanic
  BY <1>1, <1>6 DEF TrackTaskCompletion, CountCompleted, ForwardPanic, Panic, OnItsWay, chanVars,
                    fwdVars
<1>. QED BY <1>2, <1>3, <1>4, <1>5, <1>6 DEF ForwardStep

LEMMA SurvivesStep ==
    Shape /\ SentResultSurvives /\ [Next]_vars => SentResultSurvives'
<1> SUFFICES ASSUME Shape, SentResultSurvives, [Next]_vars PROVE SentResultSurvives'
  OBVIOUS
<1> USE DEF chanVars, fwdVars
<1>1. ASSUME NEW s \in Submission, SubmitTask(s) \/ SubmitStep(s) PROVE SentResultSurvives'
  <2>1. \A r \in Submission : sub'[r] = "sent" => sub[r] = "sent"
    BY <1>1 DEF SubmitTask, SubmitStep, SubmitSend, SubmitPanic, Panic, SubmitWithdraw, Shape,
                TypeOK
  <2>2. UNCHANGED <<received, fjob, results, delivered, ctxDone>>
    BY <1>1 DEF SubmitTask, SubmitStep, SubmitSend, SubmitPanic, Panic, SubmitWithdraw
  <2>. QED BY <2>1, <2>2, WayUntouched
<1>2. ASSUME NEW w \in Worker, WorkerStep(w), ~SendResult(w) PROVE SentResultSurvives'
  <2>1. sub' = sub \/ \E st \in SubState \ {"sent"} : sub' = [sub EXCEPT ![wjob[w]] = st]
    BY <1>2 DEF WorkerStep, Receive, RegisterTaskStart, CountProcessing, Execute, DropResult,
                SendRecovered, SendError, ErrorPanic, Leave, Finish, Panic, SubState
  <2>2. \A s \in Submission : sub'[s] = "sent" => sub[s] = "sent"
    BY <2>1 DEF Shape, TypeOK
  <2>3. UNCHANGED <<received, fjob, results, delivered, ctxDone>>
    BY <1>2 DEF WorkerStep, Receive, RegisterTaskStart, CountProcessing, Execute, DropResult,
                SendRecovered, SendError, ErrorPanic, Leave, Panic
  <2>. QED BY <2>2, <2>3, WayUntouched
<1>3. CASE Start \/ CancelContext \/ StopBegin \/ StopStep
  <2>1. UNCHANGED <<received, fjob, results, delivered, sub>> /\ (ctxDone => ctxDone')
    BY <1>3 DEF Start, CancelContext, StopBegin, StopStep, StopWait, Close
  <2>. QED BY <2>1, WayUntouched
<1>4. CASE UNCHANGED vars
  BY <1>4, WayUntouched DEF vars
<1>. QED BY <1>1, <1>2, <1>3, <1>4, ResultIsSent, ResultIsForwarded DEF Next

\* A result that a worker has handed over is with a consumer or on its way to one, in
\* every order of forwarding, stopping and closing, while Start's context lives.
THEOREM SentResultsSurvive == Spec => []SentResultSurvives
<1>1. Init => SentResultSurvives
  BY DEF Init, SentResultSurvives, In
<1>. QED BY <1>1, ShapeInit, ShapeStep, SurvivesStep, PTL DEF Spec

-----------------------------------------------------------------------------
(* The counter of queued submissions.                                      *)

Waiting == Cardinality(In({"sending"}))
Fetched == Cardinality(At({"received"}))

LEMMA PlaceCounts ==
    /\ Waiting \in Nat /\ IsFiniteSet(In({"sending"}))
    /\ Fetched \in Nat /\ IsFiniteSet(At({"received"}))
<1>1. IsFiniteSet(In({"sending"})) /\ IsFiniteSet(At({"received"}))
  BY FS_Subset, ConstantTypes DEF In, At
<1>. QED BY <1>1, FS_CardinalityType DEF Waiting, Fetched

\* One submission moves.
LEMMA WaitingChanges ==
    ASSUME NEW s \in Submission, \A r \in Submission : r # s => sub'[r] = sub[r]
    PROVE  /\ sub[s] # "sending" /\ sub'[s] = "sending" => Waiting' = Waiting + 1
           /\ sub[s] = "sending" /\ sub'[s] # "sending" => Waiting' = Waiting - 1
           /\ sub[s] # "sending" /\ sub'[s] # "sending" => Waiting' = Waiting
<1> DEFINE before == In({"sending"})
           after == In({"sending"})'
<1>2. CASE sub[s] # "sending" /\ sub'[s] = "sending"
  <2>1. after = before \cup {s} /\ s \notin before
    BY <1>2 DEF In
  <2>2. Cardinality(after) = Cardinality(before) + 1
    BY <2>1, PlaceCounts, FS_AddElement
  <2>. QED BY <1>2, <2>2 DEF Waiting
<1>3. CASE sub[s] = "sending" /\ sub'[s] # "sending"
  <2>1. after = before \ {s} /\ s \in before
    BY <1>3 DEF In
  <2>2. Cardinality(after) = Cardinality(before) - 1
    BY <2>1, PlaceCounts, FS_RemoveElement
  <2>. QED BY <1>3, <2>2 DEF Waiting
<1>4. CASE sub[s] # "sending" /\ sub'[s] # "sending"
  <2>1. after = before
    BY <1>4 DEF In
  <2>. QED BY <1>4, <2>1 DEF Waiting
<1>. QED BY <1>2, <1>3, <1>4

LEMMA SubmissionMoves ==
    ASSUME Shape, NEW s \in Submission, NEW st, sub' = [sub EXCEPT ![s] = st]
    PROVE  sub'[s] = st /\ \A r \in Submission : r # s => sub'[r] = sub[r]
BY DEF Shape, TypeOK

\* One worker moves.
LEMMA FetchedChanges ==
    ASSUME Shape, NEW w \in Worker, NEW from, NEW to, Move(w, from, to)
    PROVE  /\ from # "received" /\ to = "received" => Fetched' = Fetched + 1
           /\ from = "received" /\ to # "received" => Fetched' = Fetched - 1
           /\ from # "received" /\ to # "received" => Fetched' = Fetched
<1> DEFINE before == At({"received"})
           after == At({"received"})'
<1>1. wpc[w] = from /\ \A v \in Worker : wpc'[v] = IF v = w THEN to ELSE wpc[v]
  BY DEF Move, Shape, TypeOK
<1>2. CASE from # "received" /\ to = "received"
  <2>1. after = before \cup {w} /\ w \notin before
    BY <1>1, <1>2 DEF At
  <2>2. Cardinality(after) = Cardinality(before) + 1
    BY <2>1, PlaceCounts, FS_AddElement
  <2>. QED BY <1>2, <2>2 DEF Fetched
<1>3. CASE from = "received" /\ to # "received"
  <2>1. after = before \ {w} /\ w \in before
    BY <1>1, <1>3 DEF At
  <2>2. Cardinality(after) = Cardinality(before) - 1
    BY <2>1, PlaceCounts, FS_RemoveElement
  <2>. QED BY <1>3, <2>2 DEF Fetched
<1>4. CASE from # "received" /\ to # "received"
  <2>1. after = before
    BY <1>1, <1>4 DEF At
  <2>. QED BY <1>4, <2>1 DEF Fetched
<1>. QED BY <1>2, <1>3, <1>4

\* The gauge with names the arithmetic can be done with.
Queued   == metrics.tasksQueued
Buffered == Len(taskQueue)

LEMMA QueuedTerms ==
    /\ QueuedGaugeExact <=> Queued = Buffered + Waiting + Fetched
    /\ Waiting \in Nat /\ Fetched \in Nat
    /\ Shape => Queued \in Int /\ Buffered \in Nat
<1>1. Shape => Queued \in Int /\ Buffered \in Nat
  BY LenProperties DEF Shape, TypeOK, Queued, Buffered, PoolMetrics
<1>. QED BY <1>1, PlaceCounts DEF QueuedGaugeExact, Queued, Buffered, Waiting, Fetched

\* The sum is kept when the terms change together.
LEMMA GaugeKept ==
    ASSUME Shape, QueuedGaugeExact, NEW q \in Int, NEW b \in Int, NEW a \in Int, NEW f \in Int,
           q = b + a + f, Queued' = Queued + q, Buffered' = Buffered + b,
           Waiting' = Waiting + a, Fetched' = Fetched + f
    PROVE  QueuedGaugeExact'
<1>1. QueuedGaugeExact' <=> Queued' = Buffered' + Waiting' + Fetched'
  BY QueuedTerms DEF QueuedGaugeExact, Queued, Buffered, Waiting, Fetched
<1>. QED BY <1>1, QueuedTerms

LEMMA SameGauge ==
    ASSUME Shape, QueuedGaugeExact,
           Queued' = Queued, Buffered' = Buffered, Waiting' = Waiting, Fetched' = Fetched
    PROVE  QueuedGaugeExact'
BY DEF QueuedGaugeExact, Queued, Buffered, Waiting, Fetched

LEMMA SubmitGauge ==
    ASSUME Shape, QueuedGaugeExact, NEW s \in Submission, SubmitTask(s) \/ SubmitStep(s)
    PROVE  QueuedGaugeExact'
<1> USE QueuedTerms
<1>0. Fetched' = Fetched
  BY DEF SubmitTask, SubmitStep, SubmitSend, SubmitPanic, Panic, SubmitWithdraw, workerVars,
         Fetched, At
<1>m. metrics \in PoolMetrics
  BY DEF Shape, TypeOK
<1>1. CASE SubmitTask(s) /\ running
  <2>1. Queued' = Queued + 1
    BY <1>1, <1>m, QueuedChanges DEF SubmitTask, Queued, PoolMetrics
  <2>2. Waiting' = Waiting + 1
    BY <1>1, SubmissionMoves, WaitingChanges DEF SubmitTask
  <2>3. Buffered' = Buffered + 0
    BY <1>1 DEF SubmitTask, Buffered
  <2>. QED BY <1>0, <2>1, <2>2, <2>3, GaugeKept
<1>2. CASE SubmitTask(s) /\ ~running
  <2>1. Queued' = Queued /\ Buffered' = Buffered
    BY <1>2 DEF SubmitTask, Queued, Buffered
  <2>2. Waiting' = Waiting
    BY <1>2, SubmissionMoves, WaitingChanges DEF SubmitTask
  <2>. QED BY <1>0, <2>1, <2>2, SameGauge
<1>3. CASE SubmitSend(s)
  <2>1. Queued' = Queued + 0
    BY <1>3 DEF SubmitSend, trackVars, Queued
  <2>2. Waiting' = Waiting + (-1)
    <3>1. sub[s] = "sending" /\ sub' = [sub EXCEPT ![s] = "accepted"]
      BY <1>3 DEF SubmitSend
    <3>2. sub'[s] # "sending" /\ \A r \in Submission : r # s => sub'[r] = sub[r]
      BY <3>1 DEF Shape, TypeOK
    <3>3. Waiting' = Waiting - 1
      BY <3>1, <3>2, WaitingChanges
    <3>. QED BY <3>3
  <2>3. Buffered' = Buffered + 1
    BY <1>3, ChannelSend DEF SubmitSend, Shape, TypeOK, Buffered
  <2>. QED BY <1>0, <2>1, <2>2, <2>3, GaugeKept
<1>4. CASE SubmitPanic(s)
  BY <1>0, <1>4, SameGauge DEF SubmitPanic, Panic, trackVars, Queued, Buffered, Waiting, In
<1>5. CASE SubmitWithdraw(s)
  <2>1. Queued' = Queued + (-1)
    BY <1>5, <1>m, QueuedChanges DEF SubmitWithdraw, Queued, PoolMetrics
  <2>2. Waiting' = Waiting + (-1)
    <3>1. sub[s] = "sending" /\ sub' = [sub EXCEPT ![s] = "withdrawn"]
      BY <1>5 DEF SubmitWithdraw
    <3>2. sub'[s] # "sending" /\ \A r \in Submission : r # s => sub'[r] = sub[r]
      BY <3>1 DEF Shape, TypeOK
    <3>3. Waiting' = Waiting - 1
      BY <3>1, <3>2, WaitingChanges
    <3>. QED BY <3>3
  <2>3. Buffered' = Buffered + 0
    BY <1>5 DEF SubmitWithdraw, Buffered
  <2>. QED BY <1>0, <2>1, <2>2, <2>3, GaugeKept
<1>. QED BY <1>1, <1>2, <1>3, <1>4, <1>5 DEF SubmitStep

LEMMA WorkerGauge ==
    ASSUME Shape, OnePlace, QueuedGaugeExact, NEW w \in Worker, WorkerStep(w)
    PROVE  QueuedGaugeExact'
<1> USE QueuedTerms
<1>1. CASE Receive(w)
  <2>1. Queued' = Queued + 0 /\ Waiting' = Waiting + 0
    BY <1>1 DEF Receive, trackVars, Queued, Waiting, In
  <2>2. Fetched' = Fetched + 1
    BY <1>1, FetchedChanges DEF Receive
  <2>3. Buffered' = Buffered + (-1)
    BY <1>1, ChannelReceive DEF Receive, Shape, TypeOK, Buffered
  <2>. QED BY <2>1, <2>2, <2>3, GaugeKept
<1>2. CASE RegisterTaskStart(w)
  <2>1. Queued' = Queued + (-1)
    BY <1>2, TrackerCounts DEF Shape, TypeOK, Queued
  <2>2. Fetched' = Fetched + (-1)
    BY <1>2, FetchedChanges DEF RegisterTaskStart
  <2>3. Buffered' = Buffered + 0 /\ Waiting' = Waiting + 0
    BY <1>2 DEF RegisterTaskStart, Buffered, Waiting, In
  <2>. QED BY <2>1, <2>2, <2>3, GaugeKept
<1>3. ASSUME WorkerStep(w), ~Receive(w), ~RegisterTaskStart(w)
      PROVE  QueuedGaugeExact'
  <2>1. Queued' = Queued /\ Buffered' = Buffered
    <3>1. Buffered' = Buffered
      BY <1>3 DEF WorkerStep, CountProcessing, Execute, SendResult, DropResult, SendRecovered,
                  SendError, ErrorPanic, Panic, Leave, Buffered
    <3>2. CASE CountProcessing(w)
      BY <3>1, <3>2, TrackerCounts DEF Shape, TypeOK, Queued
    <3>3. CASE ~CountProcessing(w)
      BY <1>3, <3>1, <3>3
         DEF WorkerStep, Execute, SendResult, DropResult, SendRecovered, SendError,
             ErrorPanic, Panic, Leave, trackVars, Queued
    <3>. QED BY <3>2, <3>3
  <2>2. Fetched' = Fetched
    <3>1. CASE ErrorPanic(w)
      BY <3>1 DEF ErrorPanic, Panic, workerVars, Fetched, At
    <3>2. CASE ~ErrorPanic(w)
      <4>1. \E from, to \in WorkState \ {"received"} : Move(w, from, to)
        BY <1>3, <3>2 DEF WorkerStep, CountProcessing, Execute, SendResult, DropResult,
                          SendRecovered, SendError, Leave, WorkState, HoldsTask
      <4>. QED BY <4>1, FetchedChanges
    <3>. QED BY <3>1, <3>2
  <2>3. Waiting' = Waiting
    <3>1. CASE sub' = sub
      BY <3>1 DEF Waiting, In
    <3>2. CASE sub' # sub
      <4>1. /\ wpc[w] \in HoldsTask
            /\ \E st \in SubState \ {"sending"} : sub' = [sub EXCEPT ![wjob[w]] = st]
        BY <1>3, <3>2 DEF WorkerStep, CountProcessing, Execute, SendResult, DropResult,
                          SendRecovered, SendError, ErrorPanic, Panic, Leave, Finish, Move,
                          SubState, HoldsTask
      <4>2. wjob[w] \in Submission /\ sub[wjob[w]] # "sending"
        BY <4>1, HeldTypes DEF Shape, InHand, OnePlace, HeldIsAccepted
      <4>. QED BY <4>1, <4>2, SubmissionMoves, WaitingChanges
    <3>. QED BY <3>1, <3>2
  <2>. QED BY <2>1, <2>2, <2>3, SameGauge
<1>. QED BY <1>1, <1>2, <1>3

LEMMA GaugeStep ==
    Shape /\ OnePlace /\ QueuedGaugeExact /\ [Next]_vars => QueuedGaugeExact'
<1> SUFFICES ASSUME Shape, OnePlace, QueuedGaugeExact, [Next]_vars PROVE QueuedGaugeExact'
  OBVIOUS
<1>1. CASE ForwardStep \/ TakeResult
  <2>1. Queued' = Queued
    <3>1. CASE TrackTaskCompletion \/ CountCompleted
      BY <3>1, TrackerCounts DEF Shape, TypeOK, Queued
    <3>2. CASE ~(TrackTaskCompletion \/ CountCompleted)
      BY <1>1, <3>2 DEF ForwardStep, ForwardReceive, Forward, ForwardPanic, Panic,
                        ForwardLeave, TakeResult, Queued, trackVars
    <3>. QED BY <3>1, <3>2
  <2>2. UNCHANGED <<taskQueue, sub, wpc>>
    BY <1>1 DEF ForwardStep, ForwardReceive, TrackTaskCompletion, CountCompleted, Forward,
                ForwardPanic, Panic, ForwardLeave, TakeResult, workerVars
  <2>. QED BY <2>1, <2>2, SameGauge DEF Buffered, Waiting, Fetched, In, At
<1>2. CASE Start
  <2>1. At({"received"}) = {} /\ At({"received"})' = {}
    BY <1>2 DEF Start, Shape, NotYetStarted, At
  <2>2. UNCHANGED <<metrics, taskQueue, sub>>
    BY <1>2 DEF Start, trackVars
  <2>. QED BY <2>1, <2>2, SameGauge DEF Queued, Buffered, Waiting, Fetched, In
<1>3. CASE CancelContext \/ StopBegin \/ StopStep \/ UNCHANGED vars
  <2>1. UNCHANGED <<metrics, taskQueue, sub, wpc>>
    BY <1>3 DEF CancelContext, StopBegin, StopStep, StopWait, Close, vars, trackVars, workerVars
  <2>. QED BY <2>1, SameGauge DEF Queued, Buffered, Waiting, Fetched, In, At
<1>. QED BY <1>1, <1>2, <1>3, SubmitGauge, WorkerGauge DEF Next

\* tasksQueued is exact in every state: the submitters count before they send, the
\* worker that registers a task or the submitter that withdraws it uncounts it.
THEOREM QueuedAlwaysExact == Spec => []QueuedGaugeExact
<1>1. Init => QueuedGaugeExact
  <2> SUFFICES ASSUME Init PROVE QueuedGaugeExact
    OBVIOUS
  <2>1. In({"sending"}) = {} /\ At({"received"}) = {} /\ Len(taskQueue) = 0
    BY DEF Init, In, At
  <2>2. Cardinality(In({"sending"})) = 0 /\ Cardinality(At({"received"})) = 0
    BY <2>1, FS_EmptySet
  <2>3. metrics.tasksQueued = 0
    BY DEF Init
  <2>. QED BY <2>1, <2>2, <2>3 DEF QueuedGaugeExact
<1>. QED
  BY <1>1, ShapeInit, ShapeStep, PlacesInit, PlacesStep, GaugeStep, PTL DEF Spec

-----------------------------------------------------------------------------
(* The counters of started submissions.                                    *)

StartedSet == {s \in Submission : Started(s)}
Counted    == metrics.tasksProcessing + metrics.tasksCompleted
                 + (IF fpc = "completing" THEN 1 ELSE 0)

LEMMA CountedMeans == StartsConserved <=> Counted = Cardinality(StartedSet)
BY DEF StartsConserved, Counted, StartedSet

\* A submission that only some v other than w holds has started before as after.
LEMMA OthersStarted ==
    ASSUME Shape, NEW w \in Worker, NEW s \in Submission, sub'[s] = sub[s],
           \A v \in Worker : v # w => wpc'[v] = wpc[v] /\ wjob'[v] = wjob[v],
           wjob[w] # s \/ wpc[w] \in {"select", "received", "registering"},
           wjob'[w] # s \/ wpc'[w] \in {"select", "received", "registering"}
    PROVE  Started(s)' <=> Started(s)
BY DEF Started

LEMMA FinishStarted ==
    ASSUME Shape, NEW w \in Worker, NEW from \in {"succeeded", "failing"},
           NEW st \in {"sent", "dropped", "discarded", "failed"},
           Move(w, from, "select"), Finish(w, st)
    PROVE  StartedSet' = StartedSet
<1>1. wpc[w] = from /\ wjob[w] \in Submission
  BY DEF Move, Shape, TypeOK, InHand, HoldsTask
<1>2. /\ \A v \in Worker : v # w => wpc'[v] = wpc[v] /\ wjob'[v] = wjob[v]
      /\ wpc'[w] = "select"
      /\ sub'[wjob[w]] = st /\ \A s \in Submission : s # wjob[w] => sub'[s] = sub[s]
  BY <1>1 DEF Move, Finish, Shape, TypeOK
<1>3. Started(wjob[w]) /\ \A s \in Submission : s = wjob[w] => Started(s)'
  BY <1>1, <1>2 DEF Started
<1>4. \A s \in Submission : s # wjob[w] => (Started(s)' <=> Started(s))
  BY <1>2, OthersStarted
<1>. QED BY <1>3, <1>4 DEF StartedSet

\* Only this makes a submission started.
LEMMA CountStarted ==
    ASSUME Shape, OnePlace, NEW w \in Worker, CountProcessing(w)
    PROVE  /\ wjob[w] \in Submission \ StartedSet
           /\ StartedSet' = StartedSet \cup {wjob[w]}
<1>1. wpc[w] = "registering" /\ wjob[w] \in Submission /\ wjob[w] # NoSub
  BY ConstantTypes DEF CountProcessing, Move, Shape, TypeOK, InHand, HoldsTask
<1>2. /\ sub' = sub /\ wjob' = wjob /\ wpc'[w] = "executing"
      /\ \A v \in Worker : v # w => wpc'[v] = wpc[v] /\ wjob'[v] = wjob[v]
  BY DEF CountProcessing, Move, Shape, TypeOK
<1>3. ~Started(wjob[w])
  BY <1>1 DEF Started, OnePlace, HeldIsAccepted
<1>4. \A s \in Submission : s = wjob[w] => Started(s)'
  BY <1>2 DEF Started
<1>5. \A s \in Submission : s # wjob[w] => (Started(s)' <=> Started(s))
  BY <1>2, OthersStarted
<1>. QED BY <1>1, <1>3, <1>4, <1>5 DEF StartedSet

\* Every other step of a worker starts nothing and forgets nothing.
LEMMA WorkerStarted ==
    ASSUME Shape, NEW w \in Worker, WorkerStep(w), ~CountProcessing(w)
    PROVE  StartedSet' = StartedSet
<1>1. CASE Receive(w)
  <2>1. /\ sub' = sub /\ wpc[w] = "select" /\ wpc'[w] = "received"
        /\ \A v \in Worker : v # w => wpc'[v] = wpc[v]
    BY <1>1 DEF Receive, Move, Shape, TypeOK
  <2>2. \A v \in Worker : v # w => wjob'[v] = wjob[v]
    BY <1>1 DEF Receive, Shape, TypeOK
  <2>. QED BY <2>1, <2>2, OthersStarted DEF StartedSet
<1>9. CASE RegisterTaskStart(w)
  <2>1. /\ sub' = sub /\ wjob' = wjob /\ wpc[w] = "received" /\ wpc'[w] = "registering"
        /\ \A v \in Worker : v # w => wpc'[v] = wpc[v]
    BY <1>9 DEF RegisterTaskStart, Move, Shape, TypeOK
  <2>. QED BY <2>1, OthersStarted DEF StartedSet
<1>2. CASE Execute(w)
  <2>1. /\ sub' = sub /\ wjob' = wjob /\ wpc[w] = "executing"
        /\ wpc'[w] \in {"succeeded", "failing"}
        /\ \A v \in Worker : v # w => wpc'[v] = wpc[v]
    BY <1>2 DEF Execute, Move, Shape, TypeOK
  <2>. QED BY <2>1 DEF StartedSet, Started
<1>3. CASE SendResult(w)
  BY <1>3, FinishStarted DEF SendResult
<1>4. CASE DropResult(w)
  BY <1>4, FinishStarted DEF DropResult
<1>5. CASE SendRecovered(w)
  <2>1. wpc[w] = "succeeded" /\ wjob[w] \in Submission
    BY <1>5 DEF SendRecovered, Move, Shape, TypeOK, InHand, HoldsTask
  <2>2. /\ wjob' = wjob /\ wpc'[w] = "failing"
        /\ \A v \in Worker : v # w => wpc'[v] = wpc[v]
        /\ \A s \in Submission : s # wjob[w] => sub'[s] = sub[s]
    BY <1>5 DEF SendRecovered, Move, Shape, TypeOK
  <2>3. Started(wjob[w]) /\ \A s \in Submission : s = wjob[w] => Started(s)'
    BY <2>1, <2>2 DEF Started
  <2>4. \A s \in Submission : s # wjob[w] => (Started(s)' <=> Started(s))
    BY <2>2, OthersStarted
  <2>. QED BY <2>3, <2>4 DEF StartedSet
<1>6. CASE SendError(w)
  BY <1>6, FinishStarted DEF SendError
<1>7. CASE ErrorPanic(w)
  BY <1>7 DEF ErrorPanic, Panic, workerVars, StartedSet, Started
<1>8. CASE Leave(w)
  <2>1. wjob[w] = NoSub /\ wjob' = wjob /\ sub' = sub
    BY <1>8 DEF Leave, Move, Shape, InHand, HoldsTask
  <2>2. \A v \in Worker : v # w => wpc'[v] = wpc[v]
    BY <1>8 DEF Leave, Move, Shape, TypeOK
  <2>. QED BY <2>1, <2>2, OthersStarted, ConstantTypes DEF StartedSet
<1>. QED BY <1>1, <1>2, <1>3, <1>4, <1>5, <1>6, <1>7, <1>8, <1>9 DEF WorkerStep

LEMMA SubmitStarted ==
    ASSUME Shape, OnePlace, NEW s \in Submission, SubmitTask(s) \/ SubmitStep(s)
    PROVE  StartedSet' = StartedSet
<1>1. UNCHANGED <<wpc, wjob>>
  BY DEF SubmitTask, SubmitStep, SubmitSend, SubmitPanic, Panic, SubmitWithdraw, workerVars
<1>2. /\ sub[s] \in {"idle", "sending"}
      /\ sub'[s] \in {"sending", "refused", "accepted", "withdrawn"}
      /\ \A r \in Submission : r # s => sub'[r] = sub[r]
  BY DEF SubmitTask, SubmitStep, SubmitSend, SubmitPanic, Panic, SubmitWithdraw, Shape, TypeOK
<1>3. \A w \in Worker : wjob[w] # s
  BY <1>2, StillTheSubmitters
<1>. QED BY <1>1, <1>2, <1>3 DEF StartedSet, Started

LEMMA StartedStep ==
    Shape /\ OnePlace /\ StartsConserved /\ [Next]_vars => StartsConserved'
<1> SUFFICES ASSUME Shape, OnePlace, StartsConserved, [Next]_vars
             PROVE  StartsConserved'
  OBVIOUS
<1>m. metrics \in PoolMetrics
  BY DEF Shape, TypeOK
<1>0. ASSUME StartedSet' = StartedSet, Counted' = Counted PROVE StartsConserved'
  BY <1>0 DEF StartsConserved, StartedSet, Counted
<1>1. ASSUME NEW s \in Submission, SubmitTask(s) \/ SubmitStep(s) PROVE StartsConserved'
  <2>1. metrics' = metrics \/ \E n \in Int : metrics' = [metrics EXCEPT !.tasksQueued = n]
    BY <1>1, <1>m DEF SubmitTask, SubmitStep, SubmitSend, SubmitPanic, Panic, SubmitWithdraw,
                      trackVars, PoolMetrics
  <2>2. /\ metrics'.tasksProcessing = metrics.tasksProcessing
        /\ metrics'.tasksCompleted = metrics.tasksCompleted
    BY <2>1, <1>m DEF PoolMetrics
  <2>3. fpc' = fpc
    BY <1>1 DEF SubmitTask, SubmitStep, SubmitSend, SubmitPanic, Panic, SubmitWithdraw, fwdVars
  <2>4. Counted' = Counted
    BY <2>2, <2>3 DEF Counted
  <2>. QED BY <1>0, <1>1, <2>4, SubmitStarted
<1>2. ASSUME NEW w \in Worker, CountProcessing(w) PROVE StartsConserved'
  <2>1. /\ metrics.tasksProcessing \in Int /\ metrics.tasksCompleted \in Int
        /\ metrics'.tasksProcessing = metrics.tasksProcessing + 1
        /\ metrics'.tasksCompleted = metrics.tasksCompleted /\ fpc' = fpc
    BY <1>2, <1>m, TrackerCounts DEF CountProcessing, fwdVars
  <2>2. Counted \in Int /\ Counted' = Counted + 1
    BY <2>1 DEF Counted
  <2>3. IsFiniteSet(StartedSet)
    BY FS_Subset, ConstantTypes DEF StartedSet
  <2>4. Cardinality(StartedSet') = Cardinality(StartedSet) + 1
    BY <1>2, <2>3, CountStarted, FS_AddElement
  <2>. QED BY <2>2, <2>4 DEF StartsConserved, Counted, StartedSet
<1>3. ASSUME NEW w \in Worker, WorkerStep(w), ~CountProcessing(w)
      PROVE  StartsConserved'
  <2>1. fpc' = fpc
    BY <1>3 DEF WorkerStep, Receive, RegisterTaskStart, Execute, SendResult, DropResult,
                SendRecovered, SendError, ErrorPanic, Panic, Leave, fwdVars
  <2>2. /\ metrics'.tasksProcessing = metrics.tasksProcessing
        /\ metrics'.tasksCompleted = metrics.tasksCompleted
    <3>1. CASE RegisterTaskStart(w)
      BY <1>m, <3>1, TrackerCounts
    <3>2. CASE ~RegisterTaskStart(w)
      BY <1>3, <3>2
         DEF WorkerStep, Receive, Execute, SendResult, DropResult, SendRecovered, SendError,
             ErrorPanic, Panic, Leave, trackVars
    <3>. QED BY <3>1, <3>2
  <2>3. Counted' = Counted
    BY <2>1, <2>2 DEF Counted
  <2>. QED BY <1>0, <1>3, <2>3, WorkerStarted
<1>4. CASE ForwardStep \/ TakeResult
  <2>1. UNCHANGED <<sub, wpc, wjob>>
    BY <1>4 DEF ForwardStep, ForwardReceive, TrackTaskCompletion, CountCompleted, Forward,
                ForwardPanic, Panic, ForwardLeave, TakeResult, workerVars
  <2>2. Counted' = Counted
    <3>0. metrics.tasksProcessing \in Int /\ metrics.tasksCompleted \in Int
      BY <1>m, TrackerCounts
    <3>1. CASE TrackTaskCompletion
      <4>1. /\ fpc = "tracking"
            /\ metrics'.tasksCompleted = metrics.tasksCompleted
            /\ \/ /\ fpc' = "completing"
                  /\ metrics'.tasksProcessing = metrics.tasksProcessing - 1
               \/ /\ fpc' = "forwarding"
                  /\ metrics'.tasksProcessing = metrics.tasksProcessing
        BY <3>1, <1>m, TrackerCounts DEF TrackTaskCompletion
      <4>. QED BY <3>0, <4>1 DEF Counted
    <3>2. CASE CountCompleted
      <4>1. /\ fpc = "completing" /\ fpc' = "forwarding"
            /\ metrics'.tasksProcessing = metrics.tasksProcessing
            /\ metrics'.tasksCompleted = metrics.tasksCompleted + 1
        BY <3>2, <1>m, TrackerCounts DEF CountCompleted
      <4>. QED BY <3>0, <4>1 DEF Counted
    <3>3. CASE ~(TrackTaskCompletion \/ CountCompleted)
      BY <1>4, <3>3 DEF ForwardStep, ForwardReceive, Forward, ForwardPanic, Panic,
                        ForwardLeave, TakeResult, trackVars, fwdVars, Counted
    <3>. QED BY <3>1, <3>2, <3>3
  <2>. QED BY <1>0, <2>1, <2>2 DEF StartedSet, Started
<1>5. CASE Start
  <2>1. \A w \in Worker : wjob[w] = NoSub
    BY <1>5 DEF Start, Shape, InHand, NotYetStarted, HoldsTask
  <2>2. /\ UNCHANGED <<sub, wjob, metrics>>
        /\ fpc = "unborn" /\ fpc' = "select"
    BY <1>5 DEF Start, trackVars, Shape, NotYetStarted
  <2>3. StartedSet' = StartedSet
    BY <2>1, <2>2, ConstantTypes DEF StartedSet, Started
  <2>. QED BY <1>0, <2>2, <2>3 DEF Counted
<1>6. CASE CancelContext \/ StopBegin \/ StopStep \/ UNCHANGED vars
  <2>1. UNCHANGED <<sub, wpc, wjob, metrics, fpc>>
    BY <1>6 DEF CancelContext, StopBegin, StopStep, StopWait, Close, vars, trackVars,
                workerVars, fwdVars
  <2>. QED BY <1>0, <2>1 DEF StartedSet, Started, Counted
<1>. QED BY <1>1, <1>2, <1>3, <1>4, <1>5, <1>6 DEF Next

\* Whatever the workers, the forwarder and a reader of the snapshot interleave, each
\* start is counted once, in tasksProcessing or in tasksCompleted, but for the one
\* completion the forwarder has taken out of the first and not yet put into the second.
THEOREM StartedAlwaysCounted == Spec => []StartsConserved
<1>1. Init => StartsConserved
  <2> SUFFICES ASSUME Init PROVE StartsConserved
    OBVIOUS
  <2>1. StartedSet = {}
    BY ConstantTypes DEF Init, StartedSet, Started
  <2>2. Cardinality(StartedSet) = 0
    BY <2>1, FS_EmptySet
  <2>3. metrics.tasksProcessing = 0 /\ metrics.tasksCompleted = 0 /\ fpc = "unborn"
    BY DEF Init
  <2>. QED BY <2>2, <2>3, CountedMeans DEF Counted
<1>. QED
  BY <1>1, ShapeInit, ShapeStep, PlacesInit, PlacesStep, StartedStep, PTL DEF Spec
=============================================================================
