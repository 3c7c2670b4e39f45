-------------------------- MODULE CrawlCommandProofs --------------------------
(***************************************************************************)
(* Theorems about CrawlCommand, for every size of the request, the pipes,  *)
(* the limits and the child's output.                                      *)
(***************************************************************************)
EXTENDS CrawlCommand, TLAPS

Outcome == {"none", "stdin", "stdout_limit", "stderr_limit", "ok", "protocol", "exit", "timeout"}

Shape ==
    /\ result \in Outcome
    /\ plan \in [request : Nat, output : [Stream -> Nat], keeps : SUBSET Pipe, stalls : BOOLEAN]
    /\ listening \in BOOLEAN
    /\ fed \in Nat /\ inbox \in Nat
    /\ written \in [Stream -> Nat] /\ piped \in [Stream -> Nat] /\ taken \in [Stream -> Nat]
    /\ open \in [Stream -> BOOLEAN]

(* A reader stops exactly one unit past its limit, and everything it took  *)
(* was written; a child that succeeded wrote all it meant to, one that     *)
(* stalls meant to, and nothing is returned before the run is over.        *)
CommandInv ==
    /\ Shape
    /\ CommandTypeOK
    /\ \A s \in Stream :
          /\ open[s] <=> taken[s] <= Limit[s]
          /\ taken[s] <= written[s]
          /\ written[s] <= plan.output[s]
    /\ child = "success" => written = plan.output
    /\ child = "stalled" => plan.stalls
    /\ phase # "done" => result = "none"

Correct == LimitsAreExact /\ OnlyStallsTimeOut

(* Both limits are positive (CrawlCommandConfig). *)
LEMMA LimitType == \A s \in Stream : Limit[s] \in Nat \ {0}
BY CommandAssumption DEF Limit, Stream

(* A spawned child with empty pipes satisfies the invariant. *)
LEMMA InitCommand == Init => CommandInv /\ Correct
<1> SUFFICES ASSUME Init PROVE CommandInv /\ Correct
    OBVIOUS
<1>1. Shape
    BY DEF Init, Shape, Outcome
<1>2. CommandTypeOK
    BY <1>1, LimitType, CommandAssumption DEF Init, CommandTypeOK
<1> QED
    BY <1>1, <1>2, LimitType
    DEF Init, CommandInv, Correct, LimitsAreExact, OnlyStallsTimeOut

(* The child's own moves.  None of them ends the run. *)
LEMMA ChildStep ==
    ASSUME CommandInv, phase # "done",
           ChildMoves \/ ChildReads \/ ChildStopsListening \/ ChildCrashes \/ ChildStalls
    PROVE  CommandInv' /\ phase' = phase /\ result' = result
<1> USE LimitType, CommandAssumption DEF CommandInv, Shape, CommandTypeOK, workerVars
<1>1. CASE ChildReads
    BY <1>1 DEF ChildReads
<1>2. ASSUME NEW s \in Stream, ChildWrites(s)
      PROVE  CommandInv' /\ phase' = phase /\ result' = result
    BY <1>2 DEF ChildWrites
<1>3. ASSUME NEW s \in Stream, ChildBreaks(s)
      PROVE  CommandInv' /\ phase' = phase /\ result' = result
    BY <1>3 DEF ChildBreaks
<1>4. CASE ChildExits
    BY <1>4 DEF ChildExits
<1>5. CASE ChildCrashes \/ ChildStalls
    BY <1>5 DEF ChildCrashes, ChildStalls
<1>6. CASE ChildStopsListening
    BY <1>6 DEF ChildStopsListening
<1> QED
    BY <1>1, <1>2, <1>3, <1>4, <1>5, <1>6 DEF ChildMoves

(* The worker's moves short of a return. *)
LEMMA WorkerStep ==
    ASSUME CommandInv, WriteRequest \/ CloseRequest \/ \E s \in Stream : Drain(s)
    PROVE  CommandInv' /\ phase' # "done" /\ result' = result
<1> USE LimitType, CommandAssumption DEF CommandInv, Shape, CommandTypeOK
<1>1. CASE WriteRequest
    BY <1>1 DEF WriteRequest, Listened
<1>2. CASE CloseRequest
    BY <1>2 DEF CloseRequest, childVars
<1>3. ASSUME NEW s \in Stream, Drain(s)
      PROVE  CommandInv' /\ phase' # "done" /\ result' = result
    <2>1. /\ open[s] /\ piped[s] \in 1 .. PipeSize /\ taken[s] \in 0 .. Limit[s]
          /\ written[s] = taken[s] + piped[s]
        BY <1>3 DEF Drain, Readable
    <2>2. /\ taken'[s] = taken[s] + 1 /\ piped'[s] = piped[s] - 1
          /\ open'[s] <=> taken[s] + 1 # Limit[s] + 1
        BY <1>3, ZenonT(40) DEF Drain, Filled
    <2>3. \A r \in Stream \ {s} : taken'[r] = taken[r] /\ piped'[r] = piped[r] /\ open'[r] = open[r]
        BY <1>3 DEF Drain
    <2>4. /\ phase' = "collect" /\ phase = "collect" /\ fed' = fed
          /\ UNCHANGED <<result, plan, child, listening, inbox, written>>
        BY <1>3 DEF Drain, childVars
    <2>5. Shape'
        <3>1. taken' \in [Stream -> Nat] /\ piped' \in [Stream -> Nat] /\ open' \in [Stream -> BOOLEAN]
            BY <1>3, <2>1, <2>2, <2>3 DEF Drain
        <3> QED
            BY <2>4, <3>1
    <2>6. \A r \in Stream :
            /\ piped'[r] \in 0 .. PipeSize /\ taken'[r] \in 0 .. (Limit[r] + 1)
            /\ open'[r] => written[r] = taken'[r] + piped'[r]
            /\ open'[r] <=> taken'[r] <= Limit[r]
            /\ taken'[r] <= written[r]
        <3> SUFFICES ASSUME NEW r \in Stream
                     PROVE  /\ piped'[r] \in 0 .. PipeSize /\ taken'[r] \in 0 .. (Limit[r] + 1)
                            /\ open'[r] => written[r] = taken'[r] + piped'[r]
                            /\ open'[r] <=> taken'[r] <= Limit[r]
                            /\ taken'[r] <= written[r]
            OBVIOUS
        <3>1. CASE r = s
            BY <2>1, <2>2, <3>1
        <3>2. CASE r # s
            BY <2>3, <3>2
        <3> QED
            BY <3>1, <3>2
    <2> QED
        BY <2>4, <2>5, <2>6
<1> QED
    BY <1>1, <1>2, <1>3

(* Returning keeps the books. *)
LEMMA ReturnStep ==
    ASSUME CommandInv, NEW code \in Outcome, Return(code)
    PROVE  CommandInv' /\ phase' = "done" /\ result' = code
BY DEF Return, Alive, CommandInv, Shape, CommandTypeOK

(* A stream whose limit was not exceeded is still open; once it has ended  *)
(* the worker has read all that was written.                               *)
LEMMA WholeStreamRead ==
    ASSUME CommandInv, Collected, NEW s \in Stream, ~Exceeded(s)
    PROVE  taken[s] = written[s] /\ taken[s] <= Limit[s]
BY LimitType DEF CommandInv, Shape, CommandTypeOK, Collected, Ended, Exceeded

(* The deadline strikes only a child that stalls or an output that is kept *)
(* open: a running child can write or waits for a full pipe that the       *)
(* worker reads, and what an ended child left in a pipe can be read.       *)
LEMMA DeadlockFree ==
    ASSUME CommandInv, phase = "collect", ~Collected, child # "stalled",
           \A s \in Stream \cap plan.keeps : Exceeded(s)
    PROVE  WorkerCanMove \/ ChildCanMove
<1>1. CASE child = "running"
    <2>1. CASE written = plan.output
        BY <1>1, <2>1 DEF ChildCanMove
    <2>2. CASE written # plan.output
        <3>1. PICK s \in Stream : written[s] # plan.output[s]
            BY <2>2 DEF CommandInv, Shape
        <3>2. written[s] < plan.output[s]
            BY <3>1 DEF CommandInv, Shape
        <3>3. CASE open[s] => piped[s] < PipeSize
            BY <1>1, <3>2, <3>3 DEF ChildCanMove
        <3>4. CASE open[s] /\ ~(piped[s] < PipeSize)
            BY <3>4, CommandAssumption DEF CommandInv, Shape, WorkerCanMove, Readable
        <3> QED
            BY <3>3, <3>4
    <2> QED
        BY <2>1, <2>2
<1>2. CASE ~Alive
    <2>1. PICK s \in Stream : ~Ended(s)
        BY <1>2 DEF Collected
    <2>2. open[s] /\ ~Exceeded(s)
        BY <2>1, LimitType DEF Ended, Exceeded, CommandInv, Shape
    <2>3. piped[s] # 0
        BY <1>2, <2>1, <2>2 DEF Ended
    <2> QED
        BY <2>2, <2>3 DEF WorkerCanMove, Readable, CommandInv, Shape
<1> QED
    BY <1>1, <1>2 DEF Alive

(* The runs that end. *)
LEMMA EndStep ==
    ASSUME CommandInv, WriteFails \/ Conclude \/ Timeout
    PROVE  CommandInv' /\ Correct'
<1>1. CASE WriteFails
    <2>1. CommandInv' /\ result' = "stdin"
        BY <1>1, ReturnStep DEF WriteFails, Outcome
    <2> QED
        BY <2>1 DEF Correct, LimitsAreExact, OnlyStallsTimeOut
<1>2. CASE Timeout
    <2>1. CommandInv' /\ result' = "timeout"
        BY <1>2, ReturnStep DEF Timeout, Outcome
    <2>2. plan.stalls \/ \E s \in Stream \cap plan.keeps : ~Exceeded(s)
        BY <1>2, DeadlockFree DEF Timeout, CommandInv
    <2>3. plan' = plan /\ taken' = taken
        BY <1>2 DEF Timeout, Return
    <2> QED
        BY <2>1, <2>2, <2>3 DEF Correct, LimitsAreExact, OnlyStallsTimeOut, Exceeded
<1>3. CASE Conclude
    <2>1. PICK code \in Outcome : Return(code)
        BY <1>3 DEF Conclude, Outcome
    <2>2. CommandInv' /\ result' = code
        BY <2>1, ReturnStep
    <2>3. code # "timeout"
        BY <1>3, <2>1 DEF Conclude, Return
    <2>4. plan' = plan /\ taken' = taken /\ written' = written /\ child' = child
        BY <1>3, <2>1 DEF Conclude, Collected, Return
    <2>5. \A s \in Stream : Exceeded(s) => plan.output[s] > Limit[s]
        BY LimitType DEF Exceeded, CommandInv, Shape
    <2>6. /\ code = "stdout_limit" => Exceeded("stdout")
          /\ code = "stderr_limit" => Exceeded("stderr")
          /\ code = "ok" => child = "success"
          /\ code \in {"ok", "exit"} => \A s \in Stream : ~Exceeded(s)
        BY <1>3, <2>1 DEF Conclude, Return
    <2>7. code = "ok" => \A s \in Stream : plan.output[s] = taken[s] /\ plan.output[s] <= Limit[s]
        BY <1>3, <2>6, WholeStreamRead DEF Conclude, CommandInv
    <2>8. code = "exit" => \A s \in Stream : written[s] = taken[s] /\ written[s] <= Limit[s]
        BY <1>3, <2>6, WholeStreamRead DEF Conclude
    <2>9. LimitsAreExact'
        BY <2>2, <2>4, <2>5, <2>6, <2>7, <2>8 DEF LimitsAreExact, Stream, Limit
    <2> QED
        BY <2>2, <2>3, <2>9 DEF Correct, OnlyStallsTimeOut
<1> QED
    BY <1>1, <1>2, <1>3

(* An unfinished run has returned nothing that could be wrong. *)
LEMMA UnfinishedIsCorrect ==
    ASSUME phase' # "done", result' = "none" PROVE Correct'
BY DEF Correct, LimitsAreExact, OnlyStallsTimeOut

(* Every step of worker or child keeps the invariant and the verdicts. *)
LEMMA NextCommand ==
    ASSUME CommandInv, Correct, [Next]_vars PROVE CommandInv' /\ Correct'
<1>1. CASE UNCHANGED vars
    BY <1>1 DEF vars, CommandInv, Shape, CommandTypeOK, Correct, LimitsAreExact,
                OnlyStallsTimeOut, Exceeded
<1>2. CASE Next
    <2>1. phase # "done" /\ result = "none"
        BY <1>2 DEF Next, CommandInv
    <2>2. CASE ChildMoves \/ ChildReads \/ ChildStopsListening \/ ChildCrashes \/ ChildStalls
        BY <2>1, <2>2, ChildStep, UnfinishedIsCorrect
    <2>3. CASE WriteRequest \/ CloseRequest \/ \E s \in Stream : Drain(s)
        BY <2>1, <2>3, WorkerStep, UnfinishedIsCorrect
    <2>4. CASE WriteFails \/ Conclude \/ Timeout
        BY <2>4, EndStep
    <2> QED
        BY <1>2, <2>2, <2>3, <2>4 DEF Next, WorkerMoves
<1> QED
    BY <1>1, <1>2

(* The books of the pipes balance and every run is judged rightly: by      *)
(* induction, whatever the child does.                                     *)
THEOREM CommandInvariance == Spec => [](CommandInv /\ Correct)
<1>1. Init => CommandInv /\ Correct
    BY InitCommand
<1>2. (CommandInv /\ Correct) /\ [Next]_vars => (CommandInv /\ Correct)'
    BY NextCommand
<1> QED
    BY <1>1, <1>2, PTL DEF Spec

(* No pipe is overfilled, and nothing the child writes to a stream that    *)
(* the worker reads is lost (read_limited).                                *)
THEOREM CommandTypeCorrect == Spec => []CommandTypeOK
<1>1. CommandInv => CommandTypeOK
    BY DEF CommandInv
<1> QED
    BY <1>1, CommandInvariance, PTL

(* A result is accepted only whole, and a limit blamed only if it was      *)
(* passed (read_limited and the exceeded checks).                          *)
THEOREM LimitsHoldExactly == Spec => []LimitsAreExact
<1>1. Correct => LimitsAreExact
    BY DEF Correct
<1> QED
    BY <1>1, CommandInvariance, PTL

(* Worker and child never wait for each other: only a child that stalls    *)
(* by itself is timed out, or one whose descendants keep open an output    *)
(* that was left within its limit (the join of both reads and the wait).   *)
THEOREM TimeoutsAreStalls == Spec => []OnlyStallsTimeOut
<1>1. Correct => OnlyStallsTimeOut
    BY DEF Correct
<1> QED
    BY <1>1, CommandInvariance, PTL
=============================================================================
