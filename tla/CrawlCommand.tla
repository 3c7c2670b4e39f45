---------------------------- MODULE CrawlCommand ----------------------------
(***************************************************************************)
(* One run of the crawl command (src/runtime-worker/src/runner.rs): the    *)
(* worker, the child it spawns, and the three pipes between them.          *)
(*                                                                         *)
(* The worker writes the request to the child's stdin, closes it, and then *)
(* under one deadline reads stdout and stderr and waits for the child, all *)
(* three at once.  A reader stops one unit past its limit and closes its   *)
(* end.  A unit stands for any number of bytes.                            *)
(*                                                                         *)
(* Time passes only when nobody can move: the deadline strikes a child     *)
(* that has stalled, a worker and child that wait for each other, or       *)
(* pipes that descendants keep open.  A child merely slower than the       *)
(* deadline is a stalled one.                                              *)
(***************************************************************************)
EXTENDS Integers

CONSTANTS
    MaxRequest,     \* bound: the encoded request and its newline
    PipeSize,       \* what a pipe holds before its writer blocks
    StdoutLimit,    \* crawl_stdout_limit_bytes
    StderrLimit,    \* crawl_stderr_limit_bytes
    MaxOutput       \* bound: what a child writes to one stream

ASSUMPTION CommandAssumption ==
    /\ {MaxRequest, PipeSize, StdoutLimit, StderrLimit} \subseteq Nat \ {0}
    /\ MaxOutput \in Nat

Stream == {"stdout", "stderr"}
Pipe == Stream \cup {"stdin"}
Limit == [s \in Stream |-> IF s = "stdout" THEN StdoutLimit ELSE StderrLimit]

VARIABLES
    phase,      \* of the worker: "write", "collect", "done"
    result,     \* what run_crawl_command returned
    plan,       \* the size of the request, what the child will write in all, the
                \* pipes its descendants keep open after it, whether it stalls
    child,      \* "running", "stalled", or how it ended
    listening,  \* the child holds its stdin open
    fed,        \* request written so far
    inbox,      \* ... and not read yet
    written,    \* by the child, per stream
    piped,      \* ... and not read yet
    taken,      \* read by the worker, per stream
    open        \* the worker holds its end open, per stream

workerVars == <<phase, result, fed, taken, open>>
childVars == <<plan, child, listening, inbox, written>>
vars == <<phase, result, plan, child, listening, fed, inbox, written, piped, taken, open>>

Alive == child \in {"running", "stalled"}

Init ==
    /\ phase = "write" /\ result = "none"
    /\ plan \in [request : 1..MaxRequest, output : [Stream -> 0..MaxOutput],
                keeps : SUBSET Pipe, stalls : BOOLEAN]
    /\ child = "running" /\ listening = TRUE
    /\ fed = 0 /\ inbox = 0
    /\ written = [s \in Stream |-> 0]
    /\ piped = [s \in Stream |-> 0]
    /\ taken = [s \in Stream |-> 0]
    /\ open = [s \in Stream |-> TRUE]

-----------------------------------------------------------------------------
(* The child: it writes in any order and exits once it has written all it  *)
(* means to, unless it crashes or stalls before.  It need not read.        *)

ChildReads ==
    /\ child = "running" /\ inbox > 0
    /\ inbox' = inbox - 1
    /\ UNCHANGED <<workerVars, plan, child, listening, written, piped>>

ChildStopsListening ==
    /\ child = "running" /\ listening
    /\ listening' = FALSE
    /\ UNCHANGED <<workerVars, plan, child, inbox, written, piped>>

ChildWrites(s) ==
    /\ child = "running" /\ written[s] < plan.output[s]
    /\ open[s] /\ piped[s] < PipeSize
    /\ written' = [written EXCEPT ![s] = @ + 1]
    /\ piped' = [piped EXCEPT ![s] = @ + 1]
    /\ UNCHANGED <<workerVars, plan, child, listening, inbox>>

(* Writing to a stream the worker has closed: the child fails, or ignores  *)
(* the error and loses the rest.                                           *)
ChildBreaks(s) ==
    /\ child = "running" /\ written[s] < plan.output[s] /\ ~open[s]
    /\ \/ child' = "failure" /\ UNCHANGED written
       \/ written' = [written EXCEPT ![s] = plan.output[s]] /\ UNCHANGED child
    /\ UNCHANGED <<workerVars, plan, listening, inbox, piped>>

ChildExits ==
    /\ child = "running" /\ written = plan.output
    /\ child' \in {"success", "failure"}
    /\ UNCHANGED <<workerVars, plan, listening, inbox, written, piped>>

ChildMoves ==
    (\E s \in Stream : ChildWrites(s) \/ ChildBreaks(s)) \/ ChildExits

ChildCrashes ==
    /\ child = "running"
    /\ child' = "failure"
    /\ UNCHANGED <<workerVars, plan, listening, inbox, written, piped>>

ChildStalls ==
    /\ child = "running" /\ plan.stalls
    /\ child' = "stalled"
    /\ UNCHANGED <<workerVars, plan, listening, inbox, written, piped>>

ChildCanMove ==
    /\ child = "running"
    /\ \/ \E s \in Stream : written[s] < plan.output[s] /\ (open[s] => piped[s] < PipeSize)
       \/ written = plan.output

-----------------------------------------------------------------------------
(* Returning drops the child, which kill_on_drop kills if it still runs. *)
Return(code) ==
    /\ phase' = "done" /\ result' = code
    /\ child' = IF Alive THEN "killed" ELSE child
    /\ UNCHANGED <<plan, listening, fed, inbox, written, piped, taken, open>>

(* Somebody holds the reading end of the child's stdin. *)
Listened == (Alive /\ listening) \/ "stdin" \in plan.keeps

WriteRequest ==
    /\ phase = "write" /\ fed < plan.request
    /\ Listened /\ inbox < PipeSize
    /\ fed' = fed + 1 /\ inbox' = inbox + 1
    /\ UNCHANGED <<phase, result, plan, child, listening, written, piped, taken, open>>

(* The other end of stdin is gone before the request is written. *)
WriteFails ==
    /\ phase = "write" /\ fed < plan.request
    /\ ~Listened
    /\ Return("stdin")

CloseRequest ==
    /\ phase = "write" /\ fed = plan.request
    /\ phase' = "collect"
    /\ UNCHANGED <<result, childVars, fed, piped, taken, open>>

(* read_limited: both streams are read as output comes, up to limit + 1. *)
Readable_OneByOne(s) ==
    /\ open[s] /\ piped[s] > 0
    /\ s = "stderr" => ~open["stdout"] \/ (piped["stdout"] = 0 /\ ~Alive)
Readable(s) == open[s] /\ piped[s] > 0

Filled_AtLimit(s, n) == n = Limit[s]
Filled(s, n) == n = Limit[s] + 1

Exceeded(s) == taken[s] > Limit[s]

Drain(s) ==
    /\ phase = "collect" /\ Readable(s)
    /\ taken' = [taken EXCEPT ![s] = @ + 1]
    /\ piped' = [piped EXCEPT ![s] = @ - 1]
    /\ open' = [open EXCEPT ![s] = ~Filled(s, taken[s] + 1)]
    /\ UNCHANGED <<phase, result, childVars, fed>>

(* A stream ends when its reader has stopped, or when it is drained and    *)
(* the child and its descendants have closed it.                           *)
Ended(s) == ~open[s] \/ (piped[s] = 0 /\ ~Alive /\ s \notin plan.keeps)

Collected == ~Alive /\ \A s \in Stream : Ended(s)

(* The checks on a collected run, in the code's order; the decoding of the *)
(* envelope and its validation accept what the child wrote or do not.      *)
Conclude ==
    /\ phase = "collect" /\ Collected
    /\ \/ Exceeded("stdout") /\ Return("stdout_limit")
       \/ ~Exceeded("stdout") /\ Exceeded("stderr") /\ Return("stderr_limit")
       \/ /\ \A s \in Stream : ~Exceeded(s)
          /\ IF child = "success" THEN Return("ok") \/ Return("protocol") ELSE Return("exit")

WorkerCanMove == Collected \/ \E s \in Stream : Readable(s)

Timeout_AfterExit ==
    /\ phase = "collect" /\ ~Alive /\ ~Collected
    /\ ~WorkerCanMove
    /\ Return("timeout")
Timeout ==
    /\ phase = "collect" /\ ~Collected
    /\ child = "stalled" \/ ~(WorkerCanMove \/ ChildCanMove)
    /\ Return("timeout")

WorkerMoves ==
    \/ WriteRequest \/ WriteFails \/ CloseRequest
    \/ \E s \in Stream : Drain(s)
    \/ Conclude
    \/ Timeout

Next ==
    /\ phase # "done"
    /\ WorkerMoves \/ ChildMoves \/ ChildReads \/ ChildStopsListening \/ ChildCrashes \/ ChildStalls

Spec == Init /\ [][Next]_vars /\ WF_vars(WorkerMoves) /\ WF_vars(phase # "done" /\ ChildMoves)

-----------------------------------------------------------------------------
(* Types; no pipe is overfilled, a reader takes at most one unit past its  *)
(* limit, and nothing on a stream is lost while the worker reads it        *)
(* (read_limited): what the child wrote is taken or still in the pipe.     *)
CommandTypeOK ==
    /\ phase \in {"write", "collect", "done"}
    /\ child \in {"running", "stalled", "success", "failure", "killed"}
    /\ fed \in 0..plan.request /\ inbox \in 0..PipeSize
    /\ \A s \in Stream :
          /\ piped[s] \in 0..PipeSize
          /\ taken[s] \in 0..(Limit[s] + 1)
          /\ open[s] => written[s] = taken[s] + piped[s]

(* The worker accepts a result only from a child that succeeded and whose  *)
(* whole output it has read, and blames a limit only on a child that went  *)
(* past it: an output of exactly the limit is neither cut nor refused.  A  *)
(* child that dies because the worker stopped reading is not blamed for    *)
(* its exit (read_limited and the order of the checks after it).           *)
LimitsAreExact ==
    /\ result = "ok" =>
          /\ child = "success"
          /\ \A s \in Stream : plan.output[s] = taken[s] /\ plan.output[s] <= Limit[s]
    /\ result = "stdout_limit" => plan.output["stdout"] > Limit["stdout"]
    /\ result = "stderr_limit" => plan.output["stderr"] > Limit["stderr"]
    /\ result = "exit" => \A s \in Stream : written[s] = taken[s] /\ written[s] <= Limit[s]

(* Worker and child never wait for each other until the deadline: only a   *)
(* child that stalls by itself is timed out, or one whose descendants keep *)
(* open an output that it left within its limit, however much it writes to *)
(* which stream and in what order (the join of both reads and the wait).   *)
OnlyStallsTimeOut ==
    result = "timeout" => plan.stalls \/ \E s \in Stream \cap plan.keeps : ~Exceeded(s)

(* The worker waits, with no deadline, for a full pipe to be read. *)
StuckInWrite == phase = "write" /\ inbox = PipeSize /\ plan.request > PipeSize

(* Every run ends, except one that writes a request larger than the pipe   *)
(* to a child that does not read it all: the request is written before the *)
(* deadline is armed.  A request the pipe can hold is written whatever the *)
(* child does, and from then on the deadline bounds the child and what its *)
(* descendants keep open.                                                  *)
CommandEnds == <>(phase = "done") \/ <>[]StuckInWrite

=============================================================================
