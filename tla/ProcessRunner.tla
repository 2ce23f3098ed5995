---------------------------- MODULE ProcessRunner -----------------------------
(***************************************************************************)
(* One run of a child process (process_runner.py): two threads read its    *)
(* pipes, each up to a quota, while the caller polls, kills the process    *)
(* group at the quota or the deadline, joins the threads for a limited     *)
(* time and closes the pipes.                                              *)
(*                                                                         *)
(* Output is counted in chunks of what one read returns.  A descendant of  *)
(* the child may keep the pipes open after it, in its group or outside.    *)
(* Closing a pipe waits while a thread is inside a read of it.             *)
(***************************************************************************)
EXTENDS Integers

CONSTANTS
    OutputLimit,    \* chunks that are retained (OUTPUT_LIMIT)
    DrainLimit,     \* chunks that are read at all (DRAIN_AFTER_LIMIT)
    PipeSize,       \* chunks that fit into a pipe
    MaxOutput,      \* bound: chunks written to a stream
    Nothing

Stream == {"stdout", "stderr"}

RunnerAssumption ==
    /\ OutputLimit \in Nat /\ DrainLimit \in Nat /\ PipeSize \in Nat /\ MaxOutput \in Nat
    /\ Nothing \notin Stream \cup {"group", "escaped"}

VARIABLES
    child,    \* "running", "exited" or "killed"
    heir,     \* a descendant with the pipes: Nothing, "group" or "escaped"
    orphaned, \* history: there was one when the child had ended
    writing,  \* the stream the child is about to write to, or Nothing
    written,  \* chunks written to each stream
    pipe,     \* chunks that are in each pipe
    reader,   \* each thread: "ready", "inside" a read, "done" or "broken"
    size,     \* chunks each thread has read
    limit_reached,
    timed,    \* the caller gave a timeout
    expired,  \* the deadline has passed
    step,     \* where the caller is
    failure   \* failure_stage

vars == <<child, heir, orphaned, writing, written, pipe, reader, size, limit_reached, timed,
          expired, step, failure>>
processes == <<child, heir, orphaned, writing, written>>
threads == <<reader, size, limit_reached>>
caller == <<timed, expired, step, failure>>

Init ==
    /\ child = "running" /\ heir = Nothing /\ orphaned = FALSE /\ writing = Nothing
    /\ written = [s \in Stream |-> 0] /\ pipe = [s \in Stream |-> 0]
    /\ reader = [s \in Stream |-> "ready"] /\ size = [s \in Stream |-> 0]
    /\ limit_reached = FALSE
    /\ timed \in BOOLEAN /\ expired = FALSE
    /\ step = "poll" /\ failure = "none"

------------------------------------------------------------------------------
(***************************************************************************)
(* The child and its descendant                                            *)
(***************************************************************************)

Emit(s) ==
    /\ written[s] < MaxOutput /\ pipe[s] < PipeSize
    /\ written' = [written EXCEPT ![s] = @ + 1]
    /\ pipe' = [pipe EXCEPT ![s] = @ + 1]

\* The child decides to write; from then on it does nothing else until it can.
WantToWrite(s) ==
    /\ child = "running" /\ writing = Nothing /\ written[s] < MaxOutput
    /\ writing' = s
    /\ UNCHANGED <<child, heir, orphaned, written, pipe, threads, caller>>

ChildWrites ==
    /\ child = "running" /\ writing # Nothing
    /\ Emit(writing)
    /\ writing' = Nothing
    /\ UNCHANGED <<child, heir, orphaned, threads, caller>>

ChildExits ==
    /\ child = "running" /\ writing = Nothing
    /\ child' = "exited"
    /\ orphaned' = (heir # Nothing)
    /\ UNCHANGED <<heir, writing, written, pipe, threads, caller>>

\* A descendant inherits the pipes; start_new_session groups it with the child
\* unless it leaves the group.
Fork(group) ==
    /\ child = "running" /\ writing = Nothing /\ heir = Nothing
    /\ heir' = group
    /\ UNCHANGED <<child, orphaned, writing, written, pipe, threads, caller>>

HeirWrites(s) ==
    /\ heir # Nothing
    /\ Emit(s)
    /\ UNCHANGED <<child, heir, orphaned, writing, threads, caller>>

HeirExits ==
    /\ heir # Nothing
    /\ heir' = Nothing
    /\ UNCHANGED <<child, orphaned, writing, written, pipe, threads, caller>>

------------------------------------------------------------------------------
(***************************************************************************)
(* The reader threads: _read_bounded_stream                                *)
(***************************************************************************)

Open == child = "running" \/ heir # Nothing

EnterRead(s) ==
    /\ reader[s] = "ready" /\ step # "return"
    /\ reader' = [reader EXCEPT ![s] = "inside"]
    /\ UNCHANGED <<processes, pipe, size, limit_reached, caller>>

\* A chunk is counted; past the quota the caller is told, and well past it the
\* thread stops reading.
TakeChunk(s) ==
    /\ pipe' = [pipe EXCEPT ![s] = @ - 1]
    /\ size' = [size EXCEPT ![s] = @ + 1]
    /\ limit_reached' = (limit_reached \/ size[s] + 1 > OutputLimit)
    /\ reader' = [reader EXCEPT ![s] =
                     IF size[s] + 1 > OutputLimit /\ size[s] + 1 >= DrainLimit
                     THEN "done" ELSE "ready"]

\* A read returns a chunk, or nothing when the pipe is empty and nobody has it open.
ReturnRead(s) ==
    /\ reader[s] = "inside"
    /\ \/ pipe[s] > 0 /\ TakeChunk(s)
       \/ /\ pipe[s] = 0 /\ ~Open
          /\ reader' = [reader EXCEPT ![s] = "done"]
          /\ UNCHANGED <<pipe, size, limit_reached>>
    /\ UNCHANGED <<processes, caller>>

------------------------------------------------------------------------------
(***************************************************************************)
(* The caller: run_process                                                 *)
(***************************************************************************)

DeadlinePasses ==
    /\ timed /\ ~expired /\ step = "poll"
    /\ expired' = TRUE
    /\ UNCHANGED <<processes, pipe, threads, timed, step, failure>>

Stops(stage) ==
    /\ failure' = stage
    /\ step' = "join_stdout"
    /\ UNCHANGED <<timed, expired>>

\* _terminate_process_tree: the group is killed, whoever left it is not.
Terminate ==
    /\ child' = "killed" /\ writing' = Nothing
    /\ heir' = IF heir = "group" THEN Nothing ELSE heir
    /\ orphaned' = (heir' # Nothing)
    /\ UNCHANGED written

Poll ==
    /\ step = "poll"
    /\ \/ child # "running" /\ Stops("none") /\ UNCHANGED processes
       \/ child = "running" /\ limit_reached /\ Stops("output_limit") /\ Terminate
       \/ /\ child = "running" /\ ~limit_reached /\ expired
          /\ Stops("timeout") /\ Terminate
    /\ UNCHANGED <<pipe, threads>>

Over(s) == reader[s] \in {"done", "broken"}

\* A thread that nothing keeps from reading ends long before a join gives up.
Stuck(s) == reader[s] = "inside" /\ pipe[s] = 0 /\ Open

\* A thread is joined, or the join gives up.
Join(s, this, next) ==
    /\ step = this /\ (Over(s) \/ Stuck(s))
    /\ step' = next
    /\ UNCHANGED <<processes, pipe, threads, timed, expired, failure>>

\* A child that ended before the loop saw the quota event has exceeded it, too.
CheckQuota ==
    /\ step = "check"
    /\ step' = "close"
    /\ failure' = IF limit_reached /\ failure = "none" THEN "output_limit" ELSE failure
    /\ UNCHANGED <<processes, pipe, threads, timed, expired>>

\* Both pipes are closed, each when no thread is inside a read of it; a thread that
\* reads a closed pipe raises, and has no result.
ClosePipes ==
    /\ step = "close" /\ \A s \in Stream : reader[s] # "inside"
    /\ step' = "return"
    /\ reader' = [s \in Stream |-> IF reader[s] = "ready" THEN "broken" ELSE reader[s]]
    /\ UNCHANGED <<processes, pipe, size, limit_reached, timed, expired, failure>>

\* What results.get gives: nothing from a thread that has not ended.
Observed(s) == IF reader[s] = "done" THEN size[s] ELSE 0

Child ==
    \/ \E s \in Stream : WantToWrite(s)
    \/ ChildWrites \/ ChildExits

Thread(s) == EnterRead(s) \/ ReturnRead(s)

Caller ==
    \/ Poll \/ Join("stdout", "join_stdout", "join_stderr")
    \/ Join("stderr", "join_stderr", "check") \/ CheckQuota \/ ClosePipes

Next ==
    \/ Child
    \/ \E group \in {"group", "escaped"} : Fork(group)
    \/ \E s \in Stream : HeirWrites(s) \/ Thread(s)
    \/ HeirExits \/ DeadlinePasses \/ Caller

\* A thread reads, the caller goes on, time passes, and a child without a deadline
\* writes or exits; nothing is assumed of one with a deadline or of a descendant.
Fairness ==
    /\ timed \/ WF_vars(Child)
    /\ WF_vars(Caller) /\ WF_vars(DeadlinePasses)
    /\ \A s \in Stream : WF_vars(Thread(s))

Spec == Init /\ [][Next]_vars /\ Fairness

------------------------------------------------------------------------------
(***************************************************************************)
(* Properties                                                              *)
(***************************************************************************)

TypeOK ==
    /\ child \in {"running", "exited", "killed"}
    /\ heir \in {Nothing, "group", "escaped"} /\ orphaned \in BOOLEAN
    /\ writing \in Stream \cup {Nothing}
    /\ written \in [Stream -> 0..MaxOutput] /\ pipe \in [Stream -> 0..PipeSize]
    /\ reader \in [Stream -> {"ready", "inside", "done", "broken"}]
    /\ size \in [Stream -> 0..MaxOutput]
    /\ limit_reached \in BOOLEAN /\ timed \in BOOLEAN /\ expired \in BOOLEAN
    /\ step \in {"poll", "join_stdout", "join_stderr", "check", "close", "return"}
    /\ failure \in {"none", "timeout", "output_limit"}

\* What makes it so: every chunk is read, or still in its pipe; a thread is done when
\* nobody can write any more or the quota is exceeded; and without a failure the caller
\* gets past a join only when the thread is done, and past the check only below the
\* quota.
ChunksAreAccounted ==
    /\ \A s \in Stream :
        /\ written[s] = size[s] + pipe[s]
        /\ size[s] > OutputLimit => limit_reached
        /\ reader[s] = "done" => limit_reached \/ (pipe[s] = 0 /\ ~Open)
        /\ reader[s] = "broken" => step = "return"
    /\ child = "running" => ~orphaned
    /\ child # "running" /\ ~orphaned => heir = Nothing
    /\ failure = "none" /\ step # "poll" => child # "running"
    /\ failure = "none" /\ ~orphaned =>
        /\ step \in {"join_stderr", "check", "close", "return"} => reader["stdout"] = "done"
        /\ step \in {"check", "close", "return"} => reader["stderr"] = "done"
        /\ step \in {"close", "return"} => ~limit_reached

RunnerInv == TypeOK /\ ChunksAreAccounted

\* A run without failure returns all the child has written, however its exit, the
\* quota and the threads raced, unless a descendant had the pipes after it.
SuccessIsWhole ==
    step = "return" /\ failure = "none" /\ ~orphaned =>
        \A s \in Stream :
            Observed(s) = written[s] /\ written[s] <= OutputLimit

\* The run ends, whatever fills the pipes and whichever thread has stopped to read
\* them, unless a descendant that was not killed holds them ("The runner must remain
\* bounded").
RunEnds == <>(step = "return" \/ orphaned)
==============================================================================
