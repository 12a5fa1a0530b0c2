----------------------------- MODULE CliRuntime -----------------------------
(***************************************************************************)
(* crates/qaptr-provider-cli/src/runtime.rs: one CliRuntime::run.  The     *)
(* calling thread spawns the provider's command line tool as the leader of *)
(* a process group, one thread feeds its stdin and one thread each drains  *)
(* stdout and stderr; the caller polls for the exit, for an overflow that  *)
(* a reader has flagged and for the deadline, kills the group when it must, *)
(* joins the three threads and classifies the result.                      *)
(*                                                                         *)
(* The tool is external: it writes what it likes, exits when it likes and  *)
(* may leave a descendant behind that inherited its pipes, either in its   *)
(* own process group or in a new one.                                      *)
(***************************************************************************)
EXTENDS Integers

CONSTANTS
  Limit,          \* RuntimeLimits::output, in bytes
  PipeCapacity,   \* how much the system buffers in a pipe
  MaxWritten,     \* bound: bytes written to each stream
  Descendants     \* the kinds of descendant the tool may start

Stream == {"stdout", "stderr"}

ASSUME RuntimeAssumption ==
  /\ Limit \in Nat \ {0}
  /\ PipeCapacity \in Nat \ {0}
  /\ MaxWritten \in Nat
  /\ Descendants \subseteq {"grouped", "escaped"}

VARIABLES
  run,         \* where the calling thread stands, or its result
  timedOut,    \* its local flag
  late,        \* the deadline has passed
  child,       \* the leader
  descendant,  \* a process the leader started
  written,     \* bytes written to each stream so far
  output,      \* bytes each reader has retained
  reader,      \* the thread of each stream
  exceeded,    \* output_exceeded, shared by the readers and the caller
  writer       \* the thread that feeds stdin

caller == <<run, timedOut>>
tool == <<late, child, descendant, written>>
threads == <<output, reader, exceeded, writer>>
runtimeVars == <<caller, tool, threads>>

Result == {"ok", "timeout", "output", "nonzero", "err"}

Retained == output["stdout"] + output["stderr"]

(* Somebody has the tool's ends of the pipes open. *)
PipesHeld == child = "running" \/ descendant \in {"grouped", "escaped"}

-----------------------------------------------------------------------------
(* The tool and the clock *)

Write(s) ==
  /\ PipesHeld
  /\ reader[s] = "reading"
  /\ written[s] - output[s] < PipeCapacity
  /\ written[s] < MaxWritten
  /\ written' = [written EXCEPT ![s] = @ + 1]
  /\ UNCHANGED <<caller, late, child, descendant, threads>>

(* It ends by itself, successfully or not; a write to a pipe whose reader  *)
(* has stopped is one way not to.                                          *)
Exit(how) ==
  /\ child = "running"
  /\ child' = how
  /\ UNCHANGED <<caller, late, descendant, written, threads>>

StartDescendant(d) ==
  /\ child = "running"
  /\ descendant = "none"
  /\ descendant' = d
  /\ UNCHANGED <<caller, late, child, written, threads>>

DescendantEnds ==
  /\ descendant \in {"grouped", "escaped"}
  /\ descendant' = "ended"
  /\ UNCHANGED <<caller, late, child, written, threads>>

DeadlinePasses ==
  /\ ~late
  /\ late' = TRUE
  /\ UNCHANGED <<caller, child, descendant, written, threads>>

-----------------------------------------------------------------------------
(* read_output, write_stdin *)

(* Never more than what is left of the limit. *)
Read(s) ==
  /\ reader[s] = "reading"
  /\ \E n \in 1 .. (written[s] - output[s]) :
       /\ output[s] + n <= Limit
       /\ output' = [output EXCEPT ![s] = @ + n]
  /\ UNCHANGED <<caller, tool, reader, exceeded, writer>>

(* Plausible bug: flags the overflow as soon as the limit is reached. *)
ReadProbeUnread(s) ==
  /\ reader[s] = "reading"
  /\ output[s] = Limit
  /\ exceeded' = TRUE
  /\ reader' = [reader EXCEPT ![s] = "done"]
  /\ UNCHANGED <<caller, tool, output, writer>>

(* The limit is reached: one byte more shows that it is exceeded. *)
ReadProbe(s) ==
  /\ reader[s] = "reading"
  /\ output[s] = Limit
  /\ written[s] > Limit
  /\ exceeded' = TRUE
  /\ reader' = [reader EXCEPT ![s] = "done"]
  /\ UNCHANGED <<caller, tool, output, writer>>

EndOfFile(s) ==
  /\ reader[s] = "reading"
  /\ ~PipesHeld
  /\ written[s] = output[s]
  /\ reader' = [reader EXCEPT ![s] = "done"]
  /\ UNCHANGED <<caller, tool, output, exceeded, writer>>

ReadErr(s) ==
  /\ reader[s] = "reading"
  /\ reader' = [reader EXCEPT ![s] = "failed"]
  /\ UNCHANGED <<caller, tool, output, exceeded, writer>>

(* The tool took all the input, or closed its end, or the write failed, *)
InputTaken ==
  /\ writer = "writing"
  /\ writer' \in {"done", "failed"}
  /\ UNCHANGED <<caller, tool, output, reader, exceeded>>

(* or nobody is left to take it: a broken pipe is no error. *)
InputRefused ==
  /\ writer = "writing"
  /\ ~PipesHeld
  /\ writer' = "done"
  /\ UNCHANGED <<caller, tool, output, reader, exceeded>>

-----------------------------------------------------------------------------
(* CliRuntime::run *)

(* Plausible bug: no child.kill() where /bin/kill has failed. *)
TerminateGroup ==
  /\ \/ /\ child' = IF child = "running" THEN "killed" ELSE child
        /\ descendant' = IF descendant = "grouped" THEN "ended" ELSE descendant
     \/ UNCHANGED <<child, descendant>>
  /\ UNCHANGED <<late, written>>

(* kill -KILL of the process group, whose status is ignored, and then      *)
(* child.kill(): the leader dies, what is left in its group does only when *)
(* the kill command could be run, what has left the group lives on.        *)
TerminateProcessTree ==
  /\ child' = IF child = "running" THEN "killed" ELSE child
  /\ \/ descendant' = IF descendant = "grouped" THEN "ended" ELSE descendant
     \/ UNCHANGED descendant
  /\ UNCHANGED <<late, written>>

(* The polling loop looks at the flag, at the child and at the time. *)
CheckOutput ==
  /\ run = "check"
  /\ \/ /\ exceeded
        /\ TerminateProcessTree
        /\ run' = "wait"
     \/ ~exceeded /\ run' = "try" /\ UNCHANGED tool
  /\ UNCHANGED <<timedOut, threads>>

TryWait ==
  /\ run = "try"
  /\ run' = IF child = "running" THEN "time" ELSE "join"
  /\ UNCHANGED <<timedOut, tool, threads>>

(* The status cannot be read, by try_wait or by wait: run returns, and in  *)
(* the first case the child stays.                                         *)
StatusErr ==
  /\ run \in {"try", "wait"}
  /\ run' = "err"
  /\ UNCHANGED <<timedOut, tool, threads>>

(* Plausible bug: waits for the child at the deadline without killing it. *)
CheckTimeSpares ==
  /\ run = "time"
  /\ IF late THEN timedOut' = TRUE /\ run' = "wait"
             ELSE run' = "check" /\ UNCHANGED timedOut
  /\ UNCHANGED <<tool, threads>>

CheckTime ==
  /\ run = "time"
  /\ \/ /\ late
        /\ TerminateProcessTree
        /\ timedOut' = TRUE
        /\ run' = "wait"
     \/ ~late /\ run' = "check" /\ UNCHANGED <<timedOut, tool>>
  /\ UNCHANGED threads

Wait ==
  /\ run = "wait"
  /\ child # "running"
  /\ run' = "join"
  /\ UNCHANGED <<timedOut, tool, threads>>

(* Plausible bug: takes what the readers have got so far. *)
JoinEarly ==
  /\ run = "join"
  /\ run' = IF \E s \in Stream : reader[s] = "failed" THEN "err" ELSE "classify"
  /\ UNCHANGED <<timedOut, tool, threads>>

(* The three threads are joined, stdin, stdout, stderr; the first error    *)
(* ends run.                                                               *)
Join ==
  /\ run = "join"
  /\ writer # "writing"
  /\ \/ writer = "failed" /\ run' = "err"
     \/ writer = "done" /\ reader["stdout"] = "failed" /\ run' = "err"
     \/ /\ writer = "done" /\ reader["stdout"] = "done"
        /\ reader["stderr"] # "reading"
        /\ run' = IF reader["stderr"] = "failed" THEN "err" ELSE "classify"
  /\ UNCHANGED <<timedOut, tool, threads>>

Classify ==
  /\ run = "classify"
  /\ run' = IF timedOut THEN "timeout"
            ELSE IF exceeded \/ Retained > Limit THEN "output"
            ELSE IF child # "exited" THEN "nonzero"
            ELSE "ok"
  /\ UNCHANGED <<timedOut, tool, threads>>

RuntimeInit ==
  /\ run = "check" /\ timedOut = FALSE
  /\ late = FALSE /\ child = "running" /\ descendant = "none"
  /\ written = [s \in Stream |-> 0]
  /\ output = [s \in Stream |-> 0]
  /\ reader = [s \in Stream |-> "reading"]
  /\ exceeded = FALSE
  /\ writer = "writing"

Thread(s) == Read(s) \/ ReadProbe(s) \/ EndOfFile(s)
Caller == CheckOutput \/ TryWait \/ CheckTime \/ Wait \/ Join \/ Classify

RuntimeNext ==
  \/ \E s \in Stream : Write(s) \/ Thread(s) \/ ReadErr(s)
  \/ \E how \in {"exited", "failed"} : Exit(how)
  \/ \E d \in Descendants : StartDescendant(d)
  \/ DescendantEnds \/ DeadlinePasses
  \/ InputTaken \/ InputRefused
  \/ Caller \/ StatusErr

RuntimeSpec == RuntimeInit /\ [][RuntimeNext]_runtimeVars

(* Qaptr's own threads are scheduled and time passes; nothing is expected  *)
(* of the tool.                                                            *)
RuntimeFairSpec ==
  /\ RuntimeSpec
  /\ WF_runtimeVars(Caller) /\ WF_runtimeVars(DeadlinePasses) /\ WF_runtimeVars(InputRefused)
  /\ \A s \in Stream : WF_runtimeVars(Thread(s))

-----------------------------------------------------------------------------
(* Properties *)

(* An answer is only accepted whole: the tool succeeded, and everything it *)
(* and its descendants ever wrote was read and fits the limit, however the *)
(* exit, the readers and the flag interleave.                              *)
OkIsComplete ==
  run = "ok" => /\ child = "exited"
                /\ \A s \in Stream : output[s] = written[s]
                /\ Retained <= Limit

(* Nobody is blamed wrongly: run reports an overflow only for a tool that  *)
(* wrote more than the limit, a timeout only when the deadline has passed. *)
BlameIsJustified ==
  /\ run = "output" => written["stdout"] + written["stderr"] > Limit
  /\ run = "timeout" => late

(* The deadline binds the tool itself: whatever it does, and whether or    *)
(* not its group can be killed, it ends, unless its status cannot be read  *)
(* (runtime.rs:30 "A non-zero wall-clock limit for one child invocation"). *)
LeaderEnds == <>(child # "running" \/ run = "err")

(* run returns as well, unless a process that the tool started outlives it *)
(* for ever: one that left the group, one in a group that could not be     *)
(* killed, or one whose leader ended by itself before the deadline, which  *)
(* nobody kills.  The threads wait without a limit for such a process to   *)
(* close its pipes.                                                        *)
RunReturns == <>(run \in Result) \/ <>[](descendant \in {"grouped", "escaped"})

=============================================================================
