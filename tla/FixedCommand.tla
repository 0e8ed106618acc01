---------------------------- MODULE FixedCommand ----------------------------
(***************************************************************************)
(* run_fixed_command (src/tools/package_tool.cpp): a child process whose   *)
(* output is read through a non-blocking pipe, with a limit on its size    *)
(* and a deadline. One step per system call of the parent, interleaved     *)
(* with the child, with a helper the child may leave behind, and with the  *)
(* clock. Output is counted, not spelled out.                              *)
(*                                                                         *)
(* EINTR is left out (the calls are repeated, or the daemon installs no    *)
(* handler), and so is a failure of F_SETFL, which has no error on a pipe. *)
(***************************************************************************)
EXTENDS Integers

CONSTANTS
    PipeSize,    \* what the pipe holds before a writer blocks
    Buffer,      \* the size of one read (8192 in the code)
    MaxOutput,   \* kMaxPackageCommandOutputBytes
    MaxWritten   \* bound on the output of the child, for model checking

ASSUME CommandAssumption ==
    /\ PipeSize \in Nat \ {0} /\ Buffer \in Nat \ {0}
    /\ MaxOutput \in Nat /\ MaxWritten \in Nat

VARIABLES
    pc,          \* where run_fixed_command is
    result,      \* what it returned, or is about to return
    output,      \* output.size()
    pipe_closed, child_done, status,   \* its variables
    open,        \* the ends of the pipe it holds
    child,       \* the child process
    code,        \* how the child ended
    writers,     \* the processes that hold the writing end, apart from kaslid
    inPipe,      \* what is in the pipe
    written,     \* history: everything that was written to the pipe
    late,        \* the deadline has passed
    ignored      \* SIGCHLD is ignored, as kaslid may have inherited it

parent == <<pc, result, output, pipe_closed, child_done, status, open>>
vars   == <<parent, child, code, writers, inPipe, written, late, ignored>>

Errors  == {"no pipe", "no fork", "no wait", "over limit", "read failed",
            "timed out", "failed"}
Results == {"none", "ok"} \cup Errors
Labels  == {"pipe", "fork", "read", "wait", "clock", "finish",
            "kill", "close", "reap", "returned"}
Codes   == {"none", "zero", "nonzero", "signal"}

TypeOK ==
    /\ pc \in Labels /\ result \in Results
    /\ output \in 0 .. MaxOutput
    /\ pipe_closed \in BOOLEAN /\ child_done \in BOOLEAN
    /\ status \in Codes /\ code \in Codes
    /\ open \subseteq {"read", "write"}
    /\ child \in {"none", "running", "zombie", "reaped"}
    /\ writers \subseteq {"child", "helper"}
    /\ inPipe \in 0 .. PipeSize
    /\ written \in 0 .. MaxWritten
    /\ late \in BOOLEAN /\ ignored \in BOOLEAN

Init ==
    /\ pc = "pipe" /\ result = "none" /\ output = 0
    /\ pipe_closed = FALSE /\ child_done = FALSE /\ status = "none"
    /\ open = {} /\ child = "none" /\ code = "none" /\ writers = {}
    /\ inPipe = 0 /\ written = 0 /\ late = FALSE
    /\ ignored \in BOOLEAN

-----------------------------------------------------------------------------
World == <<child, code, writers, inPipe, written, late, ignored>>

Pipe ==
    /\ pc = "pipe"
    /\ \/ open' = {"read", "write"} /\ pc' = "fork" /\ UNCHANGED result
       \/ result' = "no pipe" /\ pc' = "returned" /\ UNCHANGED open
    /\ UNCHANGED <<output, pipe_closed, child_done, status, World>>

(* fork, and the parent's close of the writing end. *)
Fork ==
    /\ pc = "fork"
    /\ \/ /\ child' = "running" /\ writers' = {"child"}
          /\ open' = {"read"} /\ pc' = "read"
          /\ UNCHANGED result
       \/ /\ result' = "no fork" /\ open' = {} /\ pc' = "returned"
          /\ UNCHANGED <<child, writers>>
    /\ UNCHANGED <<output, pipe_closed, child_done, status, code, inPipe, written,
                   late, ignored>>

(* Every way out that kills the child goes through kill, close and reap. *)
GiveUp(error) == result' = error /\ pc' = "kill"

(* Mutant: output of exactly the limit is refused. *)
ReadSome_OffByOne ==
    /\ pc = "read"
    /\ inPipe > 0
    /\ LET n == IF inPipe < Buffer THEN inPipe ELSE Buffer IN
         /\ inPipe' = inPipe - n
         /\ IF output + n >= MaxOutput
            THEN GiveUp("over limit") /\ UNCHANGED output
            ELSE output' = output + n /\ UNCHANGED <<pc, result>>
    /\ UNCHANGED <<pipe_closed, child_done, status, open, child, code, writers,
                   written, late, ignored>>

ReadSome ==
    /\ pc = "read"
    /\ inPipe > 0
    /\ LET n == IF inPipe < Buffer THEN inPipe ELSE Buffer IN
         /\ inPipe' = inPipe - n
         /\ IF output + n > MaxOutput
            THEN GiveUp("over limit") /\ UNCHANGED output
            ELSE output' = output + n /\ UNCHANGED <<pc, result>>
    /\ UNCHANGED <<pipe_closed, child_done, status, open, child, code, writers,
                   written, late, ignored>>

(* End of file, or nothing to read for now. *)
ReadNothing ==
    /\ pc = "read"
    /\ inPipe = 0
    /\ pipe_closed' = (pipe_closed \/ writers = {})
    /\ pc' = "wait"
    /\ UNCHANGED <<result, output, child_done, status, open, World>>

ReadFails ==
    /\ pc = "read"
    /\ GiveUp("read failed")
    /\ UNCHANGED <<output, pipe_closed, child_done, status, open, World>>

(* waitpid with WNOHANG; it fails when SIGCHLD is ignored and the kernel has
   reaped the child itself. *)
WaitNoHang ==
    /\ pc = "wait"
    /\ \/ /\ child_done \/ child = "running"
          /\ pc' = "clock" /\ UNCHANGED <<result, child_done, status, open, child>>
       \/ /\ ~child_done /\ child = "zombie"
          /\ child' = "reaped" /\ child_done' = TRUE /\ status' = code
          /\ pc' = "clock" /\ UNCHANGED <<result, open>>
       \/ /\ ~child_done /\ child = "reaped"
          /\ result' = "no wait" /\ open' = {} /\ pc' = "returned"
          /\ UNCHANGED <<child_done, status, child>>
    /\ UNCHANGED <<output, pipe_closed, code, writers, inPipe, written, late, ignored>>

(* Mutant: the loop ends with the child. *)
CheckClock_ChildOnly ==
    /\ pc = "clock"
    /\ IF late THEN GiveUp("timed out")
       ELSE /\ pc' = IF child_done THEN "finish" ELSE "read"
            /\ UNCHANGED result
    /\ UNCHANGED <<output, pipe_closed, child_done, status, open, World>>

(* Mutant: no deadline. *)
CheckClock_Patient ==
    /\ pc = "clock"
    /\ pc' = IF pipe_closed /\ child_done THEN "finish" ELSE "read"
    /\ UNCHANGED <<result, output, pipe_closed, child_done, status, open, World>>

(* The deadline, the loop condition, and poll, which only waits. *)
CheckClock ==
    /\ pc = "clock"
    /\ IF late THEN GiveUp("timed out")
       ELSE /\ pc' = IF pipe_closed /\ child_done THEN "finish" ELSE "read"
            /\ UNCHANGED result
    /\ UNCHANGED <<output, pipe_closed, child_done, status, open, World>>

Finish ==
    /\ pc = "finish"
    /\ open' = {}
    /\ result' = IF status = "zero" THEN "ok" ELSE "failed"
    /\ pc' = "returned"
    /\ UNCHANGED <<output, pipe_closed, child_done, status, World>>

(* A process that ends is reaped by its parent, or by the kernel. *)
Ends(c) ==
    /\ child' = IF ignored THEN "reaped" ELSE "zombie"
    /\ code' = c
    /\ writers' = writers \ {"child"}

Kill ==
    /\ pc = "kill"
    /\ IF child = "running" THEN Ends("signal") ELSE UNCHANGED <<child, code, writers>>
    /\ pc' = "close"
    /\ UNCHANGED <<result, output, pipe_closed, child_done, status, open, inPipe,
                   written, late, ignored>>

(* Mutant: the child is killed and not waited for. *)
CloseReadEnd_NoReap ==
    /\ pc = "close"
    /\ open' = {}
    /\ pc' = "returned"
    /\ UNCHANGED <<result, output, pipe_closed, child_done, status, World>>

CloseReadEnd ==
    /\ pc = "close"
    /\ open' = {}
    /\ pc' = "reap"
    /\ UNCHANGED <<result, output, pipe_closed, child_done, status, World>>

(* The blocking waitpid; a child that was reaped before makes it fail at once. *)
Reap ==
    /\ pc = "reap"
    /\ child \in {"zombie", "reaped"}
    /\ child' = "reaped"
    /\ pc' = "returned"
    /\ UNCHANGED <<result, output, pipe_closed, child_done, status, open, code,
                   writers, inPipe, written, late, ignored>>

-----------------------------------------------------------------------------
(* The child and what it starts. *)
Write(w) ==
    /\ w \in writers /\ "read" \in open
    /\ inPipe < PipeSize /\ written < MaxWritten
    /\ inPipe' = inPipe + 1 /\ written' = written + 1
    /\ UNCHANGED <<parent, child, code, writers, late, ignored>>

CloseOutput(w) ==
    /\ w \in writers
    /\ writers' = writers \ {w}
    /\ UNCHANGED <<parent, child, code, inPipe, written, late, ignored>>

LeaveHelper ==
    /\ "child" \in writers
    /\ writers' = {"child", "helper"}
    /\ UNCHANGED <<parent, child, code, inPipe, written, late, ignored>>

ChildExits ==
    /\ child = "running"
    /\ \E c \in Codes \ {"none"} : Ends(c)
    /\ UNCHANGED <<parent, inPipe, written, late, ignored>>

DeadlinePasses ==
    /\ ~late /\ child # "none"
    /\ late' = TRUE
    /\ UNCHANGED <<parent, child, code, writers, inPipe, written, ignored>>

-----------------------------------------------------------------------------
Parent ==
    \/ Pipe \/ Fork \/ ReadSome \/ ReadNothing \/ ReadFails \/ WaitNoHang
    \/ CheckClock \/ Finish \/ Kill \/ CloseReadEnd \/ Reap

Others ==
    \/ \E w \in {"child", "helper"} : Write(w) \/ CloseOutput(w)
    \/ LeaveHelper \/ ChildExits

Next == Parent \/ Others \/ DeadlinePasses

Spec == Init /\ [][Next]_vars

(* The parent runs and time passes; nothing is assumed of the child. *)
FairSpec == Spec /\ WF_vars(Parent) /\ WF_vars(DeadlinePasses)

-----------------------------------------------------------------------------
(* A success carries everything the child and its helpers wrote, to the end of
   the file, and the child exited with 0: no race between the last read, the
   exit and the deadline loses the tail. *)
OkIsWhole ==
    result = "ok" => output = written /\ writers = {} /\ code = "zero"

(* Each error is true: output within the limit is never refused, a time-out
   comes after the deadline, and a child that exited with 0 has not failed. *)
ErrorsAreTrue ==
    /\ result = "over limit" => written > MaxOutput
    /\ result = "timed out" => late
    /\ result = "failed" => code \in {"nonzero", "signal"}
    /\ result = "no wait" => ignored

(* However it returns, no zombie and no descriptor stays with the daemon. *)
ReturnLeavesNothing ==
    pc = "returned" => child \in {"none", "reaped"} /\ open = {}

(* It returns, whatever the child does: a child that never stops writing meets
   the limit, one that hangs the deadline. *)
CommandReturns == <>(pc = "returned")
=============================================================================
