------------------------ MODULE FixedCommand_proofs ------------------------
(* That run_fixed_command is sound for every pipe, buffer and limit. *)
EXTENDS FixedCommand, TLAPS

InLoop == {"read", "wait", "clock", "finish"}

(* Nothing has happened before the fork. *)
Fresh ==
    /\ pc \in {"pipe", "fork"} =>
         child = "none" /\ writers = {} /\ inPipe = 0 /\ ~pipe_closed /\ ~child_done
    /\ pc = "pipe" => open = {}
    /\ child = "none" => pc \in {"pipe", "fork", "returned"} /\ writers = {}

(* What was written is read or still in the pipe, until a read is refused. *)
Conserved == result # "over limit" => output + inPipe = written

(* What the local variables say of the child and the pipe is true, and stays
   true: nobody can write again once the last writer is gone. *)
Informed ==
    /\ pipe_closed => writers = {} /\ inPipe = 0
    /\ child_done => child = "reaped" /\ status = code
    /\ "child" \in writers => child = "running"
    /\ child \in {"zombie", "reaped"} => code # "none"
    /\ child = "reaped" => child_done \/ ignored \/ pc = "returned"
    /\ pc = "finish" => pipe_closed /\ child_done

(* Where the function is tells what it is about to return. *)
Decided ==
    /\ pc \in {"pipe", "fork"} \cup InLoop => result = "none"
    /\ pc \in {"kill", "close", "reap"} => result \in {"over limit", "read failed", "timed out"}
    /\ pc \in {"close", "reap"} => child \in {"zombie", "reaped"}
    /\ pc = "reap" => open = {}
    /\ result = "ok" => pipe_closed /\ child_done /\ status = "zero"
    /\ result = "failed" => child_done /\ status # "zero"

IInv ==
    /\ TypeOK /\ Fresh /\ Conserved /\ Informed /\ Decided
    /\ ErrorsAreTrue /\ ReturnLeavesNothing

(* The type invariant by kind of value, as each prover handles one of them. *)
Flags ==
    /\ pipe_closed \in BOOLEAN /\ child_done \in BOOLEAN
    /\ late \in BOOLEAN /\ ignored \in BOOLEAN

Numbers ==
    /\ output \in 0 .. MaxOutput
    /\ inPipe \in 0 .. PipeSize
    /\ written \in 0 .. MaxWritten

Places ==
    /\ pc \in Labels /\ result \in Results
    /\ status \in Codes /\ code \in Codes
    /\ open \subseteq {"read", "write"}
    /\ child \in {"none", "running", "zombie", "reaped"}
    /\ writers \subseteq {"child", "helper"}

LEMMA TypeParts == TypeOK <=> Flags /\ Numbers /\ Places
  BY DEF TypeOK, Flags, Numbers, Places

(* The flags stay flags. *)
LEMMA FlagsPreserved ==
    ASSUME Flags, [Next]_vars
    PROVE  Flags'
  <1> USE CommandAssumption DEF Flags, World, parent
  <1>1. CASE Pipe
    BY <1>1, Zenon DEF Pipe
  <1>2. CASE Fork
    BY <1>2, Zenon DEF Fork
  <1>3. CASE ReadSome
    BY <1>3, Zenon DEF ReadSome, GiveUp
  <1>4. CASE ReadNothing
    BY <1>4, Zenon DEF ReadNothing
  <1>5. CASE ReadFails
    BY <1>5, Zenon DEF ReadFails, GiveUp
  <1>6. CASE WaitNoHang
    BY <1>6, Zenon DEF WaitNoHang
  <1>7. CASE CheckClock
    BY <1>7, Zenon DEF CheckClock, GiveUp
  <1>8. CASE Finish
    BY <1>8, Zenon DEF Finish
  <1>9. CASE Kill
    BY <1>9, Zenon DEF Kill, Ends
  <1>10. CASE CloseReadEnd
    BY <1>10, Zenon DEF CloseReadEnd
  <1>11. CASE Reap
    BY <1>11, Zenon DEF Reap
  <1>12. ASSUME NEW w \in {"child", "helper"}, Write(w) PROVE Flags'
    BY <1>12, Zenon DEF Write
  <1>13. ASSUME NEW w \in {"child", "helper"}, CloseOutput(w) PROVE Flags'
    BY <1>13, Zenon DEF CloseOutput
  <1>14. CASE LeaveHelper
    BY <1>14, Zenon DEF LeaveHelper
  <1>15. CASE ChildExits
    BY <1>15, Zenon DEF ChildExits, Ends
  <1>16. CASE DeadlinePasses
    BY <1>16, Zenon DEF DeadlinePasses
  <1>17. CASE UNCHANGED vars
    BY <1>17, Zenon DEF vars
  <1> QED
    BY <1>1, <1>2, <1>3, <1>4, <1>5, <1>6, <1>7, <1>8, <1>9, <1>10, <1>11, <1>12,
       <1>13, <1>14, <1>15, <1>16, <1>17 DEF Next, Parent, Others

LEMMA NumbersAreIntegers ==
    ASSUME Numbers
    PROVE  output \in Int /\ inPipe \in Int /\ written \in Int /\ MaxOutput \in Int
  BY CommandAssumption DEF Numbers

(* What a read of a non-empty pipe does, without the size of the buffer. *)
LEMMA ReadFacts ==
    ASSUME Numbers, ReadSome
    PROVE  /\ pc = "read" /\ inPipe \in Nat
           /\ UNCHANGED <<pipe_closed, child_done, status, open, child, code, writers,
                          written, late, ignored>>
           /\ \E n \in Nat :
                /\ 0 < n /\ n <= inPipe /\ inPipe' = inPipe - n
                /\ \/ /\ output + n > MaxOutput
                      /\ result' = "over limit" /\ pc' = "kill" /\ output' = output
                   \/ /\ output + n <= MaxOutput
                      /\ output' = output + n /\ pc' = pc /\ result' = result
  <1> USE CommandAssumption DEF Numbers
  <1>1. inPipe \in Nat /\ output \in Nat /\ Buffer \in Nat /\ Buffer > 0 /\ MaxOutput \in Nat
    OBVIOUS
  <1>2. /\ pc = "read" /\ inPipe > 0
        /\ UNCHANGED <<pipe_closed, child_done, status, open, child, code, writers,
                       written, late, ignored>>
    BY DEF ReadSome
  <1> DEFINE n == IF inPipe < Buffer THEN inPipe ELSE Buffer
  <1>3. /\ inPipe' = inPipe - n
        /\ IF output + n > MaxOutput
           THEN result' = "over limit" /\ pc' = "kill" /\ output' = output
           ELSE output' = output + n /\ pc' = pc /\ result' = result
    BY Zenon DEF ReadSome, GiveUp
  <1>4. n \in Nat /\ 0 < n /\ n <= inPipe
    BY <1>1, <1>2
  <1> HIDE DEF n
  <1>5. output + n > MaxOutput \/ output + n <= MaxOutput
    BY <1>1, <1>4
  <1> QED BY <1>1, <1>2, <1>3, <1>4, <1>5

(* A read is refused before it takes the output over the limit. *)
LEMMA NumbersPreserved ==
    ASSUME Numbers, [Next]_vars
    PROVE  Numbers'
  <1> USE CommandAssumption DEF Numbers, World, parent
  <1>1. CASE Pipe
    BY <1>1 DEF Pipe
  <1>2. CASE Fork
    BY <1>2 DEF Fork
  <1>3. CASE ReadSome
    <2>1. PICK n \in Nat :
             /\ n <= inPipe /\ inPipe' = inPipe - n /\ written' = written
             /\ output' = output \/ (output + n <= MaxOutput /\ output' = output + n)
      BY <1>3, ReadFacts
    <2> QED BY <2>1
  <1>4. CASE ReadNothing
    BY <1>4 DEF ReadNothing
  <1>5. CASE ReadFails
    BY <1>5 DEF ReadFails, GiveUp
  <1>6. CASE WaitNoHang
    BY <1>6 DEF WaitNoHang
  <1>7. CASE CheckClock
    BY <1>7 DEF CheckClock, GiveUp
  <1>8. CASE Finish
    BY <1>8 DEF Finish
  <1>9. CASE Kill
    BY <1>9 DEF Kill, Ends
  <1>10. CASE CloseReadEnd
    BY <1>10 DEF CloseReadEnd
  <1>11. CASE Reap
    BY <1>11 DEF Reap
  <1>12. ASSUME NEW w \in {"child", "helper"}, Write(w) PROVE Numbers'
    BY <1>12 DEF Write
  <1>13. ASSUME NEW w \in {"child", "helper"}, CloseOutput(w) PROVE Numbers'
    BY <1>13 DEF CloseOutput
  <1>14. CASE LeaveHelper
    BY <1>14 DEF LeaveHelper
  <1>15. CASE ChildExits
    BY <1>15 DEF ChildExits, Ends
  <1>16. CASE DeadlinePasses
    BY <1>16 DEF DeadlinePasses
  <1>17. CASE UNCHANGED vars
    BY <1>17 DEF vars
  <1> QED
    BY <1>1, <1>2, <1>3, <1>4, <1>5, <1>6, <1>7, <1>8, <1>9, <1>10, <1>11, <1>12,
       <1>13, <1>14, <1>15, <1>16, <1>17 DEF Next, Parent, Others

(* The program counter, the processes and the descriptors stay in their sets. *)
LEMMA PlacesPreserved ==
    ASSUME Places, [Next]_vars
    PROVE  Places'
  <1> USE CommandAssumption DEF Places, Labels, Results, Errors, Codes, World, parent
  <1>1. CASE Pipe
    BY <1>1 DEF Pipe
  <1>2. CASE Fork
    BY <1>2 DEF Fork
  <1>3. CASE ReadSome
    BY <1>3 DEF ReadSome, GiveUp
  <1>4. CASE ReadNothing
    BY <1>4 DEF ReadNothing
  <1>5. CASE ReadFails
    BY <1>5 DEF ReadFails, GiveUp
  <1>6. CASE WaitNoHang
    BY <1>6 DEF WaitNoHang
  <1>7. CASE CheckClock
    BY <1>7 DEF CheckClock, GiveUp
  <1>8. CASE Finish
    BY <1>8 DEF Finish
  <1>9. CASE Kill
    BY <1>9 DEF Kill, Ends
  <1>10. CASE CloseReadEnd
    BY <1>10 DEF CloseReadEnd
  <1>11. CASE Reap
    BY <1>11 DEF Reap
  <1>12. ASSUME NEW w \in {"child", "helper"}, Write(w) PROVE Places'
    BY <1>12 DEF Write
  <1>13. ASSUME NEW w \in {"child", "helper"}, CloseOutput(w) PROVE Places'
    BY <1>13 DEF CloseOutput
  <1>14. CASE LeaveHelper
    BY <1>14 DEF LeaveHelper
  <1>15. CASE ChildExits
    BY <1>15 DEF ChildExits, Ends
  <1>16. CASE DeadlinePasses
    BY <1>16 DEF DeadlinePasses
  <1>17. CASE UNCHANGED vars
    BY <1>17 DEF vars
  <1> QED
    BY <1>1, <1>2, <1>3, <1>4, <1>5, <1>6, <1>7, <1>8, <1>9, <1>10, <1>11, <1>12,
       <1>13, <1>14, <1>15, <1>16, <1>17 DEF Next, Parent, Others

(* What is known of the child and the pipe stays true, from the fork to the
   return. *)
LEMMA ControlPreserved ==
    ASSUME Places, Numbers, Fresh, Informed, Decided, ReturnLeavesNothing, [Next]_vars
    PROVE  Fresh' /\ Informed' /\ Decided' /\ ReturnLeavesNothing'
  <1> USE CommandAssumption DEF Places, Fresh, Informed, Decided, ReturnLeavesNothing, InLoop, Labels,
       Results, Errors, Codes, World, parent
  <1>1. CASE Pipe
    BY <1>1 DEF Pipe
  <1>2. CASE Fork
    BY <1>2 DEF Fork
  <1>3. CASE ReadSome
    <2>1. /\ pc = "read" /\ inPipe # 0
          /\ \/ result' = "over limit" /\ pc' = "kill"
             \/ pc' = pc /\ result' = result
      <3> HIDE DEF Places, Fresh, Informed, Decided, ReturnLeavesNothing
      <3>1. pc = "read" /\ inPipe > 0 /\ inPipe \in Nat
        BY <1>3, ReadFacts DEF ReadSome
      <3>2. (result' = "over limit" /\ pc' = "kill") \/ (pc' = pc /\ result' = result)
        BY <1>3, ReadFacts
      <3>3. inPipe # 0
        BY <3>1
      <3> QED BY <3>1, <3>2, <3>3, Zenon
    <2>2. UNCHANGED <<pipe_closed, child_done, status, open, child, code, writers,
                      written, late, ignored>>
      BY <1>3, ReadFacts
    <2> QED BY <2>1, <2>2
  <1>4. CASE ReadNothing
    BY <1>4 DEF ReadNothing
  <1>5. CASE ReadFails
    BY <1>5 DEF ReadFails, GiveUp
  <1>6. CASE WaitNoHang
    <2>0. /\ pc = "wait"
          /\ UNCHANGED <<output, pipe_closed, code, writers, inPipe, written, late, ignored>>
      BY <1>6 DEF WaitNoHang
    <2>1. CASE /\ child_done \/ child = "running"
               /\ pc' = "clock" /\ UNCHANGED <<result, child_done, status, open, child>>
      BY <2>0, <2>1
    <2>2. CASE /\ ~child_done /\ child = "zombie"
               /\ child' = "reaped" /\ child_done' = TRUE /\ status' = code
               /\ pc' = "clock" /\ UNCHANGED <<result, open>>
      BY <2>0, <2>2
    <2>3. CASE /\ ~child_done /\ child = "reaped"
               /\ result' = "no wait" /\ open' = {} /\ pc' = "returned"
               /\ UNCHANGED <<child_done, status, child>>
      BY <2>0, <2>3
    <2> QED BY <1>6, <2>1, <2>2, <2>3, Zenon DEF WaitNoHang
  <1>7. CASE CheckClock
    BY <1>7 DEF CheckClock, GiveUp
  <1>8. CASE Finish
    BY <1>8 DEF Finish
  <1>9. CASE Kill
    BY <1>9 DEF Kill, Ends
  <1>10. CASE CloseReadEnd
    BY <1>10 DEF CloseReadEnd
  <1>11. CASE Reap
    BY <1>11 DEF Reap
  <1>12. ASSUME NEW w \in {"child", "helper"}, Write(w) PROVE Fresh' /\ Informed' /\ Decided' /\ ReturnLeavesNothing'
    BY <1>12 DEF Write
  <1>13. ASSUME NEW w \in {"child", "helper"}, CloseOutput(w) PROVE Fresh' /\ Informed' /\ Decided' /\ ReturnLeavesNothing'
    BY <1>13 DEF CloseOutput
  <1>14. CASE LeaveHelper
    BY <1>14 DEF LeaveHelper
  <1>15. CASE ChildExits
    BY <1>15 DEF ChildExits, Ends
  <1>16. CASE DeadlinePasses
    BY <1>16 DEF DeadlinePasses
  <1>17. CASE UNCHANGED vars
    BY <1>17 DEF vars
  <1> QED
    BY <1>1, <1>2, <1>3, <1>4, <1>5, <1>6, <1>7, <1>8, <1>9, <1>10, <1>11, <1>12,
       <1>13, <1>14, <1>15, <1>16, <1>17 DEF Next, Parent, Others

(* Nothing that was written is lost, and each error is true. *)
LEMMA OutputPreserved ==
    ASSUME Numbers, Places, Fresh, Informed, Decided, Conserved, ErrorsAreTrue, [Next]_vars
    PROVE  Conserved' /\ ErrorsAreTrue'
  <1> USE CommandAssumption DEF Numbers, Fresh, Informed, Decided, Conserved, ErrorsAreTrue, InLoop,
       World, parent
  <1>1. CASE Pipe
    BY <1>1 DEF Pipe
  <1>2. CASE Fork
    BY <1>2 DEF Fork
  <1>3. CASE ReadSome
    <2>1. PICK n \in Nat :
             /\ 0 < n /\ n <= inPipe /\ inPipe' = inPipe - n
             /\ \/ output + n > MaxOutput /\ result' = "over limit" /\ output' = output
                \/ output' = output + n /\ result' = result
      BY <1>3, ReadFacts
    <2>2. /\ pc = "read"
          /\ UNCHANGED <<pipe_closed, child_done, status, open, child, code, writers,
                         written, late, ignored>>
      BY <1>3, ReadFacts
    <2>3. result = "none" /\ output + inPipe = written
      BY <2>2
    <2>4. CASE output + n > MaxOutput /\ result' = "over limit" /\ output' = output
      <3>1. written > MaxOutput
        <4> HIDE DEF Numbers, Fresh, Informed, Decided, Conserved, ErrorsAreTrue
        <4>1. output \in Int /\ inPipe \in Int /\ written \in Int /\ MaxOutput \in Int
          BY NumbersAreIntegers
        <4>2. n <= inPipe /\ n \in Int
          <5>1. n \in Int
            OBVIOUS
          <5>2. n <= inPipe
            BY <2>1
          <5> QED BY <5>1, <5>2
        <4>3. output + n > MaxOutput
          BY <2>4
        <4>4. output + inPipe = written
          BY <2>3
        <4> QED BY <4>1, <4>2, <4>3, <4>4
      <3> QED BY <2>2, <2>4, <3>1
    <2>5. CASE output' = output + n /\ result' = result
      <3>1. output' + inPipe' = written'
        BY <2>1, <2>2, <2>3, <2>5
      <3> QED BY <2>2, <2>3, <2>5, <3>1
    <2> QED BY <2>1, <2>4, <2>5
  <1>4. CASE ReadNothing
    BY <1>4 DEF ReadNothing
  <1>5. CASE ReadFails
    BY <1>5 DEF ReadFails, GiveUp
  <1>6. CASE WaitNoHang
    BY <1>6 DEF WaitNoHang
  <1>7. CASE CheckClock
    BY <1>7 DEF CheckClock, GiveUp
  <1>8. CASE Finish
    <2>1. code \in {"zero", "nonzero", "signal"} /\ status = code
      BY <1>8 DEF Finish, Places, Codes
    <2> QED BY <1>8, <2>1 DEF Finish
  <1>9. CASE Kill
    BY <1>9 DEF Kill, Ends
  <1>10. CASE CloseReadEnd
    BY <1>10 DEF CloseReadEnd
  <1>11. CASE Reap
    BY <1>11 DEF Reap
  <1>12. ASSUME NEW w \in {"child", "helper"}, Write(w)
         PROVE  Conserved' /\ ErrorsAreTrue'
    <2>1. /\ inPipe' = inPipe + 1 /\ written' = written + 1
          /\ UNCHANGED <<result, output, code, late, ignored>>
      BY <1>12 DEF Write
    <2>2. output \in Int /\ inPipe \in Int /\ written \in Int /\ MaxOutput \in Int
      <3> HIDE DEF Numbers, Fresh, Informed, Decided, Conserved, ErrorsAreTrue
      <3> QED BY NumbersAreIntegers
    <2>3. output + inPipe = written => output' + inPipe' = written'
      <3> HIDE DEF Numbers, Fresh, Informed, Decided, Conserved, ErrorsAreTrue
      <3> QED BY <2>1, <2>2
    <2>4. written > MaxOutput => written' > MaxOutput
      <3> HIDE DEF Numbers, Fresh, Informed, Decided, Conserved, ErrorsAreTrue
      <3> QED BY <2>1, <2>2
    <2>5. Conserved'
      BY <2>1, <2>3
    <2>6. ErrorsAreTrue'
      BY <2>1, <2>4
    <2> QED BY <2>5, <2>6
  <1>13. ASSUME NEW w \in {"child", "helper"}, CloseOutput(w) PROVE Conserved' /\ ErrorsAreTrue'
    BY <1>13 DEF CloseOutput
  <1>14. CASE LeaveHelper
    BY <1>14 DEF LeaveHelper
  <1>15. CASE ChildExits
    BY <1>15 DEF ChildExits, Ends
  <1>16. CASE DeadlinePasses
    BY <1>16 DEF DeadlinePasses
  <1>17. CASE UNCHANGED vars
    BY <1>17 DEF vars
  <1> QED
    BY <1>1, <1>2, <1>3, <1>4, <1>5, <1>6, <1>7, <1>8, <1>9, <1>10, <1>11, <1>12,
       <1>13, <1>14, <1>15, <1>16, <1>17 DEF Next, Parent, Others

-----------------------------------------------------------------------------
(* The inductive invariant holds of every run. *)
LEMMA AllInvariants == Spec => []IInv
  <1>1. Init => IInv
    <2> SUFFICES ASSUME Init PROVE IInv
      OBVIOUS
    <2>1. Flags
      BY Zenon DEF Init, Flags
    <2>2. Numbers /\ Places
      BY CommandAssumption DEF Init, Numbers, Places, Labels, Results, Codes
    <2>3. Fresh /\ Conserved /\ Informed /\ Decided /\ ErrorsAreTrue /\ ReturnLeavesNothing
      BY DEF Init, Fresh, Conserved, Informed, Decided, ErrorsAreTrue,
             ReturnLeavesNothing, InLoop
    <2> QED BY <2>1, <2>2, <2>3, TypeParts DEF IInv
  <1>2. IInv /\ [Next]_vars => IInv'
    <2> SUFFICES ASSUME IInv, [Next]_vars PROVE IInv'
      OBVIOUS
    <2>1. /\ Flags /\ Numbers /\ Places /\ Fresh /\ Conserved /\ Informed /\ Decided
          /\ ErrorsAreTrue /\ ReturnLeavesNothing
      BY TypeParts DEF IInv
    <2>2. Flags' /\ Numbers' /\ Places'
      BY <2>1, FlagsPreserved, NumbersPreserved, PlacesPreserved
    <2>3. TypeOK'
      BY <2>2 DEF TypeOK, Flags, Numbers, Places
    <2>4. Fresh' /\ Informed' /\ Decided' /\ ReturnLeavesNothing'
      BY <2>1, ControlPreserved
    <2>5. Conserved' /\ ErrorsAreTrue'
      BY <2>1, OutputPreserved
    <2> QED BY <2>3, <2>4, <2>5 DEF IInv
  <1> QED BY <1>1, <1>2, PTL DEF Spec

(* A package inventory that is reported is the whole output of a command that
   exited with 0, however exit, end of file, limit and deadline race. *)
THEOREM SuccessIsWhole == Spec => []OkIsWhole
  <1>1. IInv => OkIsWhole
    <2> SUFFICES ASSUME IInv, result = "ok" PROVE output = written /\ writers = {} /\ code = "zero"
      BY DEF OkIsWhole
    <2>1. /\ output + inPipe = written /\ writers = {} /\ inPipe = 0 /\ code = "zero"
      BY DEF IInv, Conserved, Informed, Decided
    <2>2. output \in 0 .. MaxOutput
      BY DEF IInv, TypeOK
    <2> QED BY <2>1, <2>2, CommandAssumption
  <1> QED BY <1>1, AllInvariants, PTL

(* Each error it returns is true of the command. *)
THEOREM TrueErrors == Spec => []ErrorsAreTrue
  <1>1. IInv => ErrorsAreTrue
    BY DEF IInv
  <1> QED BY <1>1, AllInvariants, PTL

(* It leaves neither a zombie nor a descriptor behind. *)
THEOREM LeavesNothing == Spec => []ReturnLeavesNothing
  <1>1. IInv => ReturnLeavesNothing
    BY DEF IInv
  <1> QED BY <1>1, AllInvariants, PTL
=============================================================================
