---------------------------- MODULE WorkerProofs ----------------------------
(***************************************************************************)
(* The one-shot worker keeps its promises in every interleaving of the     *)
(* controller, its writer task, the helper, its descendants and a          *)
(* competing reaper: ReapedOnReturn, DescriptorsClosed, NoStraySignal,     *)
(* KillSparesFinished and ReportIsWhole.                                   *)
(*                                                                         *)
(* What a return finds was arranged several steps before it, so each of    *)
(* these needs to know what holds at every place of runRite on the way     *)
(* there.  The strengthening has six parts: the writer's progress, the     *)
(* life of the child, the pipes, the failures, the response and signals.   *)
(***************************************************************************)
EXTENDS Worker, TLAPS

\* The places of runRite before it has a child, and before it reads no more.
Unspawned == {"idle", "group", "spawn"}
Exchanging == Unspawned \cup {"attach", "start", "reply", "eof"}

\* The writer has written what its place says; a killed controller's task is gone.
WriterInv ==
  /\ ctl # "dead" /\ task \in {"none", "header"} => sent = 0
  /\ task = "body" => sent = 1
  /\ ctl = "dead" => task = "none"
  /\ ctl \in Exchanging \ {"reply", "eof"} => task = "none"

\* The child exists from the spawn on, is reaped by runRite or by a thief, and
\* what was killed with its group stays dead.
ChildInv ==
  /\ ctl \in Unspawned => child = "none"
  /\ child = "none" =>
       stragglers = "none" /\ ctl \in Unspawned \cup {"returned", "dead"}
  /\ child = "reaped" /\ ~stolen => ctl \in {"close", "returned", "dead"}
  /\ ctl \in {"wait", "reaping"} \/ (ctl = "await" /\ response_failure # "none")
       => child # "running" /\ stragglers = "none"
  /\ ctl = "cancel" => stolen
  /\ ctl = "close" /\ ~stolen => child = "reaped" /\ stragglers = "none"
  /\ ReapedOnReturn

\* Who owns the request pipe, and how long the response pipe stays open.
PipesInv ==
  /\ ctl \in Unspawned => input = "closed" /\ ~out_open
  /\ ctl \in {"attach", "start"} => input = "child"
  /\ ctl \in {"reap", "ending", "reaping"} => input # "open" /\ task = "none"
  /\ ctl \in {"reply", "eof", "fail", "failing", "await"} => task # "none"
  /\ ctl \in {"kill", "killing", "wait"} => task \in {"done", "failed"} /\ ~out_open
  /\ task \in {"header", "body"} =>
       /\ input = "open"
       /\ ctl \in {"reply", "eof", "fail", "failing", "await", "cancel"}
  /\ task \in {"done", "failed"} => input = "closed"
  /\ ctl = "close" /\ ~stolen => input = "closed"
  /\ DescriptorsClosed

\* A failed read is followed by the kill, and only a failed read is; a stream that
\* was read to its end has no writer left that a kill could end.
FailureInv ==
  /\ ctl \in Exchanging \cup {"kill", "killing"} => response_failure = "none"
  /\ ctl \in {"fail", "failing"} => response_failure # "none"
  /\ ctl \in Exchanging \cup {"fail", "failing"} => exit # "killed"
  /\ ctl \in {"await", "kill", "killing", "wait"} /\ response_failure = "none"
       => child # "running" /\ exit # "killed"

\* A complete response is the last thing a helper writes; a report is the reply to
\* a request that was read to its end.
ResponseInv ==
  /\ stage \in {"eof", "execute"} => received = 2
  /\ stage \in {"respond", "finish", "exit"} /\ reply = "report" => received = 2
  /\ stage \in {"respond", "finish", "exit"} => reply # "none"
  /\ response \in Replies => stage = "exit" /\ response = reply
  /\ ctl = "eof" \/
       (ctl \in {"await", "kill", "killing", "wait"} /\ response_failure = "none")
       => response \in Replies \ {"malformed"}
  /\ result = "report" => ctl = "returned" /\ child = "reaped"
  /\ ReportIsWhole

\* Between a probe and its signal the helper waits for runRite, unless the other
\* reaper came just then.
SignalInv ==
  /\ ctl \in {"failing", "killing", "ending"} => Owned \/ raced
  /\ NoStraySignal

WorkerInv ==
  TypeOK /\ WriterInv /\ ChildInv /\ PipesInv /\ FailureInv /\ ResponseInv
  /\ SignalInv

\* What the controller concludes from an exit status, and when it is a report.
LEMMA Classified ==
  ASSUME TypeOK, FailureInv, ResponseInv, ctl = "wait"
  PROVE  /\ Classify(exit) \in Results
         /\ Classify(exit) = "report" => response = "report" /\ exit = "ok"
<1>0. /\ response_failure \in Failures
      /\ write_failure \in {"none", "Timeout", "TransportFailure"}
  BY DEF TypeOK
<1>1. CASE exit = "cpu" \/ "Timeout" \in {response_failure, write_failure}
  <2>1. Classify(exit) \in {"process_cpu", "process_wall"}
    BY <1>1 DEF Classify
  <2> QED BY <2>1 DEF Results
<1>2. CASE ~(exit = "cpu" \/ "Timeout" \in {response_failure, write_failure})
  <2>1. CASE response_failure # "none"
    <3>1. /\ exit # "cpu" /\ write_failure # "Timeout"
          /\ response_failure \notin {"none", "Timeout"}
      BY <1>2, <2>1
    <3>2. response_failure \in {"TransportFailure", "ProtocolMismatch", "OutOfMemory"}
      BY <1>0, <3>1 DEF Failures
    <3>3. Classify(exit) \in {"TransportFailure", "ProtocolMismatch", "OutOfMemory"}
      BY <3>1, <3>2 DEF Classify
    <3> QED BY <3>3 DEF Results
  <2>2. CASE response_failure = "none"
    <3>1. response \in {"report", "bootstrap_limit", "worker_error"}
      BY <2>2 DEF ResponseInv, Replies
    <3>2. Classify(exit) =
            IF ~WriteFailureAllowed THEN "TransportFailure"
            ELSE IF exit # "ok" THEN "WorkerFailed"
            ELSE [report |-> "report", bootstrap_limit |-> "limit",
                  worker_error |-> "WorkerFailed"][response]
      BY <1>2, <2>2 DEF Classify
    <3> QED BY <3>1, <3>2 DEF Results
  <2> QED BY <2>1, <2>2
<1> QED BY <1>1, <1>2

\* Every step keeps the types; the writer stays ahead of the helper.
LEMMA TypeStep ==
  ASSUME TypeOK, WriterInv, FailureInv, ResponseInv, [Next]_vars
  PROVE  TypeOK'
<1> USE DEF TypeOK, WriterInv, FailureInv, ResponseInv, Failures, Results, Replies
<1>1. CASE Controller
  <2>1. CASE Refuse
    BY <2>1 DEF Refuse, Return, taskVars, helperVars, kernelVars
  <2>2. CASE Begin
    BY <2>2 DEF Begin, taskVars, helperVars, kernelVars
  <2>3. CASE CreateGroup
    <3>1. out_open' \in BOOLEAN /\ leaf' \in BOOLEAN
      BY <2>3, Zenon DEF CreateGroup
    <3>2. ctl' \in {"spawn", "returned"} /\ result' \in {result, "CgroupUnavailable"}
      BY <2>3 DEF CreateGroup, Return
    <3> QED BY <2>3, <3>1, <3>2 DEF CreateGroup, taskVars, helperVars, kernelVars
  <2>4. CASE SpawnWorker
    BY <2>4 DEF SpawnWorker, taskVars, kernelVars
  <2>5. CASE SpawnFails
    BY <2>5 DEF SpawnFails, Return, taskVars, helperVars, kernelVars
  <2>6. CASE Attach
    BY <2>6 DEF Attach, taskVars, helperVars, kernelVars
  <2>7. CASE StartWriter
    BY <2>7 DEF StartWriter, helperVars, kernelVars
  <2>8. CASE WriterUnavailable
    BY <2>8 DEF WriterUnavailable, taskVars, helperVars, kernelVars
  <2>9. CASE ReadReply
    BY <2>9 DEF ReadReply, Replies, taskVars, helperVars, kernelVars
  <2>10. CASE ReadEnd
    BY <2>10 DEF ReadEnd, StreamEnded, taskVars, helperVars, kernelVars
  <2>11. CASE ReadFails
    BY <2>11
    DEF ReadFails, TimeIsUp, StreamEnded, taskVars, helperVars, kernelVars
  <2>12. CASE KillAfterFailure
    BY <2>12 DEF KillAfterFailure, HardKillGroupAndChild, taskVars
  <2>13. CASE OwnershipLost
    BY <2>13 DEF OwnershipLost, Verified, Owned, taskVars, helperVars, kernelVars
  <2>14. CASE AwaitWriter
    <3>1. out_open' \in BOOLEAN /\ leaf' \in BOOLEAN
      BY <2>14, Zenon DEF AwaitWriter
    <3> QED BY <2>14, <3>1 DEF AwaitWriter, taskVars, helperVars, kernelVars
  <2>15. CASE KillGroup
    BY <2>15 DEF KillGroup, HardKillGroupAndChild, taskVars
  <2>16. CASE Wait
    <3>1. out_open' \in BOOLEAN /\ leaf' \in BOOLEAN
      BY <2>16, Zenon DEF Wait
    <3>2. ctl' = "returned" /\ result' \in Results /\ child' = "reaped"
      BY <2>16, Classified DEF Wait, Return
    <3>3. UNCHANGED <<response_failure, with_group, input, taskVars, exit, stage,
                      reply, response, received, stragglers, kernelVars>>
      BY <2>16 DEF Wait
    <3> QED BY <3>1, <3>2, <3>3 DEF taskVars, kernelVars
  <2>17. CASE WaitFails
    BY <2>17 DEF WaitFails, Return, taskVars, helperVars, kernelVars
  <2>18. CASE CancelWriter
    BY <2>18 DEF CancelWriter, helperVars, kernelVars
  <2>19. CASE TerminateAndReap
    <3>1. /\ ctl' = "reaping"
          /\ child' \in {child, "exiting"} /\ exit' \in {exit, "killed"}
          /\ stragglers' = "none"
          /\ signalled' = signalled \cup {child}
      BY <2>19 DEF TerminateAndReap, HardKillGroupAndChild
    <3>2. UNCHANGED <<result, response_failure, with_group, leaf, input, out_open,
                      taskVars, stage, reply, response, received, deadline, stolen,
                      raced>>
      BY <2>19 DEF TerminateAndReap
    <3> QED BY <3>1, <3>2 DEF taskVars
  <2>20. CASE Reap
    BY <2>20 DEF Reap, taskVars, kernelVars
  <2>21. CASE CloseOutput
    BY <2>21 DEF CloseOutput, taskVars, helperVars, kernelVars
  <2>22. CASE VerifyOwnership
    BY <2>22 DEF VerifyOwnership, Verified, Owned, taskVars, helperVars, kernelVars
  <2> QED BY <1>1, <2>1, <2>2, <2>3, <2>4, <2>5, <2>6, <2>7, <2>8, <2>9, <2>10,
     <2>11, <2>12, <2>13, <2>14, <2>15, <2>16, <2>17, <2>18, <2>19,
     <2>20, <2>21, <2>22
     DEF Controller
<1>2. CASE Writer
  <2>1. CASE WriteHeader
    BY <2>1 DEF WriteHeader, BrokenPipe, ctlVars, helperVars, kernelVars
  <2>2. CASE WriteBody
    BY <2>2 DEF WriteBody, BrokenPipe, ctlVars, helperVars, kernelVars
  <2>3. CASE WriteFails
    BY <2>3
    DEF WriteFails, TimeIsUp, BrokenPipe, ctlVars, helperVars, kernelVars
  <2> QED BY <1>2, <2>1, <2>2, <2>3 DEF Writer
<1>3. CASE Helper
  <2>1. CASE HelperStarts
    BY <2>1 DEF HelperStarts, At, helperUnchanged, ctlVars, taskVars, kernelVars
  <2>2. CASE ReadHeader
    BY <2>2
    DEF ReadHeader, At, InputEnded, Answer, helperUnchanged, ctlVars, taskVars,
        kernelVars
  <2>3. CASE InstallLimits
    BY <2>3
    DEF InstallLimits, At, Answer, helperUnchanged, ctlVars, taskVars,
        kernelVars
  <2>4. CASE ReadBody
    BY <2>4
    DEF ReadBody, At, InputEnded, Answer, helperUnchanged, ctlVars, taskVars,
        kernelVars
  <2>5. CASE ReadInputEnd
    BY <2>5
    DEF ReadInputEnd, At, InputEnded, helperUnchanged, ctlVars, taskVars,
        kernelVars
  <2>6. CASE Execute
    BY <2>6
    DEF Execute, At, Replies, Answer, helperUnchanged, ctlVars, taskVars,
        kernelVars
  <2>7. CASE WriteResponse
    BY <2>7
    DEF WriteResponse, At, helperUnchanged, ctlVars, taskVars, kernelVars
  <2>8. CASE FinishResponse
    BY <2>8
    DEF FinishResponse, At, helperUnchanged, ctlVars, taskVars, kernelVars
  <2>9. CASE HelperExits
    BY <2>9 DEF HelperExits, At, helperUnchanged, ctlVars, taskVars, kernelVars
  <2> QED BY <1>3, <2>1, <2>2, <2>3, <2>4, <2>5, <2>6, <2>7, <2>8, <2>9
     DEF Helper
<1>4. CASE Fork
  BY <1>4 DEF Fork, At, helperUnchanged, ctlVars, taskVars, kernelVars
<1>5. CASE \E status \in {"failed", "cpu"} : Crash(status)
  BY <1>5 DEF Crash, helperUnchanged, ctlVars, taskVars, kernelVars
<1>6. CASE StragglerExits
  BY <1>6 DEF StragglerExits, helperUnchanged, ctlVars, taskVars, kernelVars
<1>7. CASE BecomeZombie
  BY <1>7 DEF BecomeZombie, helperUnchanged, ctlVars, taskVars, kernelVars
<1>8. CASE CompetingReaper
  BY <1>8 DEF CompetingReaper, ctlVars, taskVars
<1>9. CASE DeadlinePasses
  BY <1>9 DEF DeadlinePasses, ctlVars, taskVars, helperVars
<1>10. CASE ControllerDies
  <2>1. out_open' \in BOOLEAN /\ leaf' \in BOOLEAN
    BY <1>10, Zenon DEF ControllerDies
  <2> QED BY <1>10, <2>1 DEF ControllerDies, taskVars, helperVars, kernelVars
<1>11. CASE UNCHANGED vars
  BY <1>11 DEF vars, ctlVars, taskVars, helperVars, kernelVars
<1> QED BY <1>1, <1>2, <1>3, <1>4, <1>5, <1>6, <1>7, <1>8, <1>9, <1>10, <1>11 DEF Next, Ended

\* Every step keeps track of what was written.
LEMMA WriterStep ==
  ASSUME WriterInv, [Next]_vars
  PROVE  WriterInv'
<1> USE DEF WriterInv, Exchanging, Unspawned
<1>1. CASE Controller
  <2>1. CASE Refuse
    BY <2>1 DEF Refuse, Return, taskVars, helperVars, kernelVars
  <2>2. CASE Begin
    BY <2>2 DEF Begin, taskVars, helperVars, kernelVars
  <2>3. CASE CreateGroup
    BY <2>3 DEF CreateGroup, Return, taskVars, helperVars, kernelVars
  <2>4. CASE SpawnWorker
    BY <2>4 DEF SpawnWorker, taskVars, kernelVars
  <2>5. CASE SpawnFails
    BY <2>5 DEF SpawnFails, Return, taskVars, helperVars, kernelVars
  <2>6. CASE Attach
    BY <2>6 DEF Attach, taskVars, helperVars, kernelVars
  <2>7. CASE StartWriter
    BY <2>7 DEF StartWriter, helperVars, kernelVars
  <2>8. CASE WriterUnavailable
    BY <2>8 DEF WriterUnavailable, taskVars, helperVars, kernelVars
  <2>9. CASE ReadReply
    BY <2>9 DEF ReadReply, Replies, taskVars, helperVars, kernelVars
  <2>10. CASE ReadEnd
    BY <2>10 DEF ReadEnd, StreamEnded, taskVars, helperVars, kernelVars
  <2>11. CASE ReadFails
    BY <2>11
    DEF ReadFails, TimeIsUp, StreamEnded, taskVars, helperVars, kernelVars
  <2>12. CASE KillAfterFailure
    BY <2>12 DEF KillAfterFailure, HardKillGroupAndChild, taskVars
  <2>13. CASE OwnershipLost
    BY <2>13 DEF OwnershipLost, Verified, Owned, taskVars, helperVars, kernelVars
  <2>14. CASE AwaitWriter
    BY <2>14 DEF AwaitWriter, taskVars, helperVars, kernelVars
  <2>15. CASE KillGroup
    BY <2>15 DEF KillGroup, HardKillGroupAndChild, taskVars
  <2>16. CASE Wait
    BY <2>16
    DEF Wait, Return, Classify, WriteFailureAllowed, taskVars, kernelVars
  <2>17. CASE WaitFails
    BY <2>17 DEF WaitFails, Return, taskVars, helperVars, kernelVars
  <2>18. CASE CancelWriter
    BY <2>18 DEF CancelWriter, helperVars, kernelVars
  <2>19. CASE TerminateAndReap
    BY <2>19 DEF TerminateAndReap, HardKillGroupAndChild, taskVars
  <2>20. CASE Reap
    BY <2>20 DEF Reap, taskVars, kernelVars
  <2>21. CASE CloseOutput
    BY <2>21 DEF CloseOutput, taskVars, helperVars, kernelVars
  <2>22. CASE VerifyOwnership
    BY <2>22 DEF VerifyOwnership, Verified, Owned, taskVars, helperVars, kernelVars
  <2> QED BY <1>1, <2>1, <2>2, <2>3, <2>4, <2>5, <2>6, <2>7, <2>8, <2>9, <2>10,
     <2>11, <2>12, <2>13, <2>14, <2>15, <2>16, <2>17, <2>18, <2>19,
     <2>20, <2>21, <2>22
     DEF Controller
<1>2. CASE Writer
  <2>1. CASE WriteHeader
    BY <2>1 DEF WriteHeader, BrokenPipe, ctlVars, helperVars, kernelVars
  <2>2. CASE WriteBody
    BY <2>2 DEF WriteBody, BrokenPipe, ctlVars, helperVars, kernelVars
  <2>3. CASE WriteFails
    BY <2>3
    DEF WriteFails, TimeIsUp, BrokenPipe, ctlVars, helperVars, kernelVars
  <2> QED BY <1>2, <2>1, <2>2, <2>3 DEF Writer
<1>3. CASE Helper
  <2>1. UNCHANGED <<ctlVars, taskVars>>
    BY <1>3
    DEF Helper, HelperStarts, ReadHeader, InstallLimits, ReadBody, ReadInputEnd,
        Execute, WriteResponse, FinishResponse, HelperExits, helperUnchanged
  <2> QED BY <2>1 DEF ctlVars, taskVars
<1>4. CASE Fork
  BY <1>4 DEF Fork, At, helperUnchanged, ctlVars, taskVars, kernelVars
<1>5. CASE \E status \in {"failed", "cpu"} : Crash(status)
  BY <1>5 DEF Crash, helperUnchanged, ctlVars, taskVars, kernelVars
<1>6. CASE StragglerExits
  BY <1>6 DEF StragglerExits, helperUnchanged, ctlVars, taskVars, kernelVars
<1>7. CASE BecomeZombie
  BY <1>7 DEF BecomeZombie, helperUnchanged, ctlVars, taskVars, kernelVars
<1>8. CASE CompetingReaper
  BY <1>8 DEF CompetingReaper, ctlVars, taskVars
<1>9. CASE DeadlinePasses
  BY <1>9 DEF DeadlinePasses, ctlVars, taskVars, helperVars
<1>10. CASE ControllerDies
  BY <1>10 DEF ControllerDies, helperVars, kernelVars
<1>11. CASE UNCHANGED vars
  BY <1>11 DEF vars, ctlVars, taskVars, helperVars, kernelVars
<1> QED BY <1>1, <1>2, <1>3, <1>4, <1>5, <1>6, <1>7, <1>8, <1>9, <1>10, <1>11 DEF Next, Ended

\* Every step keeps track of the child, its group and the thief.
LEMMA ChildStep ==
  ASSUME TypeOK, FailureInv, ChildInv, [Next]_vars
  PROVE  ChildInv'
<1> USE DEF TypeOK, FailureInv, ChildInv, ReapedOnReturn, Unspawned, Exchanging
<1>1. CASE Controller
  <2>1. CASE Refuse
    BY <2>1 DEF Refuse, Return, taskVars, helperVars, kernelVars
  <2>2. CASE Begin
    BY <2>2 DEF Begin, taskVars, helperVars, kernelVars
  <2>3. CASE CreateGroup
    BY <2>3 DEF CreateGroup, Return, taskVars, helperVars, kernelVars
  <2>4. CASE SpawnWorker
    BY <2>4 DEF SpawnWorker, taskVars, kernelVars
  <2>5. CASE SpawnFails
    BY <2>5 DEF SpawnFails, Return, taskVars, helperVars, kernelVars
  <2>6. CASE Attach
    BY <2>6 DEF Attach, taskVars, helperVars, kernelVars
  <2>7. CASE StartWriter
    BY <2>7 DEF StartWriter, helperVars, kernelVars
  <2>8. CASE WriterUnavailable
    BY <2>8 DEF WriterUnavailable, taskVars, helperVars, kernelVars
  <2>9. CASE ReadReply
    BY <2>9 DEF ReadReply, Replies, taskVars, helperVars, kernelVars
  <2>10. CASE ReadEnd
    BY <2>10 DEF ReadEnd, StreamEnded, taskVars, helperVars, kernelVars
  <2>11. CASE ReadFails
    BY <2>11
    DEF ReadFails, TimeIsUp, StreamEnded, taskVars, helperVars, kernelVars
  <2>12. CASE KillAfterFailure
    BY <2>12 DEF KillAfterFailure, HardKillGroupAndChild, taskVars
  <2>13. CASE OwnershipLost
    BY <2>13 DEF OwnershipLost, Verified, Owned, taskVars, helperVars, kernelVars
  <2>14. CASE AwaitWriter
    BY <2>14 DEF AwaitWriter, taskVars, helperVars, kernelVars
  <2>15. CASE KillGroup
    BY <2>15 DEF KillGroup, HardKillGroupAndChild, taskVars
  <2>16. CASE Wait
    BY <2>16
    DEF Wait, Return, Classify, WriteFailureAllowed, taskVars, kernelVars
  <2>17. CASE WaitFails
    BY <2>17 DEF WaitFails, Return, taskVars, helperVars, kernelVars
  <2>18. CASE CancelWriter
    BY <2>18 DEF CancelWriter, helperVars, kernelVars
  <2>19. CASE TerminateAndReap
    BY <2>19 DEF TerminateAndReap, HardKillGroupAndChild, taskVars
  <2>20. CASE Reap
    BY <2>20 DEF Reap, taskVars, kernelVars
  <2>21. CASE CloseOutput
    BY <2>21 DEF CloseOutput, taskVars, helperVars, kernelVars
  <2>22. CASE VerifyOwnership
    BY <2>22 DEF VerifyOwnership, Verified, Owned, taskVars, helperVars, kernelVars
  <2> QED BY <1>1, <2>1, <2>2, <2>3, <2>4, <2>5, <2>6, <2>7, <2>8, <2>9, <2>10,
     <2>11, <2>12, <2>13, <2>14, <2>15, <2>16, <2>17, <2>18, <2>19,
     <2>20, <2>21, <2>22
     DEF Controller
<1>2. CASE Writer
  <2>1. UNCHANGED <<ctlVars, helperVars, kernelVars>>
    BY <1>2 DEF Writer, WriteHeader, WriteBody, WriteFails
  <2> QED BY <2>1 DEF ctlVars, helperVars, kernelVars
<1>3. CASE Helper
  <2>1. CASE HelperStarts
    BY <2>1 DEF HelperStarts, At, helperUnchanged, ctlVars, taskVars, kernelVars
  <2>2. CASE ReadHeader
    BY <2>2
    DEF ReadHeader, At, InputEnded, Answer, helperUnchanged, ctlVars, taskVars,
        kernelVars
  <2>3. CASE InstallLimits
    BY <2>3
    DEF InstallLimits, At, Answer, helperUnchanged, ctlVars, taskVars,
        kernelVars
  <2>4. CASE ReadBody
    BY <2>4
    DEF ReadBody, At, InputEnded, Answer, helperUnchanged, ctlVars, taskVars,
        kernelVars
  <2>5. CASE ReadInputEnd
    BY <2>5
    DEF ReadInputEnd, At, InputEnded, helperUnchanged, ctlVars, taskVars,
        kernelVars
  <2>6. CASE Execute
    BY <2>6
    DEF Execute, At, Replies, Answer, helperUnchanged, ctlVars, taskVars,
        kernelVars
  <2>7. CASE WriteResponse
    BY <2>7
    DEF WriteResponse, At, helperUnchanged, ctlVars, taskVars, kernelVars
  <2>8. CASE FinishResponse
    BY <2>8
    DEF FinishResponse, At, helperUnchanged, ctlVars, taskVars, kernelVars
  <2>9. CASE HelperExits
    BY <2>9 DEF HelperExits, At, helperUnchanged, ctlVars, taskVars, kernelVars
  <2> QED BY <1>3, <2>1, <2>2, <2>3, <2>4, <2>5, <2>6, <2>7, <2>8, <2>9
     DEF Helper
<1>4. CASE Fork
  BY <1>4 DEF Fork, At, helperUnchanged, ctlVars, taskVars, kernelVars
<1>5. CASE \E status \in {"failed", "cpu"} : Crash(status)
  BY <1>5 DEF Crash, helperUnchanged, ctlVars, taskVars, kernelVars
<1>6. CASE StragglerExits
  BY <1>6 DEF StragglerExits, helperUnchanged, ctlVars, taskVars, kernelVars
<1>7. CASE BecomeZombie
  BY <1>7 DEF BecomeZombie, helperUnchanged, ctlVars, taskVars, kernelVars
<1>8. CASE CompetingReaper
  BY <1>8 DEF CompetingReaper, ctlVars, taskVars
<1>9. CASE DeadlinePasses
  BY <1>9 DEF DeadlinePasses, ctlVars, taskVars, helperVars
<1>10. CASE ControllerDies
  BY <1>10 DEF ControllerDies, helperVars, kernelVars
<1>11. CASE UNCHANGED vars
  BY <1>11 DEF vars, ctlVars, taskVars, helperVars, kernelVars
<1> QED BY <1>1, <1>2, <1>3, <1>4, <1>5, <1>6, <1>7, <1>8, <1>9, <1>10, <1>11 DEF Next, Ended

\* Every step keeps track of the pipes.
LEMMA PipesStep ==
  ASSUME TypeOK, WriterInv, ChildInv, PipesInv, [Next]_vars
  PROVE  PipesInv'
<1> USE DEF TypeOK, WriterInv, ChildInv, PipesInv, DescriptorsClosed, Unspawned, Exchanging
<1>1. CASE Controller
  <2>1. CASE Refuse
    BY <2>1 DEF Refuse, Return, taskVars, helperVars, kernelVars
  <2>2. CASE Begin
    BY <2>2 DEF Begin, taskVars, helperVars, kernelVars
  <2>3. CASE CreateGroup
    BY <2>3 DEF CreateGroup, Return, taskVars, helperVars, kernelVars
  <2>4. CASE SpawnWorker
    BY <2>4 DEF SpawnWorker, taskVars, kernelVars
  <2>5. CASE SpawnFails
    BY <2>5 DEF SpawnFails, Return, taskVars, helperVars, kernelVars
  <2>6. CASE Attach
    BY <2>6 DEF Attach, taskVars, helperVars, kernelVars
  <2>7. CASE StartWriter
    BY <2>7 DEF StartWriter, helperVars, kernelVars
  <2>8. CASE WriterUnavailable
    BY <2>8 DEF WriterUnavailable, taskVars, helperVars, kernelVars
  <2>9. CASE ReadReply
    BY <2>9 DEF ReadReply, Replies, taskVars, helperVars, kernelVars
  <2>10. CASE ReadEnd
    BY <2>10 DEF ReadEnd, StreamEnded, taskVars, helperVars, kernelVars
  <2>11. CASE ReadFails
    BY <2>11
    DEF ReadFails, TimeIsUp, StreamEnded, taskVars, helperVars, kernelVars
  <2>12. CASE KillAfterFailure
    BY <2>12 DEF KillAfterFailure, HardKillGroupAndChild, taskVars
  <2>13. CASE OwnershipLost
    BY <2>13 DEF OwnershipLost, Verified, Owned, taskVars, helperVars, kernelVars
  <2>14. CASE AwaitWriter
    BY <2>14 DEF AwaitWriter, taskVars, helperVars, kernelVars
  <2>15. CASE KillGroup
    BY <2>15 DEF KillGroup, HardKillGroupAndChild, taskVars
  <2>16. CASE Wait
    BY <2>16
    DEF Wait, Return, Classify, WriteFailureAllowed, taskVars, kernelVars
  <2>17. CASE WaitFails
    BY <2>17 DEF WaitFails, Return, taskVars, helperVars, kernelVars
  <2>18. CASE CancelWriter
    BY <2>18 DEF CancelWriter, helperVars, kernelVars
  <2>19. CASE TerminateAndReap
    BY <2>19 DEF TerminateAndReap, HardKillGroupAndChild, taskVars
  <2>20. CASE Reap
    BY <2>20 DEF Reap, taskVars, kernelVars
  <2>21. CASE CloseOutput
    BY <2>21 DEF CloseOutput, taskVars, helperVars, kernelVars
  <2>22. CASE VerifyOwnership
    BY <2>22 DEF VerifyOwnership, Verified, Owned, taskVars, helperVars, kernelVars
  <2> QED BY <1>1, <2>1, <2>2, <2>3, <2>4, <2>5, <2>6, <2>7, <2>8, <2>9, <2>10,
     <2>11, <2>12, <2>13, <2>14, <2>15, <2>16, <2>17, <2>18, <2>19,
     <2>20, <2>21, <2>22
     DEF Controller
<1>2. CASE Writer
  <2>1. CASE WriteHeader
    BY <2>1 DEF WriteHeader, BrokenPipe, ctlVars, helperVars, kernelVars
  <2>2. CASE WriteBody
    BY <2>2 DEF WriteBody, BrokenPipe, ctlVars, helperVars, kernelVars
  <2>3. CASE WriteFails
    BY <2>3
    DEF WriteFails, TimeIsUp, BrokenPipe, ctlVars, helperVars, kernelVars
  <2> QED BY <1>2, <2>1, <2>2, <2>3 DEF Writer
<1>3. CASE Helper
  <2>1. UNCHANGED <<ctlVars, input, out_open, taskVars, kernelVars>>
    BY <1>3
    DEF Helper, HelperStarts, ReadHeader, InstallLimits, ReadBody, ReadInputEnd,
        Execute, WriteResponse, FinishResponse, HelperExits, helperUnchanged
  <2> QED BY <2>1 DEF ctlVars, taskVars, kernelVars
<1>4. CASE Fork
  BY <1>4 DEF Fork, At, helperUnchanged, ctlVars, taskVars, kernelVars
<1>5. CASE \E status \in {"failed", "cpu"} : Crash(status)
  BY <1>5 DEF Crash, helperUnchanged, ctlVars, taskVars, kernelVars
<1>6. CASE StragglerExits
  BY <1>6 DEF StragglerExits, helperUnchanged, ctlVars, taskVars, kernelVars
<1>7. CASE BecomeZombie
  BY <1>7 DEF BecomeZombie, helperUnchanged, ctlVars, taskVars, kernelVars
<1>8. CASE CompetingReaper
  BY <1>8 DEF CompetingReaper, ctlVars, taskVars
<1>9. CASE DeadlinePasses
  BY <1>9 DEF DeadlinePasses, ctlVars, taskVars, helperVars
<1>10. CASE ControllerDies
  BY <1>10 DEF ControllerDies, helperVars, kernelVars
<1>11. CASE UNCHANGED vars
  BY <1>11 DEF vars, ctlVars, taskVars, helperVars, kernelVars
<1> QED BY <1>1, <1>2, <1>3, <1>4, <1>5, <1>6, <1>7, <1>8, <1>9, <1>10, <1>11 DEF Next, Ended

\* Every step keeps failures and kills together.
LEMMA FailureStep ==
  ASSUME TypeOK, FailureInv, [Next]_vars
  PROVE  FailureInv'
<1> USE DEF TypeOK, FailureInv, Unspawned, Exchanging
<1>1. CASE Controller
  <2>1. CASE Refuse
    BY <2>1 DEF Refuse, Return, taskVars, helperVars, kernelVars
  <2>2. CASE Begin
    BY <2>2 DEF Begin, taskVars, helperVars, kernelVars
  <2>3. CASE CreateGroup
    BY <2>3 DEF CreateGroup, Return, taskVars, helperVars, kernelVars
  <2>4. CASE SpawnWorker
    BY <2>4 DEF SpawnWorker, taskVars, kernelVars
  <2>5. CASE SpawnFails
    BY <2>5 DEF SpawnFails, Return, taskVars, helperVars, kernelVars
  <2>6. CASE Attach
    BY <2>6 DEF Attach, taskVars, helperVars, kernelVars
  <2>7. CASE StartWriter
    BY <2>7 DEF StartWriter, helperVars, kernelVars
  <2>8. CASE WriterUnavailable
    BY <2>8 DEF WriterUnavailable, taskVars, helperVars, kernelVars
  <2>9. CASE ReadReply
    BY <2>9 DEF ReadReply, Replies, taskVars, helperVars, kernelVars
  <2>10. CASE ReadEnd
    BY <2>10 DEF ReadEnd, StreamEnded, taskVars, helperVars, kernelVars
  <2>11. CASE ReadFails
    BY <2>11
    DEF ReadFails, TimeIsUp, StreamEnded, taskVars, helperVars, kernelVars
  <2>12. CASE KillAfterFailure
    BY <2>12 DEF KillAfterFailure, HardKillGroupAndChild, taskVars
  <2>13. CASE OwnershipLost
    BY <2>13 DEF OwnershipLost, Verified, Owned, taskVars, helperVars, kernelVars
  <2>14. CASE AwaitWriter
    BY <2>14 DEF AwaitWriter, taskVars, helperVars, kernelVars
  <2>15. CASE KillGroup
    BY <2>15 DEF KillGroup, HardKillGroupAndChild, taskVars
  <2>16. CASE Wait
    BY <2>16
    DEF Wait, Return, Classify, WriteFailureAllowed, taskVars, kernelVars
  <2>17. CASE WaitFails
    BY <2>17 DEF WaitFails, Return, taskVars, helperVars, kernelVars
  <2>18. CASE CancelWriter
    BY <2>18 DEF CancelWriter, helperVars, kernelVars
  <2>19. CASE TerminateAndReap
    BY <2>19 DEF TerminateAndReap, HardKillGroupAndChild, taskVars
  <2>20. CASE Reap
    BY <2>20 DEF Reap, taskVars, kernelVars
  <2>21. CASE CloseOutput
    BY <2>21 DEF CloseOutput, taskVars, helperVars, kernelVars
  <2>22. CASE VerifyOwnership
    BY <2>22 DEF VerifyOwnership, Verified, Owned, taskVars, helperVars, kernelVars
  <2> QED BY <1>1, <2>1, <2>2, <2>3, <2>4, <2>5, <2>6, <2>7, <2>8, <2>9, <2>10,
     <2>11, <2>12, <2>13, <2>14, <2>15, <2>16, <2>17, <2>18, <2>19,
     <2>20, <2>21, <2>22
     DEF Controller
<1>2. CASE Writer
  <2>1. UNCHANGED <<ctlVars, helperVars>>
    BY <1>2 DEF Writer, WriteHeader, WriteBody, WriteFails
  <2> QED BY <2>1 DEF ctlVars, helperVars
<1>3. CASE Helper
  <2>1. CASE HelperStarts
    BY <2>1 DEF HelperStarts, At, helperUnchanged, ctlVars, taskVars, kernelVars
  <2>2. CASE ReadHeader
    BY <2>2
    DEF ReadHeader, At, InputEnded, Answer, helperUnchanged, ctlVars, taskVars,
        kernelVars
  <2>3. CASE InstallLimits
    BY <2>3
    DEF InstallLimits, At, Answer, helperUnchanged, ctlVars, taskVars,
        kernelVars
  <2>4. CASE ReadBody
    BY <2>4
    DEF ReadBody, At, InputEnded, Answer, helperUnchanged, ctlVars, taskVars,
        kernelVars
  <2>5. CASE ReadInputEnd
    BY <2>5
    DEF ReadInputEnd, At, InputEnded, helperUnchanged, ctlVars, taskVars,
        kernelVars
  <2>6. CASE Execute
    BY <2>6
    DEF Execute, At, Replies, Answer, helperUnchanged, ctlVars, taskVars,
        kernelVars
  <2>7. CASE WriteResponse
    BY <2>7
    DEF WriteResponse, At, helperUnchanged, ctlVars, taskVars, kernelVars
  <2>8. CASE FinishResponse
    BY <2>8
    DEF FinishResponse, At, helperUnchanged, ctlVars, taskVars, kernelVars
  <2>9. CASE HelperExits
    BY <2>9 DEF HelperExits, At, helperUnchanged, ctlVars, taskVars, kernelVars
  <2> QED BY <1>3, <2>1, <2>2, <2>3, <2>4, <2>5, <2>6, <2>7, <2>8, <2>9
     DEF Helper
<1>4. CASE Fork
  BY <1>4 DEF Fork, At, helperUnchanged, ctlVars, taskVars, kernelVars
<1>5. CASE \E status \in {"failed", "cpu"} : Crash(status)
  BY <1>5 DEF Crash, helperUnchanged, ctlVars, taskVars, kernelVars
<1>6. CASE StragglerExits
  BY <1>6 DEF StragglerExits, helperUnchanged, ctlVars, taskVars, kernelVars
<1>7. CASE BecomeZombie
  BY <1>7 DEF BecomeZombie, helperUnchanged, ctlVars, taskVars, kernelVars
<1>8. CASE CompetingReaper
  BY <1>8 DEF CompetingReaper, ctlVars, taskVars
<1>9. CASE DeadlinePasses
  BY <1>9 DEF DeadlinePasses, ctlVars, taskVars, helperVars
<1>10. CASE ControllerDies
  BY <1>10 DEF ControllerDies, helperVars, kernelVars
<1>11. CASE UNCHANGED vars
  BY <1>11 DEF vars, ctlVars, taskVars, helperVars, kernelVars
<1> QED BY <1>1, <1>2, <1>3, <1>4, <1>5, <1>6, <1>7, <1>8, <1>9, <1>10, <1>11 DEF Next, Ended

\* Every step keeps track of the response.
LEMMA ResponseStep ==
  ASSUME TypeOK, ChildInv, FailureInv, ResponseInv, [Next]_vars
  PROVE  ResponseInv'
<1> USE DEF TypeOK, ChildInv, FailureInv, ResponseInv, ReportIsWhole, ReapedOnReturn, Replies, Unspawned, Exchanging
<1>1. CASE Controller
  <2>1. CASE Refuse
    BY <2>1 DEF Refuse, Return, taskVars, helperVars, kernelVars
  <2>2. CASE Begin
    BY <2>2 DEF Begin, taskVars, helperVars, kernelVars
  <2>3. CASE CreateGroup
    BY <2>3 DEF CreateGroup, Return, taskVars, helperVars, kernelVars
  <2>4. CASE SpawnWorker
    BY <2>4 DEF SpawnWorker, taskVars, kernelVars
  <2>5. CASE SpawnFails
    BY <2>5 DEF SpawnFails, Return, taskVars, helperVars, kernelVars
  <2>6. CASE Attach
    BY <2>6 DEF Attach, taskVars, helperVars, kernelVars
  <2>7. CASE StartWriter
    BY <2>7 DEF StartWriter, helperVars, kernelVars
  <2>8. CASE WriterUnavailable
    BY <2>8 DEF WriterUnavailable, taskVars, helperVars, kernelVars
  <2>9. CASE ReadReply
    BY <2>9 DEF ReadReply, Replies, taskVars, helperVars, kernelVars
  <2>10. CASE ReadEnd
    BY <2>10 DEF ReadEnd, StreamEnded, taskVars, helperVars, kernelVars
  <2>11. CASE ReadFails
    BY <2>11
    DEF ReadFails, TimeIsUp, StreamEnded, taskVars, helperVars, kernelVars
  <2>12. CASE KillAfterFailure
    BY <2>12 DEF KillAfterFailure, HardKillGroupAndChild, taskVars
  <2>13. CASE OwnershipLost
    BY <2>13 DEF OwnershipLost, Verified, Owned, taskVars, helperVars, kernelVars
  <2>14. CASE AwaitWriter
    BY <2>14 DEF AwaitWriter, taskVars, helperVars, kernelVars
  <2>15. CASE KillGroup
    BY <2>15 DEF KillGroup, HardKillGroupAndChild, taskVars
  <2>16. CASE Wait
    <3>1. /\ ctl' = "returned" /\ child' = "reaped" /\ result' = Classify(exit)
          /\ UNCHANGED <<exit, stage, reply, response, received>>
      BY <2>16 DEF Wait, Return
    <3>2. Classify(exit) = "report" => response = "report" /\ exit = "ok"
      BY <2>16, Classified DEF Wait
    <3> QED BY <3>1, <3>2
  <2>17. CASE WaitFails
    BY <2>17 DEF WaitFails, Return, taskVars, helperVars, kernelVars
  <2>18. CASE CancelWriter
    BY <2>18 DEF CancelWriter, helperVars, kernelVars
  <2>19. CASE TerminateAndReap
    BY <2>19 DEF TerminateAndReap, HardKillGroupAndChild, taskVars
  <2>20. CASE Reap
    BY <2>20 DEF Reap, taskVars, kernelVars
  <2>21. CASE CloseOutput
    BY <2>21 DEF CloseOutput, taskVars, helperVars, kernelVars
  <2>22. CASE VerifyOwnership
    BY <2>22 DEF VerifyOwnership, Verified, Owned, taskVars, helperVars, kernelVars
  <2> QED BY <1>1, <2>1, <2>2, <2>3, <2>4, <2>5, <2>6, <2>7, <2>8, <2>9, <2>10,
     <2>11, <2>12, <2>13, <2>14, <2>15, <2>16, <2>17, <2>18, <2>19,
     <2>20, <2>21, <2>22
     DEF Controller
<1>2. CASE Writer
  <2>1. UNCHANGED <<ctlVars, helperVars>>
    BY <1>2 DEF Writer, WriteHeader, WriteBody, WriteFails
  <2> QED BY <2>1 DEF ctlVars, helperVars
<1>3. CASE Helper
  <2>1. CASE HelperStarts
    BY <2>1 DEF HelperStarts, At, helperUnchanged, ctlVars, taskVars, kernelVars
  <2>2. CASE ReadHeader
    BY <2>2
    DEF ReadHeader, At, InputEnded, Answer, helperUnchanged, ctlVars, taskVars,
        kernelVars
  <2>3. CASE InstallLimits
    BY <2>3
    DEF InstallLimits, At, Answer, helperUnchanged, ctlVars, taskVars,
        kernelVars
  <2>4. CASE ReadBody
    BY <2>4
    DEF ReadBody, At, InputEnded, Answer, helperUnchanged, ctlVars, taskVars,
        kernelVars
  <2>5. CASE ReadInputEnd
    BY <2>5
    DEF ReadInputEnd, At, InputEnded, helperUnchanged, ctlVars, taskVars,
        kernelVars
  <2>6. CASE Execute
    BY <2>6
    DEF Execute, At, Replies, Answer, helperUnchanged, ctlVars, taskVars,
        kernelVars
  <2>7. CASE WriteResponse
    BY <2>7
    DEF WriteResponse, At, helperUnchanged, ctlVars, taskVars, kernelVars
  <2>8. CASE FinishResponse
    BY <2>8
    DEF FinishResponse, At, helperUnchanged, ctlVars, taskVars, kernelVars
  <2>9. CASE HelperExits
    BY <2>9 DEF HelperExits, At, helperUnchanged, ctlVars, taskVars, kernelVars
  <2> QED BY <1>3, <2>1, <2>2, <2>3, <2>4, <2>5, <2>6, <2>7, <2>8, <2>9
     DEF Helper
<1>4. CASE Fork
  BY <1>4 DEF Fork, At, helperUnchanged, ctlVars, taskVars, kernelVars
<1>5. CASE \E status \in {"failed", "cpu"} : Crash(status)
  BY <1>5 DEF Crash, helperUnchanged, ctlVars, taskVars, kernelVars
<1>6. CASE StragglerExits
  BY <1>6 DEF StragglerExits, helperUnchanged, ctlVars, taskVars, kernelVars
<1>7. CASE BecomeZombie
  BY <1>7 DEF BecomeZombie, helperUnchanged, ctlVars, taskVars, kernelVars
<1>8. CASE CompetingReaper
  BY <1>8 DEF CompetingReaper, ctlVars, taskVars
<1>9. CASE DeadlinePasses
  BY <1>9 DEF DeadlinePasses, ctlVars, taskVars, helperVars
<1>10. CASE ControllerDies
  BY <1>10 DEF ControllerDies, helperVars, kernelVars
<1>11. CASE UNCHANGED vars
  BY <1>11 DEF vars, ctlVars, taskVars, helperVars, kernelVars
<1> QED BY <1>1, <1>2, <1>3, <1>4, <1>5, <1>6, <1>7, <1>8, <1>9, <1>10, <1>11 DEF Next, Ended

\* The probe finds the helper owned, only the other reaper changes that before the
\* signal, and nothing else signals.
LEMMA SignalStep ==
  ASSUME SignalInv, [Next]_vars
  PROVE  SignalInv'
<1> USE DEF SignalInv, NoStraySignal, Owned
<1>1. CASE VerifyOwnership
  BY <1>1 DEF VerifyOwnership, helperVars, kernelVars
<1>2. CASE KillAfterFailure \/ KillGroup \/ TerminateAndReap
  <2>1. /\ ctl \in {"failing", "killing", "ending"}
        /\ ctl' \in {"await", "wait", "reaping"}
        /\ signalled' = signalled \cup {child} /\ raced' = raced
    BY <1>2 DEF KillAfterFailure, KillGroup, TerminateAndReap, HardKillGroupAndChild
  <2> QED BY <2>1
<1>3. CASE CompetingReaper
  BY <1>3 DEF CompetingReaper, ctlVars
<1>4. CASE BecomeZombie \/ \E status \in {"failed", "cpu"} : Crash(status)
  BY <1>4 DEF BecomeZombie, Crash, helperUnchanged, ctlVars, kernelVars
<1>5. CASE Helper
  <2>1. UNCHANGED <<ctl, signalled, raced>> /\ child = "running"
        /\ child' \in {"running", "exiting"}
    BY <1>5
    DEF Helper, HelperStarts, ReadHeader, InstallLimits, ReadBody, ReadInputEnd,
        Execute, WriteResponse, FinishResponse, HelperExits, At, helperUnchanged,
        ctlVars, kernelVars
  <2> QED BY <2>1
<1>6. CASE Writer \/ Fork \/ StragglerExits \/ DeadlinePasses \/ Ended \/ UNCHANGED vars
  <2>1. UNCHANGED <<ctl, child, signalled, raced>>
    BY <1>6
    DEF Writer, WriteHeader, WriteBody, WriteFails, Fork, StragglerExits,
        DeadlinePasses, Ended, vars, helperUnchanged, ctlVars, helperVars, kernelVars
  <2> QED BY <2>1
<1>7. CASE Refuse \/ Begin \/ CreateGroup \/ SpawnWorker \/ SpawnFails \/ Attach
           \/ StartWriter \/ WriterUnavailable \/ ReadReply \/ ReadEnd \/ ReadFails
  <2>1. /\ ctl' \notin {"failing", "killing", "ending"}
        /\ UNCHANGED <<signalled, raced>>
    BY <1>7
    DEF Refuse, Begin, CreateGroup, SpawnWorker, SpawnFails, Attach, StartWriter,
        WriterUnavailable, ReadReply, ReadEnd, ReadFails, Return, kernelVars
  <2> QED BY <2>1
<1>8. CASE OwnershipLost \/ AwaitWriter \/ Wait \/ WaitFails \/ CancelWriter \/ Reap
           \/ CloseOutput \/ ControllerDies
  <2>1. CASE OwnershipLost
    <3>1. /\ ctl \in {"fail", "kill", "reap"}
          /\ ctl' = [fail |-> "cancel", kill |-> "returned", reap |-> "close"][ctl]
      BY <2>1 DEF OwnershipLost, Verified
    <3> QED BY <2>1, <3>1 DEF OwnershipLost, kernelVars
  <2>2. CASE ~OwnershipLost
    <3>1. /\ ctl' \in {"returned", "close", "kill", "wait", "dead"}
          /\ UNCHANGED <<signalled, raced>>
      BY <1>8, <2>2
      DEF AwaitWriter, Wait, WaitFails, CancelWriter, Reap, CloseOutput,
          ControllerDies, Return, kernelVars
    <3> QED BY <3>1
  <2> QED BY <2>1, <2>2
<1> QED BY <1>1, <1>2, <1>3, <1>4, <1>5, <1>6, <1>7, <1>8 DEF Next, Controller

\* The parts of the invariant hold in every reachable state.
LEMMA WorkerInvariant == Spec => []WorkerInv
<1>1. ASSUME Init PROVE WorkerInv
  <2> USE <1>1 DEF Init
  <2>1. TypeOK
    <3>1. /\ leaf \in BOOLEAN /\ out_open \in BOOLEAN
          /\ stolen \in BOOLEAN /\ raced \in BOOLEAN
      BY Zenon
    <3> QED BY <3>1 DEF TypeOK, Results, Failures
  <2>2. WriterInv /\ ChildInv /\ SignalInv /\ FailureInv /\ ResponseInv
    BY DEF WriterInv, ChildInv, ReapedOnReturn, SignalInv, NoStraySignal, FailureInv,
           Exchanging, Unspawned, ResponseInv, ReportIsWhole, Replies
  <2>3. PipesInv
    BY DEF PipesInv, DescriptorsClosed, Unspawned
  <2> QED BY <2>1, <2>2, <2>3 DEF WorkerInv
<1>2. WorkerInv /\ [Next]_vars => WorkerInv'
  BY TypeStep, WriterStep, ChildStep, PipesStep, FailureStep, ResponseStep,
     SignalStep DEF WorkerInv
<1> QED BY <1>1, <1>2, PTL DEF Spec

\* Whatever the helper, its descendants and the thief do, a call that spawned a
\* helper returns only after the helper is reaped and its group is empty.
THEOREM ReapedOnReturnHolds == Spec => []ReapedOnReturn
<1>1. WorkerInv => ReapedOnReturn
  BY DEF WorkerInv, ChildInv
<1> QED BY <1>1, WorkerInvariant, PTL

\* Every path out of runRite closes both pipes and ends the writer.
THEOREM DescriptorsClosedHolds == Spec => []DescriptorsClosed
<1>1. WorkerInv => DescriptorsClosed
  BY DEF WorkerInv, PipesInv
<1> QED BY <1>1, WorkerInvariant, PTL

\* Only a competing reaper that comes between a probe and its kill can make the
\* kill hit a reused number: one that came before the probe is noticed at each of
\* the three places, and nothing is signalled after runRite's own wait.
THEOREM NoStraySignalHolds == Spec => []NoStraySignal
<1>1. WorkerInv => NoStraySignal
  BY DEF WorkerInv, SignalInv
<1> QED BY <1>1, WorkerInvariant, PTL

\* The kill after a complete response never changes how the helper ended.
THEOREM KillSparesFinishedHolds == Spec => []KillSparesFinished
<1>1. WorkerInv => KillSparesFinished
  BY DEF WorkerInv, FailureInv, KillSparesFinished
<1> QED BY <1>1, WorkerInvariant, PTL

\* A report was computed from the whole request by a helper that exited cleanly.
THEOREM ReportIsWholeHolds == Spec => []ReportIsWhole
<1>1. WorkerInv => ReportIsWhole
  BY DEF WorkerInv, ResponseInv
<1> QED BY <1>1, WorkerInvariant, PTL

=============================================================================
