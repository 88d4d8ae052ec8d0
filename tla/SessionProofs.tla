---------------------------- MODULE SessionProofs ----------------------------
(***************************************************************************)
(* A session stays in step with its helper for any number of exchanges:    *)
(* InStep, OwnAnswer, NothingLeft, and every step of it is one that        *)
(* SessionService allows, or none.                                         *)
(*                                                                         *)
(* The strengthening counts parts of requests.  The helper is always at    *)
(* work on the last request that was begun, because the next one is begun  *)
(* only when the frame that answers it was read, and the helper writes     *)
(* that frame, at the earliest, when it will never read a part of this     *)
(* request again.                                                          *)
(***************************************************************************)
EXTENDS Session, SequenceTheorems, TLAPS

Starting ==
  {"group", "spawn", "attach", "abort", "abort_owned", "aborting", "dupe"}
InExchange == {"reply", "await", "fail", "fail_owned", "reaping", "cancel"}
Ending == {"probe", "wait", "kill", "kill_owned", "killing"}

\* How many parts the writer has sent, and when it is at work.
WriterInv ==
  /\ task = "header" => sent + 2 <= 2 * asked
  /\ task = "body" => sent + 1 <= 2 * asked
  /\ task \in {"header", "body"} => ctl \in InExchange
  /\ ctl \in {"reply", "await"} => requests < asked

\* Which end of the request pipe the session has; a closed end stays closed.
InputInv ==
  /\ ctl \in {"group", "spawn"} => input = "closed"
  /\ ctl \in Starting \ {"group", "spawn"} => input = "child"
  /\ ctl \in {"idle"} \cup InExchange => input = "open"
  /\ ctl \in Ending => input = "closed"
  /\ ctl \in {"close", "gone"} => input = "closed" \/ broken

\* The session knows its child until it is reaped, and gives up only then.
ChildInv ==
  /\ ctl \in {"group", "spawn"} => child = "none" /\ stage = "start"
  /\ child = "none" => ctl \in {"group", "spawn", "failed", "dead"}
  /\ ~known /\ ctl \notin {"group", "spawn", "failed", "dead"} => child = "reaped"
  /\ ctl \in {"cancel", "close", "gone"} \/ (ctl = "idle" /\ broken) => ~known
  /\ \/ ctl \in {"group", "spawn", "failed", "cancel", "close", "gone", "dead"}
     \/ ctl = "idle" /\ broken
     \/ known
  /\ ctl = "gone" => ~out_open

\* Where the helper is in the stream of requests.
StageInv ==
  /\ stage \in {"start", "header"} => received \in {2 * asked, 2 * asked - 2}
  /\ stage = "start" => received = 0
  /\ stage \in {"limits", "body"} => received = 2 * asked - 1
  /\ stage = "execute" => received = 2 * asked /\ asked > 0
  /\ stage \in {"respond", "finish"} /\ ~reply.leaves => received = 2 * asked /\ asked > 0
  /\ stage = "exit" => reply.leaves \/ input = "closed"
  /\ reply.kind \in {"report", "mismatch"} => ~reply.leaves

\* What is in the response pipe; only a frame that was written as a whole is
\* followed by another step of the loop.
FrameInv ==
  /\ stage \in {"start", "limits", "body", "execute", "respond"} => responses = <<>>
  /\ stage = "finish" => responses # <<>> /\ ~Head(responses).whole
  /\ stage = "header" /\ responses # <<>> => received = 2 * asked /\ asked > 0
  /\ responses # <<>> /\ Head(responses).kind \in {"report", "mismatch"} =>
       Head(responses).request = asked

\* What the controller knows when it has read a frame, and between exchanges.
ControlInv ==
  /\ ctl \in Starting \cup {"reply", "await"} => ~broken
  /\ ctl \in Starting =>
       result = "none" /\ asked = 0 /\ stage \in {"start", "header"}
  /\ ctl \in {"fail", "fail_owned", "reaping", "cancel"} =>
       broken /\ result \in {"ProtocolMismatch", "OutOfMemory", "TransportFailure"}
  /\ ctl = "await" \/ (ctl = "idle" /\ ~broken) =>
       /\ responses = <<>>
       /\ stage \in {"start", "header", "exit"}
       /\ stage # "exit" => received = 2 * asked
  /\ ctl = "await" =>
       /\ got.whole /\ got.kind # "malformed"
       /\ got.kind \in {"report", "mismatch"} => got.request = asked
  /\ ctl = "idle" /\ result = "TransportFailure" => broken
  /\ ctl = "idle" /\ result = "ProtocolMismatch" =>
       broken \/ got = [request |-> asked, kind |-> "mismatch", whole |-> TRUE]
  /\ OwnAnswer

SessionInv ==
  TypeOK /\ WriterInv /\ InputInv /\ ChildInv /\ StageInv /\ FrameInv /\ ControlInv

\* What the helper answers has the type of an answer.
LEMMA AnswerType ==
  ASSUME NEW kind \in Replies, NEW leaves \in BOOLEAN, Answer(kind, leaves)
  PROVE  reply' \in [kind : Replies, leaves : BOOLEAN]
  BY Zenon DEF Answer

\* The response pipe holds at most one frame.
LEMMA OneFrame ==
  ASSUME TypeOK, responses # <<>>
  PROVE  /\ Len(responses) = 1 /\ DOMAIN responses = {1}
         /\ Head(responses) = responses[1] /\ responses[1] \in Frames
         /\ Tail(responses) \in Seq(Frames) /\ Len(Tail(responses)) = 0
<1>1. responses \in Seq(Frames) /\ Len(responses) <= 1
  BY DEF TypeOK
<1>2. Len(responses) = 1
  BY <1>1, EmptySeq
<1>3. DOMAIN responses = 1 .. 1
  BY <1>1, <1>2, LenProperties
<1>4. Head(responses) = responses[1] /\ responses[1] \in Frames
  BY <1>1, <1>2, ElementOfSeq
<1>5. Tail(responses) \in Seq(Frames) /\ Len(Tail(responses)) = 0
  BY <1>1, <1>2, HeadTailProperties
<1> QED BY <1>2, <1>3, <1>4, <1>5

\* The frame in the response pipe becomes whole and changes nothing else.
LEMMA FrameCompleted ==
  ASSUME TypeOK, responses # <<>>,
         responses' = [responses EXCEPT ![Len(responses)].whole = TRUE]
  PROVE  /\ responses' \in Seq(Frames) /\ Len(responses') = 1
         /\ Head(responses').kind = Head(responses).kind
         /\ Head(responses').request = Head(responses).request
<1>1. [responses[1] EXCEPT !.whole = TRUE] \in Frames
  BY OneFrame, Zenon DEF Frames
<1>2. responses' = [responses EXCEPT ![1] = [responses[1] EXCEPT !.whole = TRUE]]
  BY OneFrame
<1>3. responses \in Seq(Frames) /\ 1 \in 1 .. Len(responses)
  BY OneFrame DEF TypeOK
<1>4. responses' \in Seq(Frames) /\ Len(responses') = 1
      /\ responses'[1] = [responses[1] EXCEPT !.whole = TRUE]
  <2> DEFINE e == [responses[1] EXCEPT !.whole = TRUE]
  <2> HIDE DEF e
  <2>1. e \in Frames /\ responses' = [responses EXCEPT ![1] = e]
    BY <1>1, <1>2 DEF e
  <2>2. /\ [responses EXCEPT ![1] = e] \in Seq(Frames)
        /\ Len([responses EXCEPT ![1] = e]) = Len(responses)
        /\ \A j \in 1 .. Len(responses) :
             [responses EXCEPT ![1] = e][j] = IF j = 1 THEN e ELSE responses[j]
    BY <1>3, <2>1, ExceptSeq
  <2>3. responses' \in Seq(Frames) /\ Len(responses') = 1 /\ responses'[1] = e
    BY <2>1, <2>2, <1>3, OneFrame
  <2> QED BY <2>3 DEF e
<1>5. Head(responses') = responses'[1]
  BY <1>4
<1>6. /\ responses'[1].kind = responses[1].kind
      /\ responses'[1].request = responses[1].request
  BY <1>4, OneFrame DEF Frames
<1> QED BY <1>4, <1>5, <1>6, OneFrame

\* Whether or not the removal of the leaf succeeds, it is there or not.
LEMMA LeafType ==
  ASSUME TypeOK, RemoveLeaf \/ UNCHANGED leaf
  PROVE  leaf' \in BOOLEAN
<1>1. leaf' \in {FALSE, leaf}
  BY DEF RemoveLeaf
<1>2. leaf \in BOOLEAN
  BY DEF TypeOK
<1> QED BY <1>1, <1>2, Zenon

\* A new exchange keeps the types.
LEMMA WriterStarts ==
  ASSUME TypeOK, StartWriter
  PROVE  TypeOK'
<1>1. /\ asked' \in 0 .. MaxRequests /\ requests' \in 0 .. asked'
      /\ sent' \in 0 .. 2 * asked' /\ received' \in 0 .. sent'
  BY SessionAssumption DEF StartWriter, helperVars, TypeOK
<1>2. large' \in BOOLEAN
  BY DEF StartWriter
<1>3. /\ UNCHANGED <<result, broken, got, ownedVars, helperVars, child>>
      /\ ctl' = "reply" /\ task' = "header" /\ write_failure' = "none"
      /\ deadline' = "ahead"
  BY DEF StartWriter
<1>4. got' \in Frames /\ responses' \in Seq(Frames) /\ Len(responses') <= 1
  BY <1>3 DEF helperVars, TypeOK
<1>5. reply' \in [kind : Replies, leaves : BOOLEAN]
  BY <1>3 DEF helperVars, TypeOK
<1>6. /\ broken' \in BOOLEAN /\ known' \in BOOLEAN /\ leaf' \in BOOLEAN
      /\ out_open' \in BOOLEAN /\ limits_installed' \in BOOLEAN
  BY <1>3 DEF ownedVars, helperVars, TypeOK
<1>7. stage' = stage /\ child' = child /\ result' = result /\ input' = input
  BY <1>3 DEF ownedVars, helperVars
<1>8. ctl' = "reply" /\ task' = "header" /\ write_failure' = "none" /\ deadline' = "ahead"
  BY <1>3
<1> QED BY <1>1, <1>2, <1>4, <1>5, <1>6, <1>7, <1>8 DEF TypeOK

\* Every step keeps the types.
LEMMA TypeStep ==
  ASSUME TypeOK, WriterInv, InputInv, ChildInv, StageInv, FrameInv, ControlInv, [Next]_vars
  PROVE  TypeOK'
<1> USE DEF TypeOK, WriterInv, InputInv, ChildInv, StageInv, FrameInv, ControlInv, Frames, Results, Replies
<1>1. CASE Start
  <2>1. CASE CreateGroup
    BY <2>1 DEF CreateGroup, callVars, taskVars, helperVars, kernelVars
  <2>2. CASE SpawnFails
    <3>1. /\ broken' \in BOOLEAN /\ known' \in BOOLEAN
          /\ leaf' \in BOOLEAN /\ out_open' \in BOOLEAN
      BY <2>2, Zenon DEF SpawnFails, RemoveLeaf, callVars, taskVars, helperVars, kernelVars
    <3> QED
      BY <2>2, <3>1 DEF SpawnFails, RemoveLeaf, callVars, taskVars, helperVars, kernelVars
  <2>3. CASE SpawnWorker
    BY <2>3 DEF SpawnWorker, callVars, taskVars, helperVars
  <2>4. CASE Attach
    BY <2>4 DEF Attach, callVars, ownedVars, taskVars, helperVars, kernelVars
  <2>5. CASE Aborted
    <3>1. /\ broken' \in BOOLEAN /\ known' \in BOOLEAN
          /\ leaf' \in BOOLEAN /\ out_open' \in BOOLEAN
      BY <2>5, Zenon DEF Aborted, RemoveLeaf, callVars, taskVars, helperVars
    <3> QED
      BY <2>5, <3>1 DEF Aborted, RemoveLeaf, callVars, taskVars, helperVars
  <2>6. CASE TakePipes
    <3>1. leaf' \in BOOLEAN
      BY <2>6, LeafType, Zenon DEF TakePipes
    <3>2. /\ input' = "open" /\ ctl' \in {"idle", "failed"}
          /\ UNCHANGED <<callVars, known, out_open, taskVars, helperVars, kernelVars>>
      BY <2>6 DEF TakePipes
    <3> QED BY <3>1, <3>2 DEF callVars, taskVars, helperVars, kernelVars
  <2> QED BY <1>1, <2>1, <2>2, <2>3, <2>4, <2>5, <2>6 DEF Start
<1>2. CASE RunRite
  <2>1. CASE ReadReply
    <3>1. Head(responses) \in Frames /\ Tail(responses) \in Seq(Frames)
          /\ Len(Tail(responses)) <= 1
      BY <2>1, OneFrame DEF ReadReply, FrameReady
    <3> QED BY <2>1, <3>1 DEF ReadReply, ownedVars, taskVars, kernelVars
  <2>2. CASE ReadFails
    BY <2>2
    DEF ReadFails, ReadFailures, TimeIsUp, FrameReady, StreamEnded, ownedVars,
        taskVars, helperVars, kernelVars
  <2>3. CASE AwaitWriter
    <3>1. got.kind \in Replies \ {"malformed"}
      BY <2>3 DEF AwaitWriter
    <3>2. result' \in Results /\ requests' \in 0 .. asked /\ ctl' \in {"idle", "fail"}
      BY <2>3, <3>1 DEF AwaitWriter, Decoded
    <3>3. broken' \in BOOLEAN
      BY <2>3, Zenon DEF AwaitWriter
    <3> QED BY <2>3, <3>2, <3>3
        DEF AwaitWriter, ownedVars, taskVars, helperVars, kernelVars
  <2>4. CASE CancelWriter
    BY <2>4 DEF CancelWriter, callVars, ownedVars, helperVars, kernelVars
  <2>5. CASE Probe
    BY <2>5 DEF Probe, callVars, ownedVars, taskVars, helperVars, kernelVars
  <2>6. CASE WaitExited
    <3>1. /\ broken' \in BOOLEAN /\ known' \in BOOLEAN
          /\ leaf' \in BOOLEAN /\ out_open' \in BOOLEAN
      BY <2>6, Zenon DEF WaitExited, callVars, taskVars, helperVars
    <3> QED
      BY <2>6, <3>1 DEF WaitExited, callVars, taskVars, helperVars
  <2>7. CASE Close
    <3>1. /\ broken' \in BOOLEAN /\ known' \in BOOLEAN
          /\ leaf' \in BOOLEAN /\ out_open' \in BOOLEAN
      BY <2>7, Zenon DEF Close, RemoveLeaf, callVars, taskVars, helperVars, kernelVars
    <3> QED
      BY <2>7, <3>1 DEF Close, RemoveLeaf, callVars, taskVars, helperVars, kernelVars
  <2> QED BY <1>2, <2>1, <2>2, <2>3, <2>4, <2>5, <2>6, <2>7 DEF RunRite
<1>3. CASE Writer
  <2>1. CASE WriteHeader
    BY <2>1 DEF WriteHeader, callVars, ownedVars, helperVars, kernelVars
  <2>2. CASE WriteBody
    BY <2>2 DEF WriteBody, callVars, ownedVars, helperVars, kernelVars
  <2>3. CASE WriteFails
    BY <2>3
    DEF WriteFails, TimeIsUp, StreamEnded, callVars, ownedVars, helperVars,
        kernelVars
  <2> QED BY <1>3, <2>1, <2>2, <2>3 DEF Writer
<1>4. CASE Helper
  <2>1. CASE HelperStarts
    BY <2>1 DEF HelperStarts, At, outsideHelper, callVars, ownedVars, taskVars
  <2>2. CASE ReadHeader
    <3>1. reply' \in [kind : Replies, leaves : BOOLEAN]
      BY <2>2, AnswerType DEF ReadHeader
    <3>2. /\ received' \in 0 .. sent
          /\ stage' \in {"limits", "exit", "respond"}
      BY <2>2 DEF ReadHeader, Answer, outsideHelper, taskVars
    <3>3. /\ responses' = responses /\ child' = child
          /\ UNCHANGED outsideHelper /\ UNCHANGED limits_installed
      BY <2>2 DEF ReadHeader
    <3> QED BY <3>1, <3>2, <3>3
        DEF outsideHelper, callVars, ownedVars, taskVars
  <2>3. CASE InstallLimits
    <3>1. reply' \in [kind : Replies, leaves : BOOLEAN]
      BY <2>3, AnswerType DEF InstallLimits
    <3>2. /\ received' \in 0 .. sent
          /\ stage' \in {"body", "respond"}
      BY <2>3 DEF InstallLimits, Answer, outsideHelper, taskVars
    <3>3. /\ responses' = responses /\ child' = child
          /\ UNCHANGED outsideHelper
          /\ limits_installed' \in BOOLEAN
      BY <2>3, Zenon DEF InstallLimits
    <3> QED BY <3>1, <3>2, <3>3
        DEF outsideHelper, callVars, ownedVars, taskVars
  <2>4. CASE ReadBody
    <3>1. reply' \in [kind : Replies, leaves : BOOLEAN]
      BY <2>4, AnswerType DEF ReadBody
    <3>2. /\ received' \in 0 .. sent
          /\ stage' \in {"execute", "respond"}
      BY <2>4 DEF ReadBody, Answer, outsideHelper, taskVars
    <3>3. /\ responses' = responses /\ child' = child
          /\ UNCHANGED outsideHelper /\ UNCHANGED limits_installed
      BY <2>4 DEF ReadBody
    <3> QED BY <3>1, <3>2, <3>3
        DEF outsideHelper, callVars, ownedVars, taskVars
  <2>5. CASE Execute
    BY <2>5
    DEF Execute, At, Replies, Answer, outsideHelper, callVars, ownedVars,
        taskVars
  <2>6. CASE WriteResponse
    <3>1. CASE out_open
      <4>1. [request |-> (received + 1) \div 2, kind |-> reply.kind,
             whole |-> FALSE] \in Frames
        BY SessionAssumption
      <4>2. responses' \in Seq(Frames) /\ Len(responses') = 1
        <5>1. responses \in Seq(Frames) /\ Len(responses) = 0
          BY <2>6, EmptySeq DEF WriteResponse, At
        <5>2. responses' = Append(responses, [request |-> (received + 1) \div 2,
                            kind |-> reply.kind, whole |-> FALSE])
          BY <2>6, <3>1 DEF WriteResponse
        <5> QED BY <4>1, <5>1, <5>2, AppendProperties
      <4> QED BY <2>6, <3>1, <4>2
          DEF WriteResponse, outsideHelper, callVars, ownedVars, taskVars
    <3>2. CASE ~out_open
      BY <2>6, <3>2 DEF WriteResponse, outsideHelper, callVars, ownedVars, taskVars
    <3> QED BY <3>1, <3>2
  <2>7. CASE FinishResponse
    <3>1. CASE out_open
      <4>1. responses' \in Seq(Frames) /\ Len(responses') = 1
        BY <2>7, <3>1, FrameCompleted DEF FinishResponse, At
      <4> QED BY <2>7, <3>1, <4>1
          DEF FinishResponse, outsideHelper, callVars, ownedVars, taskVars
    <3>2. CASE ~out_open
      BY <2>7, <3>2 DEF FinishResponse, outsideHelper, callVars, ownedVars, taskVars
    <3> QED BY <3>1, <3>2
  <2>8. CASE HelperExits
    BY <2>8
    DEF HelperExits, At, outsideHelper, callVars, ownedVars, taskVars,
        helperVars
  <2> QED BY <1>4, <2>1, <2>2, <2>3, <2>4, <2>5, <2>6, <2>7, <2>8 DEF Helper
<1>5. CASE Refuse
  BY <1>5 DEF Refuse, Refuses, ownedVars, taskVars, helperVars, kernelVars
<1>6. CASE StartWriter
  <2> QED BY <1>6, WriterStarts
<1>7. CASE Deinit
  BY <1>7 DEF Deinit, callVars, taskVars, helperVars, kernelVars
<1>8. CASE Crash
  BY <1>8 DEF Crash, outsideHelper, callVars, ownedVars, taskVars, helperVars
<1>9. CASE BecomeZombie
  BY <1>9
  DEF BecomeZombie, outsideHelper, callVars, ownedVars, taskVars, helperVars
<1>10. CASE CompetingReaper
  BY <1>10 DEF CompetingReaper, callVars, ownedVars, taskVars, helperVars
<1>11. CASE DeadlinePasses
  BY <1>11 DEF DeadlinePasses, Busy, callVars, ownedVars, taskVars, helperVars
<1>12. CASE ControllerDies
  <2>1. /\ broken' \in BOOLEAN /\ known' \in BOOLEAN
        /\ leaf' \in BOOLEAN /\ out_open' \in BOOLEAN
    BY <1>12, Zenon DEF ControllerDies, callVars, helperVars, kernelVars
  <2> QED
    BY <1>12, <2>1 DEF ControllerDies, callVars, helperVars, kernelVars
<1>13. CASE UNCHANGED vars
  BY <1>13 DEF vars, callVars, ownedVars, taskVars, helperVars, kernelVars
<1>14. CASE TerminateAndReap
  <2>1. CASE VerifyOwnership
    BY <2>1
    DEF VerifyOwnership, Verified, callVars, ownedVars, taskVars, helperVars,
        kernelVars
  <2>2. CASE OwnershipLost
    <3>1. known' = FALSE /\ ctl' \in {"failed", "cancel", "close"}
      BY <2>2 DEF OwnershipLost, Verified
    <3>2. known' \in BOOLEAN
      BY <3>1, Zenon
    <3>3. leaf' \in BOOLEAN
      BY <2>2, LeafType, Zenon DEF OwnershipLost
    <3>4. UNCHANGED <<callVars, input, out_open, taskVars, helperVars, kernelVars>>
      BY <2>2 DEF OwnershipLost
    <3> QED BY <3>1, <3>2, <3>3, <3>4 DEF callVars, taskVars, helperVars, kernelVars
  <2>3. CASE HardKillGroupAndChild
    BY <2>3
    DEF HardKillGroupAndChild, callVars, ownedVars, taskVars, helperVars
  <2>4. CASE Reap
    <3>1. known' \in BOOLEAN
      BY <2>4, Zenon DEF Reap
    <3> QED BY <2>4, <3>1 DEF Reap, callVars, taskVars, helperVars
  <2> QED BY <1>14, <2>1, <2>2, <2>3, <2>4 DEF TerminateAndReap
<1> QED BY <1>1, <1>2, <1>3, <1>4, <1>5, <1>6, <1>7, <1>8, <1>9, <1>10, <1>11,
     <1>12, <1>13, <1>14
   DEF Next, Ended

\* Every step keeps track of what was sent.
LEMMA WriterStep ==
  ASSUME TypeOK, WriterInv, [Next]_vars
  PROVE  WriterInv'
<1> USE DEF TypeOK, WriterInv, InExchange
<1>1. CASE Start
  <2>1. CASE CreateGroup
    BY <2>1 DEF CreateGroup, callVars, taskVars, helperVars, kernelVars
  <2>2. CASE SpawnFails
    BY <2>2 DEF SpawnFails, RemoveLeaf, callVars, taskVars, helperVars, kernelVars
  <2>3. CASE SpawnWorker
    BY <2>3 DEF SpawnWorker, callVars, taskVars, helperVars
  <2>4. CASE Attach
    BY <2>4 DEF Attach, callVars, ownedVars, taskVars, helperVars, kernelVars
  <2>5. CASE Aborted
    BY <2>5 DEF Aborted, RemoveLeaf, callVars, taskVars, helperVars
  <2>6. CASE TakePipes
    BY <2>6 DEF TakePipes, RemoveLeaf, callVars, taskVars, helperVars, kernelVars
  <2> QED BY <1>1, <2>1, <2>2, <2>3, <2>4, <2>5, <2>6 DEF Start
<1>2. CASE RunRite
  <2>1. CASE ReadReply
    BY <2>1 DEF ReadReply, FrameReady, ownedVars, taskVars, kernelVars
  <2>2. CASE ReadFails
    BY <2>2
    DEF ReadFails, ReadFailures, TimeIsUp, FrameReady, StreamEnded, ownedVars,
        taskVars, helperVars, kernelVars
  <2>3. CASE AwaitWriter
    BY <2>3
    DEF AwaitWriter, WriteFailureAllowed, Decoded, ownedVars, taskVars,
        helperVars, kernelVars
  <2>4. CASE CancelWriter
    BY <2>4 DEF CancelWriter, callVars, ownedVars, helperVars, kernelVars
  <2>5. CASE Probe
    BY <2>5 DEF Probe, callVars, ownedVars, taskVars, helperVars, kernelVars
  <2>6. CASE WaitExited
    BY <2>6 DEF WaitExited, callVars, taskVars, helperVars
  <2>7. CASE Close
    BY <2>7 DEF Close, RemoveLeaf, callVars, taskVars, helperVars, kernelVars
  <2> QED BY <1>2, <2>1, <2>2, <2>3, <2>4, <2>5, <2>6, <2>7 DEF RunRite
<1>3. CASE Writer
  <2>1. CASE WriteHeader
    BY <2>1 DEF WriteHeader, callVars, ownedVars, helperVars, kernelVars
  <2>2. CASE WriteBody
    BY <2>2 DEF WriteBody, callVars, ownedVars, helperVars, kernelVars
  <2>3. CASE WriteFails
    BY <2>3
    DEF WriteFails, TimeIsUp, StreamEnded, callVars, ownedVars, helperVars,
        kernelVars
  <2> QED BY <1>3, <2>1, <2>2, <2>3 DEF Writer
<1>4. CASE Helper
  <2>1. UNCHANGED <<ctl, callVars, ownedVars, taskVars>>
    BY <1>4
    DEF Helper, HelperStarts, ReadHeader, InstallLimits, ReadBody, Execute,
        WriteResponse, FinishResponse, HelperExits, outsideHelper
  <2> QED BY <2>1 DEF callVars, ownedVars, taskVars
<1>5. CASE Refuse
  BY <1>5 DEF Refuse, Refuses, ownedVars, taskVars, helperVars, kernelVars
<1>6. CASE StartWriter
  BY <1>6 DEF StartWriter, Refuses, ownedVars, helperVars
<1>7. CASE Deinit
  BY <1>7 DEF Deinit, callVars, taskVars, helperVars, kernelVars
<1>8. CASE Crash
  BY <1>8 DEF Crash, outsideHelper, callVars, ownedVars, taskVars, helperVars
<1>9. CASE BecomeZombie
  BY <1>9
  DEF BecomeZombie, outsideHelper, callVars, ownedVars, taskVars, helperVars
<1>10. CASE CompetingReaper
  BY <1>10 DEF CompetingReaper, callVars, ownedVars, taskVars, helperVars
<1>11. CASE DeadlinePasses
  BY <1>11 DEF DeadlinePasses, Busy, callVars, ownedVars, taskVars, helperVars
<1>12. CASE ControllerDies
  BY <1>12 DEF ControllerDies, callVars, helperVars, kernelVars
<1>13. CASE UNCHANGED vars
  BY <1>13 DEF vars, callVars, ownedVars, taskVars, helperVars, kernelVars
<1>14. CASE TerminateAndReap
  <2>1. CASE VerifyOwnership
    BY <2>1
    DEF VerifyOwnership, Verified, callVars, ownedVars, taskVars, helperVars,
        kernelVars
  <2>2. CASE OwnershipLost
    BY <2>2
    DEF OwnershipLost, Verified, Owned, RemoveLeaf, callVars, taskVars,
        helperVars, kernelVars
  <2>3. CASE HardKillGroupAndChild
    BY <2>3
    DEF HardKillGroupAndChild, callVars, ownedVars, taskVars, helperVars
  <2>4. CASE Reap
    BY <2>4 DEF Reap, callVars, taskVars, helperVars
  <2> QED BY <1>14, <2>1, <2>2, <2>3, <2>4 DEF TerminateAndReap
<1> QED BY <1>1, <1>2, <1>3, <1>4, <1>5, <1>6, <1>7, <1>8, <1>9, <1>10, <1>11,
     <1>12, <1>13, <1>14
   DEF Next, Ended

\* Every step keeps track of the request pipe.
LEMMA InputStep ==
  ASSUME TypeOK, InputInv, ChildInv, [Next]_vars
  PROVE  InputInv'
<1> USE DEF TypeOK, InputInv, ChildInv, Starting, InExchange, Ending
<1>1. CASE Start
  <2>1. CASE CreateGroup
    BY <2>1 DEF CreateGroup, callVars, taskVars, helperVars, kernelVars
  <2>2. CASE SpawnFails
    BY <2>2 DEF SpawnFails, RemoveLeaf, callVars, taskVars, helperVars, kernelVars
  <2>3. CASE SpawnWorker
    BY <2>3 DEF SpawnWorker, callVars, taskVars, helperVars
  <2>4. CASE Attach
    BY <2>4 DEF Attach, callVars, ownedVars, taskVars, helperVars, kernelVars
  <2>5. CASE Aborted
    BY <2>5 DEF Aborted, RemoveLeaf, callVars, taskVars, helperVars
  <2>6. CASE TakePipes
    BY <2>6 DEF TakePipes, RemoveLeaf, callVars, taskVars, helperVars, kernelVars
  <2> QED BY <1>1, <2>1, <2>2, <2>3, <2>4, <2>5, <2>6 DEF Start
<1>2. CASE RunRite
  <2>1. CASE ReadReply
    BY <2>1 DEF ReadReply, FrameReady, ownedVars, taskVars, kernelVars
  <2>2. CASE ReadFails
    BY <2>2
    DEF ReadFails, ReadFailures, TimeIsUp, FrameReady, StreamEnded, ownedVars,
        taskVars, helperVars, kernelVars
  <2>3. CASE AwaitWriter
    BY <2>3
    DEF AwaitWriter, WriteFailureAllowed, Decoded, ownedVars, taskVars,
        helperVars, kernelVars
  <2>4. CASE CancelWriter
    BY <2>4 DEF CancelWriter, callVars, ownedVars, helperVars, kernelVars
  <2>5. CASE Probe
    BY <2>5 DEF Probe, callVars, ownedVars, taskVars, helperVars, kernelVars
  <2>6. CASE WaitExited
    BY <2>6 DEF WaitExited, callVars, taskVars, helperVars
  <2>7. CASE Close
    BY <2>7 DEF Close, RemoveLeaf, callVars, taskVars, helperVars, kernelVars
  <2> QED BY <1>2, <2>1, <2>2, <2>3, <2>4, <2>5, <2>6, <2>7 DEF RunRite
<1>3. CASE Writer
  <2>1. UNCHANGED <<ctl, callVars, ownedVars>>
    BY <1>3 DEF Writer, WriteHeader, WriteBody, WriteFails
  <2> QED BY <2>1 DEF callVars, ownedVars
<1>4. CASE Helper
  <2>1. UNCHANGED <<ctl, callVars, ownedVars, taskVars>>
    BY <1>4
    DEF Helper, HelperStarts, ReadHeader, InstallLimits, ReadBody, Execute,
        WriteResponse, FinishResponse, HelperExits, outsideHelper
  <2> QED BY <2>1 DEF callVars, ownedVars, taskVars
<1>5. CASE Refuse
  BY <1>5 DEF Refuse, Refuses, ownedVars, taskVars, helperVars, kernelVars
<1>6. CASE StartWriter
  BY <1>6 DEF StartWriter, Refuses, ownedVars, helperVars
<1>7. CASE Deinit
  BY <1>7 DEF Deinit, callVars, taskVars, helperVars, kernelVars
<1>8. CASE Crash
  BY <1>8 DEF Crash, outsideHelper, callVars, ownedVars, taskVars, helperVars
<1>9. CASE BecomeZombie
  BY <1>9
  DEF BecomeZombie, outsideHelper, callVars, ownedVars, taskVars, helperVars
<1>10. CASE CompetingReaper
  BY <1>10 DEF CompetingReaper, callVars, ownedVars, taskVars, helperVars
<1>11. CASE DeadlinePasses
  BY <1>11 DEF DeadlinePasses, Busy, callVars, ownedVars, taskVars, helperVars
<1>12. CASE ControllerDies
  BY <1>12 DEF ControllerDies, callVars, helperVars, kernelVars
<1>13. CASE UNCHANGED vars
  BY <1>13 DEF vars, callVars, ownedVars, taskVars, helperVars, kernelVars
<1>14. CASE TerminateAndReap
  <2>1. CASE VerifyOwnership
    BY <2>1
    DEF VerifyOwnership, Verified, callVars, ownedVars, taskVars, helperVars,
        kernelVars
  <2>2. CASE OwnershipLost
    BY <2>2
    DEF OwnershipLost, Verified, Owned, RemoveLeaf, callVars, taskVars,
        helperVars, kernelVars
  <2>3. CASE HardKillGroupAndChild
    BY <2>3
    DEF HardKillGroupAndChild, callVars, ownedVars, taskVars, helperVars
  <2>4. CASE Reap
    BY <2>4 DEF Reap, callVars, taskVars, helperVars
  <2> QED BY <1>14, <2>1, <2>2, <2>3, <2>4 DEF TerminateAndReap
<1> QED BY <1>1, <1>2, <1>3, <1>4, <1>5, <1>6, <1>7, <1>8, <1>9, <1>10, <1>11,
     <1>12, <1>13, <1>14
   DEF Next, Ended

\* Every step keeps track of the child.
LEMMA ChildStep ==
  ASSUME TypeOK, ControlInv, ChildInv, [Next]_vars
  PROVE  ChildInv'
<1> USE DEF TypeOK, ControlInv, ChildInv, Starting, InExchange
<1>1. CASE Start
  <2>1. CASE CreateGroup
    BY <2>1 DEF CreateGroup, callVars, taskVars, helperVars, kernelVars
  <2>2. CASE SpawnFails
    BY <2>2 DEF SpawnFails, RemoveLeaf, callVars, taskVars, helperVars, kernelVars
  <2>3. CASE SpawnWorker
    BY <2>3 DEF SpawnWorker, callVars, taskVars, helperVars
  <2>4. CASE Attach
    BY <2>4 DEF Attach, callVars, ownedVars, taskVars, helperVars, kernelVars
  <2>5. CASE Aborted
    BY <2>5 DEF Aborted, RemoveLeaf, callVars, taskVars, helperVars
  <2>6. CASE TakePipes
    BY <2>6 DEF TakePipes, RemoveLeaf, callVars, taskVars, helperVars, kernelVars
  <2> QED BY <1>1, <2>1, <2>2, <2>3, <2>4, <2>5, <2>6 DEF Start
<1>2. CASE RunRite
  <2>1. CASE ReadReply
    BY <2>1 DEF ReadReply, FrameReady, ownedVars, taskVars, kernelVars
  <2>2. CASE ReadFails
    BY <2>2
    DEF ReadFails, ReadFailures, TimeIsUp, FrameReady, StreamEnded, ownedVars,
        taskVars, helperVars, kernelVars
  <2>3. CASE AwaitWriter
    BY <2>3
    DEF AwaitWriter, WriteFailureAllowed, Decoded, ownedVars, taskVars,
        helperVars, kernelVars
  <2>4. CASE CancelWriter
    BY <2>4 DEF CancelWriter, callVars, ownedVars, helperVars, kernelVars
  <2>5. CASE Probe
    BY <2>5 DEF Probe, callVars, ownedVars, taskVars, helperVars, kernelVars
  <2>6. CASE WaitExited
    BY <2>6 DEF WaitExited, callVars, taskVars, helperVars
  <2>7. CASE Close
    BY <2>7 DEF Close, RemoveLeaf, callVars, taskVars, helperVars, kernelVars
  <2> QED BY <1>2, <2>1, <2>2, <2>3, <2>4, <2>5, <2>6, <2>7 DEF RunRite
<1>3. CASE Writer
  <2>1. UNCHANGED <<ctl, callVars, ownedVars, stage, child>>
    BY <1>3
    DEF Writer, WriteHeader, WriteBody, WriteFails, helperVars, kernelVars
  <2> QED BY <2>1 DEF callVars, ownedVars
<1>4. CASE Helper
  <2>1. CASE HelperStarts
    BY <2>1 DEF HelperStarts, At, outsideHelper, callVars, ownedVars, taskVars
  <2>2. CASE ReadHeader
    BY <2>2
    DEF ReadHeader, At, InputEnded, Answer, outsideHelper, callVars, ownedVars,
        taskVars
  <2>3. CASE InstallLimits
    BY <2>3
    DEF InstallLimits, At, Answer, outsideHelper, callVars, ownedVars, taskVars
  <2>4. CASE ReadBody
    BY <2>4
    DEF ReadBody, At, InputEnded, Answer, outsideHelper, callVars, ownedVars,
        taskVars
  <2>5. CASE Execute
    BY <2>5
    DEF Execute, At, Replies, Answer, outsideHelper, callVars, ownedVars,
        taskVars
  <2>6. CASE WriteResponse
    BY <2>6 DEF WriteResponse, At, outsideHelper, callVars, ownedVars, taskVars
  <2>7. CASE FinishResponse
    BY <2>7 DEF FinishResponse, At, outsideHelper, callVars, ownedVars, taskVars
  <2>8. CASE HelperExits
    BY <2>8
    DEF HelperExits, At, outsideHelper, callVars, ownedVars, taskVars,
        helperVars
  <2> QED BY <1>4, <2>1, <2>2, <2>3, <2>4, <2>5, <2>6, <2>7, <2>8 DEF Helper
<1>5. CASE Refuse
  BY <1>5 DEF Refuse, Refuses, ownedVars, taskVars, helperVars, kernelVars
<1>6. CASE StartWriter
  BY <1>6 DEF StartWriter, Refuses, ownedVars, helperVars
<1>7. CASE Deinit
  BY <1>7 DEF Deinit, callVars, taskVars, helperVars, kernelVars
<1>8. CASE Crash
  BY <1>8 DEF Crash, outsideHelper, callVars, ownedVars, taskVars, helperVars
<1>9. CASE BecomeZombie
  BY <1>9
  DEF BecomeZombie, outsideHelper, callVars, ownedVars, taskVars, helperVars
<1>10. CASE CompetingReaper
  BY <1>10 DEF CompetingReaper, callVars, ownedVars, taskVars, helperVars
<1>11. CASE DeadlinePasses
  BY <1>11 DEF DeadlinePasses, Busy, callVars, ownedVars, taskVars, helperVars
<1>12. CASE ControllerDies
  BY <1>12 DEF ControllerDies, callVars, helperVars, kernelVars
<1>13. CASE UNCHANGED vars
  BY <1>13 DEF vars, callVars, ownedVars, taskVars, helperVars, kernelVars
<1>14. CASE TerminateAndReap
  <2>1. CASE VerifyOwnership
    BY <2>1
    DEF VerifyOwnership, Verified, callVars, ownedVars, taskVars, helperVars,
        kernelVars
  <2>2. CASE OwnershipLost
    BY <2>2
    DEF OwnershipLost, Verified, Owned, RemoveLeaf, callVars, taskVars,
        helperVars, kernelVars
  <2>3. CASE HardKillGroupAndChild
    BY <2>3
    DEF HardKillGroupAndChild, callVars, ownedVars, taskVars, helperVars
  <2>4. CASE Reap
    BY <2>4 DEF Reap, callVars, taskVars, helperVars
  <2> QED BY <1>14, <2>1, <2>2, <2>3, <2>4 DEF TerminateAndReap
<1> QED BY <1>1, <1>2, <1>3, <1>4, <1>5, <1>6, <1>7, <1>8, <1>9, <1>10, <1>11,
     <1>12, <1>13, <1>14
   DEF Next, Ended

\* Every step keeps the helper in its place in the stream.
LEMMA StageStep ==
  ASSUME TypeOK, InputInv, ChildInv, StageInv, FrameInv, ControlInv, [Next]_vars
  PROVE  StageInv'
<1> USE DEF TypeOK, InputInv, ChildInv, StageInv, FrameInv, ControlInv, Starting, InExchange
<1>1. CASE Start
  <2>1. CASE CreateGroup
    BY <2>1 DEF CreateGroup, callVars, taskVars, helperVars, kernelVars
  <2>2. CASE SpawnFails
    BY <2>2 DEF SpawnFails, RemoveLeaf, callVars, taskVars, helperVars, kernelVars
  <2>3. CASE SpawnWorker
    BY <2>3 DEF SpawnWorker, callVars, taskVars, helperVars
  <2>4. CASE Attach
    BY <2>4 DEF Attach, callVars, ownedVars, taskVars, helperVars, kernelVars
  <2>5. CASE Aborted
    BY <2>5 DEF Aborted, RemoveLeaf, callVars, taskVars, helperVars
  <2>6. CASE TakePipes
    BY <2>6 DEF TakePipes, RemoveLeaf, callVars, taskVars, helperVars, kernelVars
  <2> QED BY <1>1, <2>1, <2>2, <2>3, <2>4, <2>5, <2>6 DEF Start
<1>2. CASE RunRite
  <2>1. CASE ReadReply
    BY <2>1 DEF ReadReply, FrameReady, ownedVars, taskVars, kernelVars
  <2>2. CASE ReadFails
    BY <2>2
    DEF ReadFails, ReadFailures, TimeIsUp, FrameReady, StreamEnded, ownedVars,
        taskVars, helperVars, kernelVars
  <2>3. CASE AwaitWriter
    BY <2>3
    DEF AwaitWriter, WriteFailureAllowed, Decoded, ownedVars, taskVars,
        helperVars, kernelVars
  <2>4. CASE CancelWriter
    BY <2>4 DEF CancelWriter, callVars, ownedVars, helperVars, kernelVars
  <2>5. CASE Probe
    BY <2>5 DEF Probe, callVars, ownedVars, taskVars, helperVars, kernelVars
  <2>6. CASE WaitExited
    BY <2>6 DEF WaitExited, callVars, taskVars, helperVars
  <2>7. CASE Close
    BY <2>7 DEF Close, RemoveLeaf, callVars, taskVars, helperVars, kernelVars
  <2> QED BY <1>2, <2>1, <2>2, <2>3, <2>4, <2>5, <2>6, <2>7 DEF RunRite
<1>3. CASE Writer
  <2>1. UNCHANGED <<ctl, callVars, ownedVars, helperVars>>
    BY <1>3 DEF Writer, WriteHeader, WriteBody, WriteFails
  <2> QED BY <2>1 DEF callVars, ownedVars, helperVars
<1>4. CASE Helper
  <2>1. CASE HelperStarts
    BY <2>1 DEF HelperStarts, At, outsideHelper, callVars, ownedVars, taskVars
  <2>2. CASE ReadHeader
    BY <2>2
    DEF ReadHeader, At, InputEnded, Answer, outsideHelper, callVars, ownedVars,
        taskVars
  <2>3. CASE InstallLimits
    BY <2>3
    DEF InstallLimits, At, Answer, outsideHelper, callVars, ownedVars, taskVars
  <2>4. CASE ReadBody
    BY <2>4
    DEF ReadBody, At, InputEnded, Answer, outsideHelper, callVars, ownedVars,
        taskVars
  <2>5. CASE Execute
    BY <2>5
    DEF Execute, At, Replies, Answer, outsideHelper, callVars, ownedVars,
        taskVars
  <2>6. CASE WriteResponse
    BY <2>6 DEF WriteResponse, At, outsideHelper, callVars, ownedVars, taskVars
  <2>7. CASE FinishResponse
    BY <2>7 DEF FinishResponse, At, outsideHelper, callVars, ownedVars, taskVars
  <2>8. CASE HelperExits
    BY <2>8
    DEF HelperExits, At, outsideHelper, callVars, ownedVars, taskVars,
        helperVars
  <2> QED BY <1>4, <2>1, <2>2, <2>3, <2>4, <2>5, <2>6, <2>7, <2>8 DEF Helper
<1>5. CASE Refuse
  BY <1>5 DEF Refuse, Refuses, ownedVars, taskVars, helperVars, kernelVars
<1>6. CASE StartWriter
  BY <1>6 DEF StartWriter, Refuses, ownedVars, helperVars
<1>7. CASE Deinit
  BY <1>7 DEF Deinit, callVars, taskVars, helperVars, kernelVars
<1>8. CASE Crash
  BY <1>8 DEF Crash, outsideHelper, callVars, ownedVars, taskVars, helperVars
<1>9. CASE BecomeZombie
  BY <1>9
  DEF BecomeZombie, outsideHelper, callVars, ownedVars, taskVars, helperVars
<1>10. CASE CompetingReaper
  BY <1>10 DEF CompetingReaper, callVars, ownedVars, taskVars, helperVars
<1>11. CASE DeadlinePasses
  BY <1>11 DEF DeadlinePasses, Busy, callVars, ownedVars, taskVars, helperVars
<1>12. CASE ControllerDies
  BY <1>12 DEF ControllerDies, callVars, helperVars, kernelVars
<1>13. CASE UNCHANGED vars
  BY <1>13 DEF vars, callVars, ownedVars, taskVars, helperVars, kernelVars
<1>14. CASE TerminateAndReap
  <2>1. CASE VerifyOwnership
    BY <2>1
    DEF VerifyOwnership, Verified, callVars, ownedVars, taskVars, helperVars,
        kernelVars
  <2>2. CASE OwnershipLost
    BY <2>2
    DEF OwnershipLost, Verified, Owned, RemoveLeaf, callVars, taskVars,
        helperVars, kernelVars
  <2>3. CASE HardKillGroupAndChild
    BY <2>3
    DEF HardKillGroupAndChild, callVars, ownedVars, taskVars, helperVars
  <2>4. CASE Reap
    BY <2>4 DEF Reap, callVars, taskVars, helperVars
  <2> QED BY <1>14, <2>1, <2>2, <2>3, <2>4 DEF TerminateAndReap
<1> QED BY <1>1, <1>2, <1>3, <1>4, <1>5, <1>6, <1>7, <1>8, <1>9, <1>10, <1>11,
     <1>12, <1>13, <1>14
   DEF Next, Ended

\* Every step keeps track of the response pipe.
LEMMA FrameStep ==
  ASSUME TypeOK, StageInv, FrameInv, ControlInv, [Next]_vars
  PROVE  FrameInv'
<1> USE DEF TypeOK, StageInv, FrameInv, ControlInv, Starting
<1>1. CASE Start
  <2>1. UNCHANGED <<asked, helperVars>>
    BY <1>1
    DEF Start, CreateGroup, SpawnFails, SpawnWorker, Attach, Aborted,
        TakePipes, callVars
  <2> QED BY <2>1 DEF helperVars
<1>2. CASE RunRite
  <2>1. CASE ReadReply
    BY <2>1 DEF ReadReply, FrameReady, ownedVars, taskVars, kernelVars
  <2>2. CASE ReadFails
    BY <2>2
    DEF ReadFails, ReadFailures, TimeIsUp, FrameReady, StreamEnded, ownedVars,
        taskVars, helperVars, kernelVars
  <2>3. CASE AwaitWriter
    BY <2>3
    DEF AwaitWriter, WriteFailureAllowed, Decoded, ownedVars, taskVars,
        helperVars, kernelVars
  <2>4. CASE CancelWriter
    BY <2>4 DEF CancelWriter, callVars, ownedVars, helperVars, kernelVars
  <2>5. CASE Probe
    BY <2>5 DEF Probe, callVars, ownedVars, taskVars, helperVars, kernelVars
  <2>6. CASE WaitExited
    BY <2>6 DEF WaitExited, callVars, taskVars, helperVars
  <2>7. CASE Close
    BY <2>7 DEF Close, RemoveLeaf, callVars, taskVars, helperVars, kernelVars
  <2> QED BY <1>2, <2>1, <2>2, <2>3, <2>4, <2>5, <2>6, <2>7 DEF RunRite
<1>3. CASE Writer
  <2>1. UNCHANGED <<ctl, callVars, helperVars>>
    BY <1>3 DEF Writer, WriteHeader, WriteBody, WriteFails
  <2> QED BY <2>1 DEF callVars, helperVars
<1>4. CASE Helper
  <2>1. CASE HelperStarts
    BY <2>1 DEF HelperStarts, At, outsideHelper, callVars, ownedVars, taskVars
  <2>2. CASE ReadHeader
    BY <2>2
    DEF ReadHeader, At, InputEnded, Answer, outsideHelper, callVars, ownedVars,
        taskVars
  <2>3. CASE InstallLimits
    BY <2>3
    DEF InstallLimits, At, Answer, outsideHelper, callVars, ownedVars, taskVars
  <2>4. CASE ReadBody
    BY <2>4
    DEF ReadBody, At, InputEnded, Answer, outsideHelper, callVars, ownedVars,
        taskVars
  <2>5. CASE Execute
    BY <2>5
    DEF Execute, At, Replies, Answer, outsideHelper, callVars, ownedVars,
        taskVars
  <2>6. CASE WriteResponse
    BY <2>6 DEF WriteResponse, At, outsideHelper, callVars, ownedVars, taskVars
  <2>7. CASE FinishResponse
    <3>1. CASE out_open
      <4>1. /\ responses' # <<>> /\ Head(responses').kind = Head(responses).kind
            /\ Head(responses').request = Head(responses).request
        BY <2>7, <3>1, FrameCompleted DEF FinishResponse, At
      <4> QED BY <2>7, <3>1, <4>1
          DEF FinishResponse, At, outsideHelper, callVars
    <3>2. CASE ~out_open
      BY <2>7, <3>2 DEF FinishResponse, outsideHelper, callVars
    <3> QED BY <3>1, <3>2
  <2>8. CASE HelperExits
    BY <2>8
    DEF HelperExits, At, outsideHelper, callVars, ownedVars, taskVars,
        helperVars
  <2> QED BY <1>4, <2>1, <2>2, <2>3, <2>4, <2>5, <2>6, <2>7, <2>8 DEF Helper
<1>5. CASE Refuse
  BY <1>5 DEF Refuse, Refuses, ownedVars, taskVars, helperVars, kernelVars
<1>6. CASE StartWriter
  BY <1>6 DEF StartWriter, Refuses, ownedVars, helperVars
<1>7. CASE Deinit
  BY <1>7 DEF Deinit, callVars, taskVars, helperVars, kernelVars
<1>8. CASE Crash
  BY <1>8 DEF Crash, outsideHelper, callVars, ownedVars, taskVars, helperVars
<1>9. CASE BecomeZombie
  BY <1>9
  DEF BecomeZombie, outsideHelper, callVars, ownedVars, taskVars, helperVars
<1>10. CASE CompetingReaper
  BY <1>10 DEF CompetingReaper, callVars, ownedVars, taskVars, helperVars
<1>11. CASE DeadlinePasses
  BY <1>11 DEF DeadlinePasses, Busy, callVars, ownedVars, taskVars, helperVars
<1>12. CASE ControllerDies
  BY <1>12 DEF ControllerDies, callVars, helperVars, kernelVars
<1>13. CASE UNCHANGED vars
  BY <1>13 DEF vars, callVars, ownedVars, taskVars, helperVars, kernelVars
<1>14. CASE TerminateAndReap
  <2>1. CASE VerifyOwnership
    BY <2>1
    DEF VerifyOwnership, Verified, callVars, ownedVars, taskVars, helperVars,
        kernelVars
  <2>2. CASE OwnershipLost
    BY <2>2
    DEF OwnershipLost, Verified, Owned, RemoveLeaf, callVars, taskVars,
        helperVars, kernelVars
  <2>3. CASE HardKillGroupAndChild
    BY <2>3
    DEF HardKillGroupAndChild, callVars, ownedVars, taskVars, helperVars
  <2>4. CASE Reap
    BY <2>4 DEF Reap, callVars, taskVars, helperVars
  <2> QED BY <1>14, <2>1, <2>2, <2>3, <2>4 DEF TerminateAndReap
<1> QED BY <1>1, <1>2, <1>3, <1>4, <1>5, <1>6, <1>7, <1>8, <1>9, <1>10, <1>11,
     <1>12, <1>13, <1>14
   DEF Next, Ended

\* Every step keeps what the controller knows.
LEMMA ControlStep ==
  ASSUME TypeOK, WriterInv, InputInv, ChildInv, StageInv, FrameInv, ControlInv, [Next]_vars
  PROVE  ControlInv'
<1> USE DEF TypeOK, WriterInv, InputInv, ChildInv, StageInv, FrameInv, ControlInv, OwnAnswer, Starting, InExchange
<1>1. CASE Start
  <2>1. CASE CreateGroup
    BY <2>1 DEF CreateGroup, callVars, taskVars, helperVars, kernelVars
  <2>2. CASE SpawnFails
    BY <2>2 DEF SpawnFails, RemoveLeaf, callVars, taskVars, helperVars, kernelVars
  <2>3. CASE SpawnWorker
    BY <2>3 DEF SpawnWorker, callVars, taskVars, helperVars
  <2>4. CASE Attach
    BY <2>4 DEF Attach, callVars, ownedVars, taskVars, helperVars, kernelVars
  <2>5. CASE Aborted
    BY <2>5 DEF Aborted, RemoveLeaf, callVars, taskVars, helperVars
  <2>6. CASE TakePipes
    BY <2>6 DEF TakePipes, RemoveLeaf, callVars, taskVars, helperVars, kernelVars
  <2> QED BY <1>1, <2>1, <2>2, <2>3, <2>4, <2>5, <2>6 DEF Start
<1>2. CASE RunRite
  <2>1. CASE ReadReply
    BY <2>1 DEF ReadReply, FrameReady, ownedVars, taskVars, kernelVars
  <2>2. CASE ReadFails
    BY <2>2
    DEF ReadFails, ReadFailures, TimeIsUp, FrameReady, StreamEnded, ownedVars,
        taskVars, helperVars, kernelVars
  <2>3. CASE AwaitWriter
    <3>1. CASE WriteFailureAllowed
      <4>1. /\ result' = "report" => got.kind = "report"
            /\ result' = "ProtocolMismatch" => got.kind = "mismatch"
            /\ result' # "TransportFailure"
        <5>1. got.kind \in {"report", "limit", "worker_error", "mismatch"}
          BY <2>3 DEF AwaitWriter, Frames, Replies
        <5> QED BY <2>3, <3>1, <5>1 DEF AwaitWriter, Decoded
      <4>2. got.kind \in {"report", "mismatch"} =>
              got = [request |-> asked, kind |-> got.kind, whole |-> TRUE]
        <5>1. got = [request |-> got.request, kind |-> got.kind, whole |-> got.whole]
          BY Zenon DEF Frames
        <5>2. got.whole = TRUE
          BY <2>3 DEF AwaitWriter, Frames
        <5> QED BY <2>3, <5>1, <5>2 DEF AwaitWriter
      <4> QED BY <2>3, <3>1, <4>1, <4>2
          DEF AwaitWriter, ownedVars, taskVars, helperVars, kernelVars
    <3>2. CASE ~WriteFailureAllowed
      BY <2>3, <3>2 DEF AwaitWriter, ownedVars, taskVars, helperVars, kernelVars
    <3> QED BY <3>1, <3>2
  <2>4. CASE CancelWriter
    BY <2>4 DEF CancelWriter, callVars, ownedVars, helperVars, kernelVars
  <2>5. CASE Probe
    BY <2>5 DEF Probe, callVars, ownedVars, taskVars, helperVars, kernelVars
  <2>6. CASE WaitExited
    BY <2>6 DEF WaitExited, callVars, taskVars, helperVars
  <2>7. CASE Close
    BY <2>7 DEF Close, RemoveLeaf, callVars, taskVars, helperVars, kernelVars
  <2> QED BY <1>2, <2>1, <2>2, <2>3, <2>4, <2>5, <2>6, <2>7 DEF RunRite
<1>3. CASE Writer
  <2>1. UNCHANGED <<ctl, callVars, helperVars>>
    BY <1>3 DEF Writer, WriteHeader, WriteBody, WriteFails
  <2> QED BY <2>1 DEF callVars, helperVars
<1>4. CASE Helper
  <2>1. CASE HelperStarts
    BY <2>1 DEF HelperStarts, At, outsideHelper, callVars, ownedVars, taskVars
  <2>2. CASE ReadHeader
    BY <2>2
    DEF ReadHeader, At, InputEnded, Answer, outsideHelper, callVars, ownedVars,
        taskVars
  <2>3. CASE InstallLimits
    BY <2>3
    DEF InstallLimits, At, Answer, outsideHelper, callVars, ownedVars, taskVars
  <2>4. CASE ReadBody
    BY <2>4
    DEF ReadBody, At, InputEnded, Answer, outsideHelper, callVars, ownedVars,
        taskVars
  <2>5. CASE Execute
    BY <2>5
    DEF Execute, At, Replies, Answer, outsideHelper, callVars, ownedVars,
        taskVars
  <2>6. CASE WriteResponse
    BY <2>6 DEF WriteResponse, At, outsideHelper, callVars, ownedVars, taskVars
  <2>7. CASE FinishResponse
    BY <2>7 DEF FinishResponse, At, outsideHelper, callVars, ownedVars, taskVars
  <2>8. CASE HelperExits
    BY <2>8
    DEF HelperExits, At, outsideHelper, callVars, ownedVars, taskVars,
        helperVars
  <2> QED BY <1>4, <2>1, <2>2, <2>3, <2>4, <2>5, <2>6, <2>7, <2>8 DEF Helper
<1>5. CASE Refuse
  BY <1>5 DEF Refuse, Refuses, ownedVars, taskVars, helperVars, kernelVars
<1>6. CASE StartWriter
  BY <1>6 DEF StartWriter, Refuses, ownedVars, helperVars
<1>7. CASE Deinit
  BY <1>7 DEF Deinit, callVars, taskVars, helperVars, kernelVars
<1>8. CASE Crash
  BY <1>8 DEF Crash, outsideHelper, callVars, ownedVars, taskVars, helperVars
<1>9. CASE BecomeZombie
  BY <1>9
  DEF BecomeZombie, outsideHelper, callVars, ownedVars, taskVars, helperVars
<1>10. CASE CompetingReaper
  BY <1>10 DEF CompetingReaper, callVars, ownedVars, taskVars, helperVars
<1>11. CASE DeadlinePasses
  BY <1>11 DEF DeadlinePasses, Busy, callVars, ownedVars, taskVars, helperVars
<1>12. CASE ControllerDies
  BY <1>12 DEF ControllerDies, callVars, helperVars, kernelVars
<1>13. CASE UNCHANGED vars
  BY <1>13 DEF vars, callVars, ownedVars, taskVars, helperVars, kernelVars
<1>14. CASE TerminateAndReap
  <2>1. CASE VerifyOwnership
    BY <2>1
    DEF VerifyOwnership, Verified, callVars, ownedVars, taskVars, helperVars,
        kernelVars
  <2>2. CASE OwnershipLost
    BY <2>2
    DEF OwnershipLost, Verified, Owned, RemoveLeaf, callVars, taskVars,
        helperVars, kernelVars
  <2>3. CASE HardKillGroupAndChild
    BY <2>3
    DEF HardKillGroupAndChild, callVars, ownedVars, taskVars, helperVars
  <2>4. CASE Reap
    BY <2>4 DEF Reap, callVars, taskVars, helperVars
  <2> QED BY <1>14, <2>1, <2>2, <2>3, <2>4 DEF TerminateAndReap
<1> QED BY <1>1, <1>2, <1>3, <1>4, <1>5, <1>6, <1>7, <1>8, <1>9, <1>10, <1>11,
     <1>12, <1>13, <1>14
   DEF Next, Ended

\* The parts of the invariant hold in every reachable state.
LEMMA SessionInvariant == Spec => []SessionInv
<1>1. ASSUME Init PROVE SessionInv
  <2> USE <1>1, SessionAssumption DEF Init
  <2>1. /\ broken \in BOOLEAN /\ known \in BOOLEAN /\ leaf \in BOOLEAN
        /\ out_open \in BOOLEAN /\ large \in BOOLEAN /\ limits_installed \in BOOLEAN
    BY Zenon
  <2>2. /\ reply \in [kind : Replies, leaves : BOOLEAN] /\ got \in Frames
        /\ responses \in Seq(Frames) /\ Len(responses) = 0
    BY EmptySeq DEF Replies, Frames, NoFrame
  <2>3. TypeOK
    BY <2>1, <2>2 DEF TypeOK, Results
  <2>4. WriterInv /\ InputInv /\ ChildInv /\ StageInv /\ FrameInv /\ ControlInv
    BY DEF WriterInv, InputInv, ChildInv, StageInv, FrameInv, ControlInv, OwnAnswer,
           Starting, InExchange, Ending
  <2> QED BY <2>3, <2>4 DEF SessionInv
<1>2. SessionInv /\ [Next]_vars => SessionInv'
  BY TypeStep, WriterStep, InputStep, ChildStep, StageStep, FrameStep, ControlStep
  DEF SessionInv
<1> QED BY <1>1, <1>2, PTL DEF Spec

\* However many exchanges the pipes have carried, an open session is in step.
THEOREM InStepHolds == Spec => []InStep
<1>1. SessionInv => InStep
  BY DEF SessionInv, TypeOK, WriterInv, InputInv, StageInv, ControlInv, InStep, InExchange
<1> QED BY <1>1, SessionInvariant, PTL

\* A report always answers the request of the exchange that returns it.
THEOREM OwnAnswerHolds == Spec => []OwnAnswer
<1>1. SessionInv => OwnAnswer
  BY DEF SessionInv, ControlInv
<1> QED BY <1>1, SessionInvariant, PTL

\* Over any number of exchanges: a call on a closed session finds the helper
\* reaped, a transport or protocol failure has closed it unless its whole answer did
\* not decode, and deinit leaves no child, and of the pipes at most the input of a
\* closed session.
THEOREM NothingLeftHolds == Spec => []NothingLeft
<1>1. SessionInv => NothingLeft
  BY DEF SessionInv, InputInv, ChildInv, ControlInv, NothingLeft
<1> QED BY <1>1, SessionInvariant, PTL

\* Steps that a caller cannot see.
LEMMA Invisible ==
  ASSUME UNCHANGED <<ctl, result, broken, requests>>
  PROVE  UNCHANGED Service!serviceVars
  BY DEF Service!serviceVars, Status, LastAnswer, Busy

\* An exchange under way does not show what it returned last, or will return.
LEMMA StillBusy ==
  ASSUME Busy, Busy', UNCHANGED requests
  PROVE  UNCHANGED Service!serviceVars
<1>1. Status = "exchange" /\ Status' = "exchange"
  BY DEF Status, Busy
<1>2. LastAnswer = "none" /\ LastAnswer' = "none"
  BY DEF LastAnswer
<1> QED BY <1>1, <1>2 DEF Service!serviceVars

\* Every step of the session is one that the service takes, or none.
LEMMA ServiceStep ==
  ASSUME SessionInv, [Next]_vars
  PROVE  [Service!ServiceNext]_(Service!serviceVars)
<1> USE DEF SessionInv, TypeOK, InputInv, ChildInv, ControlInv, Starting, InExchange
<1>1. CASE Start
  <2>1. CASE CreateGroup
    BY <2>1
    DEF CreateGroup, callVars, taskVars, helperVars, kernelVars, Busy, Status,
        LastAnswer, Service!serviceVars, Service!ServiceNext, Service!Started
  <2>2. CASE SpawnFails
    BY <2>2
    DEF SpawnFails, RemoveLeaf, callVars, taskVars, helperVars, kernelVars, Busy,
        Status, LastAnswer, Service!serviceVars, Service!ServiceNext, Service!Started
  <2>3. CASE SpawnWorker
    BY <2>3
    DEF SpawnWorker, callVars, taskVars, helperVars, Busy, Status, LastAnswer,
        Service!serviceVars
  <2>4. CASE Attach
    BY <2>4
    DEF Attach, callVars, ownedVars, taskVars, helperVars, kernelVars, Busy,
        Status, LastAnswer, Service!serviceVars
  <2>5. CASE Aborted
    BY <2>5
    DEF Aborted, RemoveLeaf, callVars, taskVars, helperVars, Busy, Status, LastAnswer,
        Service!serviceVars, Service!ServiceNext, Service!Started
  <2>6. CASE TakePipes
    BY <2>6
    DEF TakePipes, RemoveLeaf, callVars, taskVars, helperVars, kernelVars, Busy,
        Status, LastAnswer, Service!serviceVars, Service!ServiceNext, Service!Started
  <2> QED BY <1>1, <2>1, <2>2, <2>3, <2>4, <2>5, <2>6 DEF Start
<1>2. CASE RunRite
  <2>1. CASE ReadReply
    BY <2>1
    DEF ReadReply, FrameReady, ownedVars, taskVars, kernelVars, Busy, Status,
        LastAnswer, Service!serviceVars
  <2>2. CASE ReadFails
    <3>1. Busy /\ Busy' /\ UNCHANGED requests
      BY <2>2 DEF ReadFails, Busy
    <3> QED BY <3>1, StillBusy
  <2>3. CASE AwaitWriter
    <3>1. CASE WriteFailureAllowed
      <4>1. got.kind \in {"report", "limit", "worker_error", "mismatch"}
        BY <2>3 DEF AwaitWriter, Frames, Replies
      <4>2. result' \in {"report", "limit", "OutOfMemory", "WorkerFailed",
                         "ProtocolMismatch"}
        BY <2>3, <3>1, <4>1 DEF AwaitWriter, Decoded
      <4>3. CASE result' = "ProtocolMismatch"
        <5>1. Service!Undecodable
          BY <2>3, <3>1, <4>3
          DEF AwaitWriter, Status, LastAnswer, Busy, Service!Undecodable
        <5> QED BY <5>1 DEF Service!ServiceNext
      <4>4. CASE result' # "ProtocolMismatch"
        <5>1. Service!Completed
          BY <2>3, <3>1, <4>2, <4>4
          DEF AwaitWriter, Status, LastAnswer, Busy, Service!Completed
        <5> QED BY <5>1 DEF Service!ServiceNext
      <4> QED BY <4>3, <4>4
    <3>2. CASE ~WriteFailureAllowed
      <4>1. Busy /\ Busy' /\ UNCHANGED requests
        BY <2>3, <3>2 DEF AwaitWriter, Busy
      <4> QED BY <4>1, StillBusy
    <3> QED BY <3>1, <3>2
  <2>4. CASE CancelWriter
    BY <2>4
    DEF CancelWriter, callVars, ownedVars, helperVars, kernelVars, Busy, Status,
        LastAnswer, Service!serviceVars, Service!ServiceNext, Service!Failed
  <2>5. CASE Probe
    BY <2>5
    DEF Probe, callVars, ownedVars, taskVars, helperVars, kernelVars, Busy,
        Status, LastAnswer, Service!serviceVars
  <2>6. CASE WaitExited
    BY <2>6
    DEF WaitExited, callVars, taskVars, helperVars, Busy, Status, LastAnswer,
        Service!serviceVars
  <2>7. CASE Close
    BY <2>7
    DEF Close, RemoveLeaf, callVars, taskVars, helperVars, kernelVars, Busy, Status,
        LastAnswer, Service!serviceVars, Service!ServiceNext,
        Service!DeinitReturned
  <2> QED BY <1>2, <2>1, <2>2, <2>3, <2>4, <2>5, <2>6, <2>7 DEF RunRite
<1>3. CASE Writer
  <2>1. UNCHANGED <<ctl, result, broken, requests>>
    BY <1>3 DEF Writer, WriteHeader, WriteBody, WriteFails, callVars
  <2> QED BY <2>1, Invisible
<1>4. CASE Helper
  <2>1. UNCHANGED <<ctl, result, broken, requests>>
    BY <1>4
    DEF Helper, HelperStarts, ReadHeader, InstallLimits, ReadBody, Execute,
        WriteResponse, FinishResponse, HelperExits, callVars, outsideHelper
  <2> QED BY <2>1, Invisible
<1>5. CASE Refuse
  BY <1>5
  DEF Refuse, Refuses, ownedVars, taskVars, helperVars, kernelVars, Busy,
      Status, LastAnswer, Service!serviceVars, Service!ServiceNext,
      Service!Refused, Service!RefusedForGood
<1>6. CASE StartWriter
  <2>1. ctl = "idle" /\ ~broken /\ ctl' = "reply" /\ UNCHANGED requests
    BY <1>6 DEF StartWriter, Refuses
  <2>2. Status = "open" /\ Status' = "exchange" /\ LastAnswer' = "none"
    BY <2>1 DEF Status, LastAnswer, Busy
  <2> QED BY <2>1, <2>2 DEF Service!ServiceNext, Service!Asked
<1>7. CASE Deinit
  BY <1>7
  DEF Deinit, callVars, taskVars, helperVars, kernelVars, Busy, Status,
      LastAnswer, Service!serviceVars, Service!ServiceNext, Service!DeinitCalled
<1>8. CASE Crash
  BY <1>8, Invisible
  DEF Crash, outsideHelper, callVars, ownedVars, taskVars, helperVars
<1>9. CASE BecomeZombie
  BY <1>9, Invisible
  DEF BecomeZombie, outsideHelper, callVars, ownedVars, taskVars, helperVars
<1>10. CASE CompetingReaper
  BY <1>10, Invisible
  DEF CompetingReaper, callVars, ownedVars, taskVars, helperVars
<1>11. CASE DeadlinePasses
  BY <1>11, Invisible
  DEF DeadlinePasses, Busy, callVars, ownedVars, taskVars, helperVars
<1>12. CASE ControllerDies
  <2>1. ctl \notin {"gone", "dead"} /\ ctl' = "dead" /\ UNCHANGED requests
    BY <1>12 DEF ControllerDies, callVars
  <2>2. Status # "gone" /\ Status' = "gone" /\ LastAnswer' = "none"
    BY <2>1 DEF Status, LastAnswer, Busy
  <2> QED BY <2>1, <2>2 DEF Service!ServiceNext, Service!Vanished
<1>13. CASE UNCHANGED vars
  BY <1>13, Invisible DEF vars, callVars
<1>14. CASE TerminateAndReap
  <2>1. CASE VerifyOwnership
    BY <2>1
    DEF VerifyOwnership, Verified, callVars, ownedVars, taskVars, helperVars,
        kernelVars, Busy, Status, LastAnswer, Service!serviceVars
  <2>2. CASE OwnershipLost
    BY <2>2
    DEF OwnershipLost, Verified, callVars, taskVars, helperVars, kernelVars,
        Busy, Status, LastAnswer, Service!serviceVars, Service!ServiceNext,
        Service!Started
  <2>3. CASE HardKillGroupAndChild
    BY <2>3
    DEF HardKillGroupAndChild, callVars, ownedVars, taskVars, helperVars,
        Busy, Status, LastAnswer, Service!serviceVars
  <2>4. CASE Reap
    BY <2>4
    DEF Reap, callVars, taskVars, helperVars, Busy, Status, LastAnswer,
        Service!serviceVars
  <2> QED BY <1>14, <2>1, <2>2, <2>3, <2>4 DEF TerminateAndReap
<1> QED BY <1>1, <1>2, <1>3, <1>4, <1>5, <1>6, <1>7, <1>8, <1>9, <1>10, <1>11,
     <1>12, <1>13, <1>14
   DEF Next, Ended

\* What a session does is what SessionService allows: the safety part of IsSession.
THEOREM SessionImplementsService ==
  Spec => Service!ServiceInit /\ [][Service!ServiceNext]_(Service!serviceVars)
<1>1. Init => Service!ServiceInit
  BY DEF Init, Service!ServiceInit, Status, LastAnswer, Busy
<1>2. SessionInv /\ [Next]_vars => [Service!ServiceNext]_(Service!serviceVars)
  BY ServiceStep
<1> QED BY <1>1, <1>2, SessionInvariant, PTL DEF Spec

=============================================================================
