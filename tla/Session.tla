------------------------------ MODULE Session -------------------------------
(***************************************************************************)
(* A persistent worker session (worker.Session in src/worker.zig) and the  *)
(* loop of its helper process (run in tools/mruby_worker.zig).  The same   *)
(* two pipes carry every exchange, so the ends of the streams delimit      *)
(* nothing: controller and helper stay in step only because each reads     *)
(* exactly what the other announced, and because an exchange that did not  *)
(* ends the session.                                                       *)
(*                                                                         *)
(* Parts of requests are counted: the header of the n-th request is part   *)
(* 2n - 1 of the stream, its body part 2n.  Left out: the encoding of the  *)
(* policy, the audit record, descendants of the helper, and its exit       *)
(* status, which a session ignores.  Calls that overlap are refused by the *)
(* busy flag, an ordinary Boolean: callers on several threads need a lock. *)
(***************************************************************************)
EXTENDS Naturals, Sequences

CONSTANT MaxRequests   \* bound on the exchanges that are begun

ASSUME SessionAssumption == MaxRequests \in Nat

VARIABLES
  ctl,         \* where start, runRite or deinit is
  result,      \* what the last call returned
  asked,       \* exchanges begun
  requests,    \* exchanges completed
  broken,
  known,       \* child.id is not null
  leaf,        \* the leaf cgroup exists
  input,       \* the request pipe's write end: "closed", "child" or "open"
  out_open,    \* the response pipe's read end is open
  task,        \* writeSessionRequest: what it writes next, or how it ended
  write_failure,
  large,       \* the body does not fit into the request pipe
  sent,        \* parts of requests written
  received,    \* parts of requests the helper has read
  responses,   \* the response pipe: frames of the helper
  got,         \* the frame the last exchange read
  child,       \* "none", "running", "exiting", "zombie" or "reaped"
  stage,       \* where the helper is in its loop
  limits_installed,
  reply,       \* the frame being written, and whether the helper exits after it
  deadline     \* of the current exchange: "ahead" or "passed"

callVars == <<result, asked, requests, broken, got>>
ownedVars == <<known, leaf, input, out_open>>
taskVars == <<task, write_failure, large, sent>>
helperVars == <<received, responses, stage, limits_installed, reply>>
kernelVars == <<child, deadline>>
vars == <<ctl, callVars, ownedVars, taskVars, helperVars, kernelVars>>

Replies == {"report", "limit", "worker_error", "mismatch", "malformed"}
Frames == [request : 0 .. MaxRequests, kind : Replies, whole : BOOLEAN]
NoFrame == [request |-> 0, kind |-> "worker_error", whole |-> FALSE]
Results ==
  {"none", "report", "limit", "WorkerFailed", "ProtocolMismatch",
   "OutOfMemory", "TransportFailure", "InvalidOptions", "SessionClosed",
   "ConcurrencyUnavailable"}

TypeOK ==
  /\ ctl \in {"group", "spawn", "attach", "abort", "abort_owned", "aborting",
              "dupe", "failed", "idle", "reply", "await", "fail", "fail_owned",
              "reaping", "cancel", "probe", "wait", "kill", "kill_owned",
              "killing", "close", "gone", "dead"}
  /\ result \in Results
  /\ asked \in 0 .. MaxRequests /\ requests \in 0 .. asked
  /\ broken \in BOOLEAN /\ known \in BOOLEAN /\ leaf \in BOOLEAN
  /\ input \in {"closed", "child", "open"} /\ out_open \in BOOLEAN
  /\ task \in {"none", "header", "body", "done", "failed"}
  /\ write_failure \in {"none", "Timeout", "TransportFailure"}
  /\ large \in BOOLEAN
  /\ sent \in 0 .. 2 * asked /\ received \in 0 .. sent
  /\ responses \in Seq(Frames) /\ Len(responses) <= 1
  /\ got \in Frames
  /\ child \in {"none", "running", "exiting", "zombie", "reaped"}
  /\ stage \in {"start", "header", "limits", "body", "execute", "respond",
                "finish", "exit"}
  /\ limits_installed \in BOOLEAN
  /\ reply \in [kind : Replies, leaves : BOOLEAN]
  /\ deadline \in {"ahead", "passed"}

Init ==
  /\ ctl = "group" /\ result = "none" /\ asked = 0 /\ requests = 0
  /\ broken = FALSE /\ known = FALSE /\ leaf = FALSE
  /\ input = "closed" /\ out_open = FALSE
  /\ task = "none" /\ write_failure = "none" /\ large = FALSE /\ sent = 0
  /\ received = 0 /\ responses = <<>> /\ got = NoFrame
  /\ child = "none" /\ stage = "start" /\ limits_installed = FALSE
  /\ reply = [kind |-> "worker_error", leaves |-> TRUE]
  /\ deadline = "ahead"

TimeIsUp == deadline = "passed"

StreamEnded == child # "running"

\* probeChild: an exited child that nobody reaped still answers to its pid.
Owned == child \in {"running", "exiting", "zombie"}

\* Group.destroy: the directory goes only when it is empty, and a failure to
\* remove it is ignored; a descendant that a graceful end leaves alive is in it.
RemoveLeaf ==
  leaf' \in IF child \in {"running", "exiting"} THEN {leaf} ELSE {FALSE, leaf}

----------------------------------------------------------------------------
(***************************************************************************)
(* Session.start.                                                          *)
(***************************************************************************)
\* The leaf, when one is requested; a failure half-way may leave it behind.
CreateGroup ==
  /\ ctl = "group"
  /\ \/ leaf' \in BOOLEAN /\ ctl' = "spawn"
     \/ leaf' \in BOOLEAN /\ ctl' = "failed"
  /\ UNCHANGED <<callVars, known, input, out_open, taskVars, helperVars,
                 kernelVars>>

\* The signal dispositions are wrong, or the spawn fails.
SpawnFails ==
  /\ ctl = "spawn"
  /\ ctl' = "failed"
  /\ RemoveLeaf
  /\ UNCHANGED <<callVars, known, input, out_open, taskVars, helperVars,
                 kernelVars>>

SpawnWorker ==
  /\ ctl = "spawn"
  /\ ctl' = IF leaf THEN "attach" ELSE "dupe"
  /\ child' = "running"
  /\ known' = TRUE
  /\ input' = "child"
  /\ out_open' = TRUE
  /\ UNCHANGED <<callVars, leaf, taskVars, helperVars, deadline>>

Attach ==
  /\ ctl = "attach"
  /\ ctl' \in {"dupe", "abort"}
  /\ UNCHANGED <<callVars, ownedVars, taskVars, helperVars, kernelVars>>

\* child.wait after a failed attach closes the pipes the child still owns.
Aborted ==
  /\ ctl = "aborting"
  /\ child \in {"zombie", "reaped"}
  /\ child' = "reaped"
  /\ known' = FALSE /\ input' = "closed" /\ out_open' = FALSE
  /\ RemoveLeaf
  /\ ctl' = "failed"
  /\ UNCHANGED <<callVars, taskVars, helperVars, deadline>>

\* The session takes the pipes, then copies the name of the executable; when
\* that fails nothing ends the helper, whose leaf then cannot be removed.
TakePipes ==
  /\ ctl = "dupe"
  /\ input' = "open"
  /\ ctl' \in {"idle", "failed"}
  /\ IF ctl' = "failed" THEN RemoveLeaf ELSE UNCHANGED leaf
  /\ UNCHANGED <<callVars, known, out_open, taskVars, helperVars, kernelVars>>

----------------------------------------------------------------------------
(***************************************************************************)
(* runRite.                                                                *)
(***************************************************************************)
Busy == ctl \in {"reply", "await", "fail", "fail_owned", "reaping", "cancel"}

\* Faulty variant: a closed session is not noticed.
RefusesNever == FALSE

Refuses == broken

\* A call that is refused.  One made during another exchange finds busy set and
\* returns SessionBusy, or SessionClosed, without touching anything.
Refuse ==
  /\ \/ ctl = "idle" /\ Refuses /\ result' = "SessionClosed"
     \/ ctl = "idle" /\ ~Refuses
          /\ result' \in {"InvalidOptions", "ConcurrencyUnavailable"}
  /\ UNCHANGED <<ctl, asked, requests, broken, got, ownedVars, taskVars,
                 helperVars, kernelVars>>

StartWriter ==
  /\ ctl = "idle"
  /\ ~Refuses
  /\ asked < MaxRequests
  /\ asked' = asked + 1
  /\ task' = "header"
  /\ write_failure' = "none"
  /\ large' \in BOOLEAN
  /\ deadline' = "ahead"
  /\ ctl' = "reply"
  /\ UNCHANGED <<result, requests, broken, got, ownedVars, sent, helperVars,
                 child>>

\* A whole frame is at the head of the response pipe.
FrameReady == responses # <<>> /\ Head(responses).whole

ReadReply ==
  /\ ctl = "reply"
  /\ FrameReady
  /\ Head(responses).kind # "malformed"
  /\ got' = Head(responses)
  /\ responses' = Tail(responses)
  /\ ctl' = "await"
  /\ UNCHANGED <<result, asked, requests, broken, ownedVars, taskVars, received,
                 stage, limits_installed, reply, kernelVars>>

\* What reading may fail with.  Out of memory, the body stays in the pipe.
ReadFailures ==
  {f \in {"Timeout", "ProtocolMismatch", "OutOfMemory", "TransportFailure"} :
     CASE f = "Timeout" -> TimeIsUp
       [] f = "ProtocolMismatch" -> FrameReady /\ Head(responses).kind = "malformed"
       [] f = "OutOfMemory" -> FrameReady /\ Head(responses).kind = "report"
       [] f = "TransportFailure" -> StreamEnded /\ ~FrameReady}

\* Faulty variant: out of memory, the exchange returns and the session goes on.
ReadFailsSoftly ==
  /\ ctl = "reply"
  /\ \E f \in ReadFailures :
       /\ result' = IF f = "Timeout" THEN "TransportFailure" ELSE f
       /\ broken' = (f # "OutOfMemory")
       /\ ctl' = IF f = "OutOfMemory" THEN "cancel" ELSE "fail"
  /\ UNCHANGED <<asked, requests, got, ownedVars, taskVars, helperVars, kernelVars>>

\* Faulty variant: a failed exchange only marks the session.
ReadFailsUnreaped ==
  /\ ctl = "reply"
  /\ \E f \in ReadFailures :
       result' = IF f = "Timeout" THEN "TransportFailure" ELSE f
  /\ broken' = TRUE
  /\ ctl' = "cancel"
  /\ UNCHANGED <<asked, requests, got, ownedVars, taskVars, helperVars, kernelVars>>

\* fail marks the session before it ends the helper.
ReadFails ==
  /\ ctl = "reply"
  /\ \E f \in ReadFailures :
       result' = IF f = "Timeout" THEN "TransportFailure" ELSE f
  /\ broken' = TRUE
  /\ ctl' = "fail"
  /\ UNCHANGED <<asked, requests, got, ownedVars, taskVars, helperVars, kernelVars>>

\* responseMayPrecedeRequestBody: a helper that gives up need not have read it.
WriteFailureAllowed ==
  \/ write_failure = "none"
  \/ write_failure = "TransportFailure" /\ got.kind \in {"worker_error", "limit"}

\* decodeReport; what it refuses is a protocol failure that ends no session.
Decoded ==
  [report |-> {"report", "OutOfMemory"}, limit |-> {"limit"},
   worker_error |-> {"WorkerFailed"}, mismatch |-> {"ProtocolMismatch"}][got.kind]

AwaitWriter ==
  /\ ctl = "await"
  /\ task \in {"done", "failed"}
  /\ IF WriteFailureAllowed
       THEN /\ requests' = requests + 1
            /\ result' \in Decoded
            /\ ctl' = "idle"
            /\ UNCHANGED broken
       ELSE /\ result' = "TransportFailure"
            /\ broken' = TRUE
            /\ ctl' = "fail"
            /\ UNCHANGED requests
  /\ UNCHANGED <<asked, got, ownedVars, taskVars, helperVars, kernelVars>>

\* The deferred cancellation of the writer.
CancelWriter ==
  /\ ctl = "cancel"
  /\ task' = IF task \in {"header", "body"} THEN "failed" ELSE task
  /\ ctl' = "idle"
  /\ UNCHANGED <<callVars, ownedVars, write_failure, large, sent, helperVars,
                 kernelVars>>

----------------------------------------------------------------------------
(***************************************************************************)
(* deinit.                                                                 *)
(***************************************************************************)
\* Closing the input asks the helper to end.
Deinit ==
  /\ ctl = "idle"
  /\ IF known THEN input' = "closed" /\ ctl' = "probe"
              ELSE UNCHANGED input /\ ctl' = "close"
  /\ UNCHANGED <<callVars, known, leaf, out_open, taskVars, helperVars, kernelVars>>

\* Faulty variant: deinit trusts the helper to end.
ProbeForever ==
  /\ ctl = "probe"
  /\ child = "zombie"
  /\ ctl' = "wait"
  /\ UNCHANGED <<callVars, ownedVars, taskVars, helperVars, kernelVars>>

\* Up to 500 probes: the child has exited, or it is not ours, or time is up.
Probe ==
  /\ ctl = "probe"
  /\ ctl' = IF child = "zombie" THEN "wait" ELSE "kill"
  /\ UNCHANGED <<callVars, ownedVars, taskVars, helperVars, kernelVars>>

WaitExited ==
  /\ ctl = "wait"
  /\ child' = "reaped"
  /\ known' = FALSE
  /\ ctl' = "close"
  /\ UNCHANGED <<callVars, leaf, input, out_open, taskVars, helperVars, deadline>>

Close ==
  /\ ctl = "close"
  /\ out_open' = FALSE
  /\ RemoveLeaf
  /\ ctl' = "gone"
  /\ UNCHANGED <<callVars, known, input, taskVars, helperVars, kernelVars>>

----------------------------------------------------------------------------
(***************************************************************************)
(* terminateAndReap: start calls it after a failed attach, fail and deinit *)
(* for a child that is known.  The probe and the kill are two system       *)
(* calls, and another reaper may come between them.                        *)
(***************************************************************************)
Verified == [abort |-> "abort_owned", fail |-> "fail_owned", kill |-> "kill_owned"]

VerifyOwnership ==
  /\ ctl \in DOMAIN Verified
  /\ known /\ Owned
  /\ ctl' = Verified[ctl]
  /\ UNCHANGED <<callVars, ownedVars, taskVars, helperVars, kernelVars>>

OwnershipLost ==
  /\ ctl \in DOMAIN Verified
  /\ ~(known /\ Owned)
  /\ known' = FALSE
  /\ ctl' = [abort |-> "failed", fail |-> "cancel", kill |-> "close"][ctl]
  /\ IF ctl = "abort" THEN RemoveLeaf ELSE UNCHANGED leaf
  /\ UNCHANGED <<callVars, input, out_open, taskVars, helperVars, kernelVars>>

HardKillGroupAndChild ==
  /\ ctl \in {"abort_owned", "fail_owned", "kill_owned"}
  /\ child' = IF child = "running" THEN "exiting" ELSE child
  /\ ctl' = [abort_owned |-> "aborting", fail_owned |-> "reaping",
              kill_owned |-> "killing"][ctl]
  /\ UNCHANGED <<callVars, ownedVars, taskVars, helperVars, deadline>>

Reap ==
  /\ ctl \in {"reaping", "killing"}
  /\ child \in {"zombie", "reaped"}
  /\ child' = "reaped"
  /\ known' = FALSE
  /\ ctl' = IF ctl = "reaping" THEN "cancel" ELSE "close"
  /\ UNCHANGED <<callVars, leaf, input, out_open, taskVars, helperVars, deadline>>

----------------------------------------------------------------------------
(***************************************************************************)
(* writeSessionRequest, a concurrent task.                                 *)
(***************************************************************************)
WriteHeader ==
  /\ task = "header"
  /\ child = "running"
  /\ sent' = sent + 1
  /\ task' = "body"
  /\ UNCHANGED <<ctl, callVars, ownedVars, write_failure, large, helperVars,
                 kernelVars>>

\* A large body is written as the helper reads it.
WriteBody ==
  /\ task = "body"
  /\ child = "running"
  /\ large => stage = "body"
  /\ sent' = sent + 1
  /\ task' = "done"
  /\ UNCHANGED <<ctl, callVars, ownedVars, write_failure, large, helperVars,
                 kernelVars>>

WriteFails ==
  /\ task \in {"header", "body"}
  /\ write_failure' \in (IF TimeIsUp THEN {"Timeout"} ELSE {}) \cup
                        (IF StreamEnded THEN {"TransportFailure"} ELSE {})
  /\ task' = "failed"
  /\ UNCHANGED <<ctl, callVars, ownedVars, large, sent, helperVars, kernelVars>>

----------------------------------------------------------------------------
(***************************************************************************)
(* The helper's loop.                                                      *)
(***************************************************************************)
outsideHelper == <<ctl, callVars, ownedVars, taskVars, deadline>>

InputEnded == input = "closed" /\ received = sent

At(s) == child = "running" /\ stage = s

Answer(kind, leaves) ==
  stage' = "respond" /\ reply' = [kind |-> kind, leaves |-> leaves]

HelperStarts ==
  /\ At("start")
  /\ stage' = "header"
  /\ UNCHANGED <<outsideHelper, child, received, responses, limits_installed, reply>>

\* The end of the input ends a session that has served a request.
ReadHeader ==
  /\ At("header")
  /\ \/ /\ sent > received
        /\ received' = received + 1 /\ stage' = "limits" /\ UNCHANGED reply
     \/ /\ InputEnded
        /\ IF received > 0 THEN stage' = "exit" /\ UNCHANGED reply
                           ELSE Answer("worker_error", TRUE)
        /\ UNCHANGED received
  /\ UNCHANGED <<outsideHelper, child, responses, limits_installed>>

\* The process limits are installed once; the body is allocated each time.
InstallLimits ==
  /\ At("limits")
  /\ \/ stage' = "body" /\ limits_installed' = TRUE /\ UNCHANGED reply
     \/ ~limits_installed /\ Answer("worker_error", TRUE) /\ UNCHANGED limits_installed
     \/ /\ limits_installed' = TRUE
        /\ \E kind \in {"worker_error", "limit"} : Answer(kind, TRUE)
  /\ UNCHANGED <<outsideHelper, child, received, responses>>

ReadBody ==
  /\ At("body")
  /\ \/ sent > received /\ received' = received + 1 /\ stage' = "execute"
          /\ UNCHANGED reply
     \/ InputEnded /\ Answer("worker_error", TRUE) /\ UNCHANGED received
  /\ UNCHANGED <<outsideHelper, child, responses, limits_installed>>

Execute ==
  /\ At("execute")
  /\ \E kind \in Replies : Answer(kind, FALSE)
  /\ UNCHANGED <<outsideHelper, child, received, responses, limits_installed>>

\* sendResponse: on a broken pipe the helper exits.
WriteResponse ==
  /\ At("respond")
  /\ IF out_open
       THEN /\ responses' = Append(responses,
                 [request |-> (received + 1) \div 2, kind |-> reply.kind,
                  whole |-> FALSE])
            /\ stage' = "finish" /\ UNCHANGED child
       ELSE child' = "exiting" /\ UNCHANGED <<stage, responses>>
  /\ UNCHANGED <<outsideHelper, received, limits_installed, reply>>

FinishResponse ==
  /\ At("finish")
  /\ IF out_open
       THEN /\ responses' = [responses EXCEPT ![Len(responses)].whole = TRUE]
            /\ stage' = IF reply.leaves THEN "exit" ELSE "header"
            /\ UNCHANGED child
       ELSE child' = "exiting" /\ UNCHANGED <<stage, responses>>
  /\ UNCHANGED <<outsideHelper, received, limits_installed, reply>>

HelperExits ==
  /\ At("exit")
  /\ child' = "exiting"
  /\ UNCHANGED <<outsideHelper, helperVars>>

----------------------------------------------------------------------------
(***************************************************************************)
(* The environment.                                                        *)
(***************************************************************************)
\* A crash, a kill by the kernel, or the CPU ceiling of the session's lifetime.
Crash ==
  /\ child = "running"
  /\ child' = "exiting"
  /\ UNCHANGED <<outsideHelper, helperVars>>

BecomeZombie ==
  /\ child = "exiting"
  /\ child' = "zombie"
  /\ UNCHANGED <<outsideHelper, helperVars>>

CompetingReaper ==
  /\ ctl # "dead"
  /\ child = "zombie"
  /\ child' = "reaped"
  /\ UNCHANGED <<ctl, callVars, ownedVars, taskVars, helperVars, deadline>>

DeadlinePasses ==
  /\ Busy
  /\ deadline = "ahead"
  /\ deadline' = "passed"
  /\ UNCHANGED <<ctl, callVars, ownedVars, taskVars, helperVars, child>>

\* The controller is killed; the kernel closes its descriptors.
ControllerDies ==
  /\ ctl \notin {"gone", "dead"}
  /\ ctl' = "dead"
  /\ input' = "closed"
  /\ out_open' = FALSE
  /\ task' = "none"
  /\ UNCHANGED <<callVars, known, leaf, write_failure, large, sent, helperVars,
                 kernelVars>>

Start ==
  \/ CreateGroup \/ SpawnFails \/ SpawnWorker \/ Attach \/ Aborted \/ TakePipes

RunRite ==
  \/ ReadReply \/ ReadFails \/ AwaitWriter \/ CancelWriter
  \/ Probe \/ WaitExited \/ Close

TerminateAndReap ==
  \/ VerifyOwnership \/ OwnershipLost \/ HardKillGroupAndChild \/ Reap

Writer == WriteHeader \/ WriteBody \/ WriteFails

Helper ==
  \/ HelperStarts \/ ReadHeader \/ InstallLimits \/ ReadBody \/ Execute
  \/ WriteResponse \/ FinishResponse \/ HelperExits

Ended == ctl \in {"gone", "dead", "failed"} /\ UNCHANGED vars

Next ==
  \/ Start
  \/ Refuse
  \/ StartWriter
  \/ Deinit
  \/ RunRite
  \/ TerminateAndReap
  \/ Writer
  \/ Helper
  \/ Crash
  \/ BecomeZombie
  \/ CompetingReaper
  \/ DeadlinePasses
  \/ ControllerDies
  \/ Ended

\* A call that was made goes on; nobody has to make one.  A helper may hang, but
\* one whose input is closed is assumed to run, and guest code that does not end
\* uses up the CPU ceiling.
Spec ==
  /\ Init /\ [][Next]_vars
  /\ WF_vars(RunRite \/ TerminateAndReap)
  /\ WF_vars(Writer)
  /\ WF_vars(BecomeZombie)
  /\ WF_vars(DeadlinePasses)
  /\ WF_vars(ctl = "dead" /\ (Helper \/ (At("execute") /\ Crash)))

----------------------------------------------------------------------------
(***************************************************************************)
(* Properties.                                                             *)
(***************************************************************************)
\* Between exchanges an open session is in step: its response pipe is empty, no
\* task writes into its request pipe, and what the helper has not read of the
\* last request it will never read, because it is leaving (runRite, fail).
InStep ==
  ctl = "idle" /\ ~broken =>
    /\ responses = <<>>
    /\ task \notin {"header", "body"}
    /\ child = "running" /\ ~reply.leaves => received = sent

\* A report is the answer to the request of this exchange, of which the helper
\* read every part, however many exchanges the pipes have carried.
OwnAnswer ==
  ctl = "idle" /\ result = "report" =>
    got = [request |-> asked, kind |-> "report", whole |-> TRUE]

\* Whenever a call returns from a closed session, its helper is reaped; a transport
\* failure always closes the session, a protocol failure unless a whole answer to
\* this very request was read and decodeReport refuses it.  After deinit no child
\* and no response pipe is left, and the request pipe only of a closed session.
NothingLeft ==
  /\ ctl = "idle" /\ broken => child = "reaped"
  /\ ctl = "idle" /\ result = "TransportFailure" => broken
  /\ ctl = "idle" /\ result = "ProtocolMismatch" =>
       broken \/ got = [request |-> asked, kind |-> "mismatch", whole |-> TRUE]
  /\ ctl = "gone" =>
       child = "reaped" /\ ~out_open /\ (input = "closed" \/ broken)

\* The end of a session, or of its controller, is the end of the helper.
HelperEnds == (ctl \in {"probe", "dead"}) ~> (child # "running")

\* How a session looks to its caller: what it is doing ...
Status ==
  CASE ctl = "idle" -> IF broken THEN "closed" ELSE "open"
    [] Busy -> "exchange"
    [] ctl \in {"probe", "wait", "kill", "kill_owned", "killing", "close"} -> "ending"
    [] ctl \in {"gone", "dead"} -> "gone"
    [] ctl = "failed" -> "failed"
    [] OTHER -> "starting"

\* ... and what the last call returned.
LastAnswer ==
  IF result = "none" \/ Busy \/ ctl = "dead" THEN "none"
  ELSE CASE result \in {"report", "limit"} -> "report"
         [] result = "SessionClosed" -> "closed"
         [] result \in {"TransportFailure", "ProtocolMismatch"} -> "failure"
         [] OTHER -> "error"

Service == INSTANCE SessionService
             WITH status <- Status, served <- requests, answer <- LastAnswer

\* The session is what SessionService says: every exchange and deinit return, a
\* transport failure closes it, as does a protocol failure but for an answer that
\* does not decode, and a closed session only refuses.
IsSession == Service!ServiceSpec

\* "Any transport, protocol, or timeout failure poisons the session: the helper is
\* killed and reaped immediately" (Session, src/worker.zig; docs/workers.md).
FailureCloses ==
  ctl = "idle" /\ result \in {"TransportFailure", "ProtocolMismatch"} =>
    broken /\ child = "reaped"

=============================================================================
