------------------------------- MODULE Worker -------------------------------
(***************************************************************************)
(* One one-shot worker exchange: worker.runRite (src/worker.zig), the      *)
(* concurrent task that writes its request, the helper process             *)
(* (tools/mruby_worker.zig), descendants that guest code may leave in the  *)
(* helper's process group, and what the kernel does for them.              *)
(*                                                                         *)
(* The controller, the task, the helper and the descendants run            *)
(* concurrently; two pipes connect them.  The request is a header and a    *)
(* body, the response one of a few kinds that the controller tells apart.  *)
(* The helper may crash, hang, use up its CPU ceiling or answer before it  *)
(* has read the request; the controller itself may be killed.  Another     *)
(* part of the controller's process may take the helper's exit status:     *)
(* the contract of runRite forbids it, and the code notices it at each     *)
(* probe, though not between a probe and the signal that follows.          *)
(*                                                                         *)
(* Errors that share their control flow share a name: CgroupUnavailable    *)
(* stands for every cgroup error, ProtocolMismatch also for an oversized   *)
(* response.  Left out: the audit record, the policy encoding, a complete  *)
(* report whose body does not decode, descendants that leave the process   *)
(* group, and waitid failing with anything but ECHILD.                     *)
(***************************************************************************)
EXTENDS Naturals

VARIABLES
  ctl,               \* where runRite is; "dead" when the controller was killed
  result,            \* what runRite returns
  response_failure,  \* why reading the response failed
  with_group,        \* the request asks for a cgroup
  leaf,              \* the leaf cgroup exists
  input,             \* the request pipe's write end: owned by "child" (its
                     \* stdin field), "open" in runRite or its task, "closed"
  out_open,          \* the response pipe's read end is open
  task,              \* writeRequest: what it writes next, or how it ended
  write_failure,
  large,             \* the body does not fit into the request pipe
  sent,              \* parts of the request written: header, then body
  received,          \* parts of the request the helper has read
  child,             \* "none", "running", "exiting" (descriptors closed, exit
                     \* status decided), "zombie" or "reaped"
  exit,              \* the exit status
  stage,             \* where the helper is
  reply,             \* the response the helper is about to write
  response,          \* what is in the response pipe
  stragglers,        \* descendants: "none", "silent", or "holding" the pipes
  deadline,          \* "ahead" or "passed"
  stolen,            \* another reaper took the helper's exit status
  signalled,         \* history: the states of the helper when it was signalled
  raced              \* history: the other reaper acted between probe and signal

ctlVars == <<ctl, result, response_failure, with_group, leaf>>
taskVars == <<task, write_failure, large, sent>>
helperVars == <<child, exit, stage, reply, response, received, stragglers>>
kernelVars == <<deadline, stolen, signalled, raced>>
vars == <<ctlVars, input, out_open, taskVars, helperVars, kernelVars>>

Replies == {"report", "bootstrap_limit", "worker_error", "malformed"}
Failures == {"none", "Timeout", "TransportFailure", "ProtocolMismatch",
             "OutOfMemory"}
Results == {"none", "report", "limit", "process_cpu", "process_wall",
            "TransportFailure", "ProtocolMismatch", "OutOfMemory",
            "WorkerFailed", "InvalidOptions", "CgroupUnavailable",
            "SpawnFailed", "ConcurrencyUnavailable",
            "ChildReapingUnavailable", "ProcessControlFailed"}

TypeOK ==
  /\ ctl \in {"idle", "group", "spawn", "attach", "start", "reply", "eof",
              "fail", "failing", "await", "kill", "killing", "wait", "cancel",
              "reap", "ending", "reaping", "close", "returned", "dead"}
  /\ result \in Results
  /\ response_failure \in Failures
  /\ with_group \in BOOLEAN /\ leaf \in BOOLEAN
  /\ input \in {"closed", "child", "open"}
  /\ out_open \in BOOLEAN
  /\ task \in {"none", "header", "body", "done", "failed"}
  /\ write_failure \in {"none", "Timeout", "TransportFailure"}
  /\ large \in BOOLEAN
  /\ sent \in 0 .. 2 /\ received \in 0 .. sent
  /\ child \in {"none", "running", "exiting", "zombie", "reaped"}
  /\ exit \in {"none", "ok", "failed", "cpu", "killed"}
  /\ stage \in {"start", "header", "limits", "body", "eof", "execute", "respond",
                "finish", "exit"}
  /\ reply \in Replies \cup {"none"}
  /\ response \in Replies \cup {"none", "partial"}
  /\ stragglers \in {"none", "silent", "holding"}
  /\ deadline \in {"ahead", "passed"}
  /\ stolen \in BOOLEAN
  /\ signalled \subseteq {"none", "running", "exiting", "zombie", "reaped"}
  /\ raced \in BOOLEAN

Init ==
  /\ ctl = "idle" /\ result = "none" /\ response_failure = "none"
  /\ with_group \in BOOLEAN /\ leaf = FALSE
  /\ input = "closed" /\ out_open = FALSE
  /\ task = "none" /\ write_failure = "none" /\ large \in BOOLEAN /\ sent = 0
  /\ child = "none" /\ exit = "none" /\ stage = "start" /\ received = 0
  /\ reply = "none" /\ response = "none" /\ stragglers = "none"
  /\ deadline = "ahead" /\ stolen = FALSE /\ signalled = {} /\ raced = FALSE

\* Faulty variant: no deadline is passed to the pipe operations.
NoDeadline == FALSE

TimeIsUp == deadline = "passed"

\* Faulty variant: the helper closes its protocol file when it has answered.
ClosedAfterReply ==
  (child # "running" \/ stage = "exit") /\ stragglers # "holding"

\* The response pipe has no writer left: the helper keeps its descriptor until
\* the kernel tears the process down.
StreamEnded == child # "running" /\ stragglers # "holding"

\* Faulty variant: the pid is signalled without looking.
Unverified == TRUE

\* probeChild: WNOWAIT leaves the child waitable, so that its pid stays ours.
Owned == child \in {"running", "exiting", "zombie"}

\* Faulty variant: only the direct child is killed.
KillChildOnly ==
  /\ signalled' = signalled \cup {child}
  /\ child' = IF child = "running" THEN "exiting" ELSE child
  /\ exit' = IF child = "running" THEN "killed" ELSE exit
  /\ UNCHANGED stragglers

\* hardKillGroupAndChild: two kills, of which the first decides.  A process that
\* is exiting keeps its status, and so does one that another reaper has taken
\* since the probe; its number is then signalled all the same.
HardKillGroupAndChild ==
  /\ signalled' = signalled \cup {child}
  /\ child' = IF child = "running" THEN "exiting" ELSE child
  /\ exit' = IF child = "running" THEN "killed" ELSE exit
  /\ stragglers' = "none"

Return(r) == ctl' = "returned" /\ result' = r

----------------------------------------------------------------------------
(***************************************************************************)
(* runRite up to the exchange.                                             *)
(***************************************************************************)
\* Invalid options, or signal dispositions that the call cannot work with.
Refuse ==
  /\ ctl = "idle"
  /\ Return("InvalidOptions")
  /\ UNCHANGED <<response_failure, with_group, leaf, input, out_open, taskVars,
                 helperVars, kernelVars>>

Begin ==
  /\ ctl = "idle"
  /\ ctl' = IF with_group THEN "group" ELSE "spawn"
  /\ UNCHANGED <<result, response_failure, with_group, leaf, input, out_open,
                 taskVars, helperVars, kernelVars>>

\* cgroup.create: the directory, then one write per requested limit.
CreateGroup ==
  /\ ctl = "group"
  /\ \/ leaf' = TRUE /\ ctl' = "spawn" /\ UNCHANGED result
     \/ leaf' \in BOOLEAN /\ Return("CgroupUnavailable")
  /\ UNCHANGED <<response_failure, with_group, input, out_open, taskVars,
                 helperVars, kernelVars>>

SpawnWorker ==
  /\ ctl = "spawn"
  /\ ctl' = IF with_group THEN "attach" ELSE "start"
  /\ child' = "running"
  /\ input' = "child"
  /\ out_open' = TRUE
  /\ UNCHANGED <<result, response_failure, with_group, leaf, taskVars, exit,
                 stage, reply, response, received, stragglers, kernelVars>>

SpawnFails ==
  /\ ctl = "spawn"
  /\ Return("SpawnFailed")
  /\ UNCHANGED <<response_failure, with_group, leaf, input, out_open, taskVars,
                 helperVars, kernelVars>>

Attach ==
  /\ ctl = "attach"
  /\ \/ ctl' = "start" /\ UNCHANGED result
     \/ ctl' = "reap" /\ result' = "CgroupUnavailable"
  /\ UNCHANGED <<response_failure, with_group, leaf, input, out_open, taskVars,
                 helperVars, kernelVars>>

\* runRite takes the pipes and starts the concurrent writer.
StartWriter ==
  /\ ctl = "start"
  /\ ctl' = "reply"
  /\ input' = "open"
  /\ task' = "header"
  /\ UNCHANGED <<result, response_failure, with_group, leaf, out_open,
                 write_failure, large, sent, helperVars, kernelVars>>

\* Faulty variant: nobody closes the input.
WriterUnavailableLeaks ==
  /\ ctl = "start"
  /\ ctl' = "reap"
  /\ result' = "ConcurrencyUnavailable"
  /\ input' = "open"
  /\ UNCHANGED <<response_failure, with_group, leaf, out_open, taskVars,
                 helperVars, kernelVars>>

WriterUnavailable ==
  /\ ctl = "start"
  /\ ctl' = "reap"
  /\ result' = "ConcurrencyUnavailable"
  /\ input' = "closed"
  /\ UNCHANGED <<response_failure, with_group, leaf, out_open, taskVars,
                 helperVars, kernelVars>>

----------------------------------------------------------------------------
(***************************************************************************)
(* The exchange.                                                           *)
(***************************************************************************)
\* readResponse: header and body.
ReadReply ==
  /\ ctl = "reply"
  /\ response \in Replies \ {"malformed"}
  /\ ctl' = "eof"
  /\ UNCHANGED <<result, response_failure, with_group, leaf, input, out_open,
                 taskVars, helperVars, kernelVars>>

\* readResponse: the end of the stream proves that nothing follows.
ReadEnd ==
  /\ ctl = "eof"
  /\ StreamEnded
  /\ ctl' = "await"
  /\ UNCHANGED <<result, response_failure, with_group, leaf, input, out_open,
                 taskVars, helperVars, kernelVars>>

ReadFails ==
  /\ ctl \in {"reply", "eof"}
  /\ response_failure' \in
       (IF TimeIsUp THEN {"Timeout"} ELSE {}) \cup
       (IF ctl = "reply" /\ response = "malformed" THEN {"ProtocolMismatch"}
        ELSE {}) \cup
       (IF ctl = "reply" /\ response = "report" THEN {"OutOfMemory"} ELSE {}) \cup
       (IF ctl = "reply" /\ StreamEnded /\ response \in {"none", "partial"}
          THEN {"TransportFailure"} ELSE {}) \cup
       (IF ctl = "eof" /\ stragglers = "holding" THEN {"ProtocolMismatch"} ELSE {})
  /\ ctl' = "fail"
  /\ UNCHANGED <<result, with_group, leaf, input, out_open, taskVars, helperVars,
                 kernelVars>>

\* terminateOwnedProcessGroup looks and then signals: two system calls, between
\* which a competing reaper may come.  It is called after a failed read, after a
\* complete response, and by terminateAndReap.
Verified == [fail |-> "failing", kill |-> "killing", reap |-> "ending"]

VerifyOwnership ==
  /\ ctl \in DOMAIN Verified
  /\ Owned
  /\ ctl' = Verified[ctl]
  /\ UNCHANGED <<result, response_failure, with_group, leaf, input, out_open,
                 taskVars, helperVars, kernelVars>>

OwnershipLost ==
  /\ ctl \in DOMAIN Verified
  /\ ~Owned
  /\ ctl' = [fail |-> "cancel", kill |-> "returned", reap |-> "close"][ctl]
  /\ result' = IF ctl = "reap" THEN result ELSE "ChildReapingUnavailable"
  /\ UNCHANGED <<response_failure, with_group, leaf, input, out_open, taskVars,
                 helperVars, kernelVars>>

KillAfterFailure ==
  /\ ctl = "failing"
  /\ HardKillGroupAndChild
  /\ ctl' = "await"
  /\ UNCHANGED <<result, response_failure, with_group, leaf, input, out_open, taskVars,
                 stage, reply, response, received, deadline, stolen, raced>>

\* write_future.await, then the output is closed.
AwaitWriter ==
  /\ ctl = "await"
  /\ task \in {"done", "failed"}
  /\ out_open' = FALSE
  /\ ctl' = IF response_failure = "none" THEN "kill" ELSE "wait"
  /\ UNCHANGED <<result, response_failure, with_group, leaf, input, taskVars,
                 helperVars, kernelVars>>

\* Descendants are killed also after a complete response.
KillGroup ==
  /\ ctl = "killing"
  /\ HardKillGroupAndChild
  /\ ctl' = "wait"
  /\ UNCHANGED <<result, response_failure, with_group, leaf, input, out_open, taskVars,
                 stage, reply, response, received, deadline, stolen, raced>>

\* A helper that answers early need not have read the body.
WriteFailureAllowed ==
  write_failure = "none" \/
    /\ write_failure = "TransportFailure"
    /\ response_failure = "none"
    /\ response \in {"worker_error", "bootstrap_limit"}

\* Faulty variant: a complete response is believed whatever the exit status.
ClassifyByResponse(status) ==
  CASE response_failure # "none" -> response_failure
    [] OTHER -> [report |-> "report", bootstrap_limit |-> "limit",
                 worker_error |-> "WorkerFailed"][response]

\* The classification of the result once the exit status is known.
Classify(status) ==
  CASE status = "cpu" -> "process_cpu"
    [] status # "cpu" /\ "Timeout" \in {response_failure, write_failure} ->
         "process_wall"
    [] status # "cpu" /\ write_failure # "Timeout" /\
       response_failure \notin {"none", "Timeout"} -> response_failure
    [] status # "cpu" /\ write_failure # "Timeout" /\
       response_failure = "none" ->
         IF ~WriteFailureAllowed THEN "TransportFailure"
         ELSE IF status # "ok" THEN "WorkerFailed"
         ELSE [report |-> "report", bootstrap_limit |-> "limit",
               worker_error |-> "WorkerFailed"][response]

\* child.wait, the removal of the leaf, which is not repeated when killed
\* descendants are still leaving it, and the result.
Wait ==
  /\ ctl = "wait"
  /\ child = "zombie"
  /\ child' = "reaped"
  /\ leaf' \in {FALSE, leaf}
  /\ Return(Classify(exit))
  /\ UNCHANGED <<response_failure, with_group, input, out_open, taskVars, exit,
                 stage, reply, response, received, stragglers, kernelVars>>

WaitFails ==
  /\ ctl = "wait"
  /\ child = "reaped"
  /\ Return("ProcessControlFailed")
  /\ UNCHANGED <<response_failure, with_group, leaf, input, out_open, taskVars,
                 helperVars, kernelVars>>

----------------------------------------------------------------------------
(***************************************************************************)
(* Deferred cleanup of the early returns.                                  *)
(***************************************************************************)
CancelWriter ==
  /\ ctl = "cancel"
  /\ task' = IF task \in {"header", "body"} THEN "failed" ELSE task
  /\ input' = "closed"
  /\ ctl' = "close"
  /\ UNCHANGED <<result, response_failure, with_group, leaf, out_open,
                 write_failure, large, sent, helperVars, kernelVars>>

\* terminateAndReap: first the signals ...
TerminateAndReap ==
  /\ ctl = "ending"
  /\ HardKillGroupAndChild
  /\ ctl' = "reaping"
  /\ UNCHANGED <<result, response_failure, with_group, leaf, input, out_open, taskVars,
                 stage, reply, response, received, deadline, stolen, raced>>

\* ... then child.wait, which closes the pipes the child structure still owns.
Reap ==
  /\ ctl = "reaping"
  /\ child \in {"zombie", "reaped"}
  /\ child' = "reaped"
  /\ input' = IF input = "child" THEN "closed" ELSE input
  /\ ctl' = "close"
  /\ UNCHANGED <<result, response_failure, with_group, leaf, out_open, taskVars,
                 exit, stage, reply, response, received, stragglers, kernelVars>>

\* After a failed attach the child structure owns the pipes, and only its wait
\* closes them.
CloseOutput ==
  /\ ctl = "close"
  /\ out_open' = (out_open /\ input = "child")
  /\ ctl' = "returned"
  /\ UNCHANGED <<result, response_failure, with_group, leaf, input, taskVars,
                 helperVars, kernelVars>>

----------------------------------------------------------------------------
(***************************************************************************)
(* writeRequest, a concurrent task.                                        *)
(***************************************************************************)
\* A pipe without a reader; descendants may hold the read end as well.
BrokenPipe == child # "running" /\ stragglers # "holding"

WriteHeader ==
  /\ task = "header"
  /\ ~BrokenPipe
  /\ sent' = 1
  /\ task' = "body"
  /\ UNCHANGED <<ctlVars, input, out_open, write_failure, large, helperVars,
                 kernelVars>>

\* A large body is written as the helper reads it.
WriteBody ==
  /\ task = "body"
  /\ ~BrokenPipe
  /\ large => stage = "body" /\ child = "running"
  /\ sent' = 2
  /\ task' = "done"
  /\ input' = "closed"
  /\ UNCHANGED <<ctlVars, out_open, write_failure, large, helperVars, kernelVars>>

WriteFails ==
  /\ task \in {"header", "body"}
  /\ write_failure' \in (IF TimeIsUp THEN {"Timeout"} ELSE {}) \cup
                        (IF BrokenPipe THEN {"TransportFailure"} ELSE {})
  /\ task' = "failed"
  /\ input' = "closed"
  /\ UNCHANGED <<ctlVars, out_open, large, sent, helperVars, kernelVars>>

----------------------------------------------------------------------------
(***************************************************************************)
(* The helper process.                                                     *)
(***************************************************************************)
helperUnchanged == <<ctlVars, input, out_open, taskVars, kernelVars>>

\* Faulty variant: a request that ends early is waited for.
InputNeverEnds == FALSE

InputEnded == input = "closed"

At(s) == child = "running" /\ stage = s

Answer(kind) == stage' = "respond" /\ reply' = kind

\* isolateProtocolOutput; when it fails there is no answer.
HelperStarts ==
  /\ At("start")
  /\ \/ stage' = "header" /\ UNCHANGED <<child, exit>>
     \/ child' = "exiting" /\ exit' = "failed" /\ UNCHANGED stage
  /\ UNCHANGED <<helperUnchanged, reply, response, received, stragglers>>

ReadHeader ==
  /\ At("header")
  /\ \/ sent > 0 /\ received' = 1 /\ stage' = "limits" /\ UNCHANGED reply
     \/ sent = 0 /\ InputEnded /\ Answer("worker_error") /\ UNCHANGED received
  /\ UNCHANGED <<helperUnchanged, child, exit, response, stragglers>>

\* applyProcessLimits and the allocation of the body; both may fail.
InstallLimits ==
  /\ At("limits")
  /\ \/ stage' = "body" /\ UNCHANGED reply
     \/ \E kind \in {"worker_error", "bootstrap_limit"} : Answer(kind)
  /\ UNCHANGED <<helperUnchanged, child, exit, response, received, stragglers>>

ReadBody ==
  /\ At("body")
  /\ \/ sent = 2 /\ received' = 2 /\ stage' = "eof" /\ UNCHANGED reply
     \/ sent < 2 /\ InputEnded /\ Answer("worker_error") /\ UNCHANGED received
  /\ UNCHANGED <<helperUnchanged, child, exit, response, stragglers>>

\* The end of the input is the signal to execute.
ReadInputEnd ==
  /\ At("eof")
  /\ InputEnded
  /\ stage' = "execute"
  /\ UNCHANGED <<helperUnchanged, child, exit, reply, response, received,
                 stragglers>>

Execute ==
  /\ At("execute")
  /\ \E kind \in Replies : Answer(kind)
  /\ UNCHANGED <<helperUnchanged, child, exit, response, received, stragglers>>

\* Guest code with process authority leaves a descendant behind.
Fork ==
  /\ At("execute")
  /\ stragglers = "none"
  /\ stragglers' \in {"silent", "holding"}
  /\ UNCHANGED <<helperUnchanged, child, exit, stage, reply, response, received>>

\* sendResponse: writing blocks on a full pipe, and fails on a broken one.
WriteResponse ==
  /\ At("respond")
  /\ IF out_open
       THEN stage' = "finish" /\ response' = "partial" /\ UNCHANGED <<child, exit>>
       ELSE /\ child' = "exiting" /\ exit' = "failed"
            /\ UNCHANGED <<stage, response>>
  /\ UNCHANGED <<helperUnchanged, reply, received, stragglers>>

FinishResponse ==
  /\ At("finish")
  /\ IF out_open
       THEN /\ ctl = "reply"
            /\ stage' = "exit" /\ response' = reply /\ UNCHANGED <<child, exit>>
       ELSE /\ child' = "exiting" /\ exit' = "failed"
            /\ UNCHANGED <<stage, response>>
  /\ UNCHANGED <<helperUnchanged, reply, received, stragglers>>

HelperExits ==
  /\ At("exit")
  /\ child' = "exiting"
  /\ exit' = "ok"
  /\ UNCHANGED <<helperUnchanged, stage, reply, response, received, stragglers>>

\* A crash, a kill by the kernel, or the soft CPU ceiling (SIGXCPU).
Crash(status) ==
  /\ child = "running"
  /\ child' = "exiting"
  /\ exit' = status
  /\ UNCHANGED <<helperUnchanged, stage, reply, response, received, stragglers>>

StragglerExits ==
  /\ stragglers # "none"
  /\ stragglers' = "none"
  /\ UNCHANGED <<helperUnchanged, child, exit, stage, reply, response, received>>

----------------------------------------------------------------------------
(***************************************************************************)
(* The environment.                                                        *)
(***************************************************************************)
BecomeZombie ==
  /\ child = "exiting"
  /\ child' = "zombie"
  /\ UNCHANGED <<helperUnchanged, exit, stage, reply, response, received,
                 stragglers>>

CompetingReaper ==
  /\ ctl # "dead"
  /\ child = "zombie"
  /\ child' = "reaped"
  /\ stolen' = TRUE
  /\ raced' = (raced \/ ctl \in {"failing", "killing", "ending"})
  /\ UNCHANGED <<ctlVars, input, out_open, taskVars, exit, stage, reply,
                 response, received, stragglers, deadline, signalled>>

DeadlinePasses ==
  /\ ctl \notin {"idle", "returned", "dead"}
  /\ deadline = "ahead"
  /\ deadline' = "passed"
  /\ UNCHANGED <<ctlVars, input, out_open, taskVars, helperVars, stolen,
                 signalled, raced>>

\* The controller is killed; the kernel closes its descriptors.
ControllerDies ==
  /\ ctl \notin {"idle", "returned", "dead"}
  /\ ctl' = "dead"
  /\ input' = "closed"
  /\ out_open' = FALSE
  /\ task' = "none"
  /\ UNCHANGED <<result, response_failure, with_group, leaf, write_failure, large,
                 sent, helperVars, kernelVars>>

Controller ==
  \/ Refuse \/ Begin \/ CreateGroup \/ SpawnWorker \/ SpawnFails \/ Attach
  \/ StartWriter \/ WriterUnavailable
  \/ ReadReply \/ ReadEnd \/ ReadFails
  \/ VerifyOwnership \/ OwnershipLost \/ KillAfterFailure \/ AwaitWriter
  \/ KillGroup \/ Wait \/ WaitFails
  \/ CancelWriter \/ TerminateAndReap \/ Reap \/ CloseOutput

Writer == WriteHeader \/ WriteBody \/ WriteFails

Helper ==
  \/ HelperStarts \/ ReadHeader \/ InstallLimits \/ ReadBody \/ ReadInputEnd
  \/ Execute \/ WriteResponse \/ FinishResponse \/ HelperExits

Ended == ctl \in {"returned", "dead"} /\ UNCHANGED vars

Next ==
  \/ Controller
  \/ Writer
  \/ Helper
  \/ Fork
  \/ \E status \in {"failed", "cpu"} : Crash(status)
  \/ StragglerExits
  \/ BecomeZombie
  \/ CompetingReaper
  \/ DeadlinePasses
  \/ ControllerDies
  \/ Ended

\* Nothing is assumed of the helper while its controller lives: it may hang for
\* ever.  An orphan is assumed to run: what is not waiting for input goes on, and
\* guest code that does not end uses up its CPU ceiling.
Spec ==
  /\ Init /\ [][Next]_vars
  /\ WF_vars(Controller)
  /\ WF_vars(Writer)
  /\ WF_vars(BecomeZombie)
  /\ WF_vars(DeadlinePasses)
  /\ WF_vars(ctl = "dead" /\ (Helper \/ (At("execute") /\ Crash("cpu"))))

----------------------------------------------------------------------------
(***************************************************************************)
(* Properties.                                                             *)
(***************************************************************************)
\* "Every successful spawn is killed if necessary and reaped before return", and
\* no descendant is left in its process group (runRite).
ReapedOnReturn ==
  ctl = "returned" /\ ~stolen /\ child # "none" =>
    child = "reaped" /\ stragglers = "none"

\* Every return closes both pipes and leaves no task behind that uses them.
DescriptorsClosed ==
  ctl = "returned" /\ ~stolen =>
    input = "closed" /\ ~out_open /\ task \notin {"header", "body"}

\* A number is signalled after its process was reaped, when it may name another
\* process, only if the other reaper came between a probe and its signal: runRite
\* signals nothing after its own wait, and a reaper that came before the probe is
\* always noticed.  What is left is the window that the comment on
\* terminateOwnedProcessGroup makes the caller exclude.
NoStraySignal == ~raced => signalled \subseteq {"running", "exiting", "zombie"}

\* The end of the protocol stream proves that the helper has exited, so the kill
\* that clears its process group never changes how it ended (helper's run).
KillSparesFinished ==
  ctl \in {"await", "kill", "killing", "wait"} /\ response_failure = "none" =>
    exit # "killed"

\* A report comes from a helper that read the whole request, answered completely
\* and exited cleanly.
ReportIsWhole ==
  result = "report" => received = 2 /\ response = "report" /\ exit = "ok"

\* The call returns, however the helper and its descendants behave: the deadline
\* bounds both pipes and the kill bounds the rest.
RunReturns == (ctl = "spawn") ~> (ctl \in {"returned", "dead"})

\* A helper whose controller was killed does not live on.
OrphanEnds == (ctl = "dead" /\ child = "running") ~> (child # "running")

\* "the leaf is removed before returning" (cgroup.zig), "the leaf is removed after
\* kill-then-reap" (docs/workers.md).
LeafRemoved == ctl = "returned" => ~leaf

=============================================================================
