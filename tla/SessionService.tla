--------------------------- MODULE SessionService ---------------------------
(***************************************************************************)
(* What a persistent worker session promises its caller (worker.Session in *)
(* src/worker.zig, docs/workers.md): it serves one exchange at a time,     *)
(* every exchange ends, a transport or protocol failure closes the session *)
(* for good, and a closed session refuses everything but deinit.  The one  *)
(* exception is an action of its own, Undecodable, which the documentation *)
(* does not know.                                                          *)
(***************************************************************************)
EXTENDS Naturals

VARIABLES
  status,  \* "starting", "failed", "open", "exchange", "closed", "ending", "gone"
  served,  \* exchanges that were completed
  answer   \* what the last call returned: "none", "report", "error" (of the
           \* request or its execution), "failure" (of transport or protocol)
           \* or "closed"

serviceVars == <<status, served, answer>>

ServiceInit == status = "starting" /\ served = 0 /\ answer = "none"

Started ==
  /\ status = "starting"
  /\ status' \in {"open", "failed"}
  /\ UNCHANGED <<served, answer>>

Asked ==
  /\ status = "open"
  /\ status' = "exchange"
  /\ answer' = "none"
  /\ UNCHANGED served

\* An invalid request, or no task to write it.
Refused ==
  /\ status = "open"
  /\ answer' = "error"
  /\ UNCHANGED <<status, served>>

Completed ==
  /\ status = "exchange"
  /\ status' = "open"
  /\ served' = served + 1
  /\ answer' \in {"report", "error"}

\* Transport, protocol or time, or no memory for the answer that is in the pipe.
Failed ==
  /\ status = "exchange"
  /\ status' = "closed"
  /\ answer' \in {"failure", "error"}
  /\ UNCHANGED served

\* The answer was read as a whole and is refused by decodeReport: a protocol
\* failure after which the session goes on, where docs/workers.md says that "any
\* transport, protocol, or timeout failure" ends it.
Undecodable ==
  /\ status = "exchange"
  /\ status' = "open"
  /\ served' = served + 1
  /\ answer' = "failure"

RefusedForGood ==
  /\ status = "closed"
  /\ answer' = "closed"
  /\ UNCHANGED <<status, served>>

DeinitCalled ==
  /\ status \in {"open", "closed"}
  /\ status' = "ending"
  /\ UNCHANGED <<served, answer>>

DeinitReturned ==
  /\ status = "ending"
  /\ status' = "gone"
  /\ UNCHANGED <<served, answer>>

\* The controller is killed.
Vanished ==
  /\ status # "gone"
  /\ status' = "gone"
  /\ answer' = "none"
  /\ UNCHANGED served

ServiceNext ==
  \/ Started \/ Asked \/ Refused \/ Completed \/ Failed \/ Undecodable
  \/ RefusedForGood \/ DeinitCalled \/ DeinitReturned \/ Vanished

ServiceSpec ==
  /\ ServiceInit
  /\ [][ServiceNext]_serviceVars
  /\ WF_serviceVars(Completed \/ Failed \/ Undecodable)
  /\ WF_serviceVars(DeinitReturned)
=============================================================================
