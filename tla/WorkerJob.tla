------------------------------ MODULE WorkerJob ------------------------------
(***************************************************************************)
(* An isolated reader (workers/harness.py, workers/protocol.py): a process  *)
(* that gets its request and leaves its response in a fresh directory.  The *)
(* parent trusts nothing but the pair of exit status and response.  The     *)
(* process may be killed before any of its steps: by the deadline or the    *)
(* limits of the broker, or by the system.                                  *)
(***************************************************************************)
EXTENDS Tables

VARIABLES
    job,     \* stage, exit status and response of the latest process
    roots    \* job directories: the requests whose directory exists

jobVars == <<job, roots>>

NoJob == [stage |-> "none", exit |-> "running", answer |-> "absent", response |-> "absent"]
Exited(status) == [job EXCEPT !.stage = "exited", !.exit = status]

JobInit == job = NoJob /\ roots = {}

(* The directory is new and the request is written whole, atomically *)
StartJob(c) ==
    /\ c \notin roots
    /\ roots' = roots \cup {c}
    /\ job' = [NoJob EXCEPT !.stage = "started"]

(* A request that the worker will not read (too large), or one for another  *)
(* implementation of the worker: it exits without a response                *)
RejectJob ==
    /\ job.stage = "started"
    /\ job' = Exited("usage")
    /\ UNCHANGED roots

(* The handler ends with a result, a failure it reports ("limit",           *)
(* "unavailable" or "malformed"), or an exception that nobody caught        *)
HandleJob(answer) ==
    /\ job.stage = "started"
    /\ job' = IF answer = "uncaught" THEN Exited("failure")
              ELSE [job EXCEPT !.stage = "handled", !.answer = answer]
    /\ UNCHANGED roots

(* The response appears whole: a temporary file, forced, then renamed *)
WriteResponse ==
    /\ job.stage = "handled"
    /\ job' = [job EXCEPT !.stage = "written", !.response = job.answer]
    /\ UNCHANGED roots

ExitJob ==
    /\ job.stage = "written"
    /\ job' = Exited(IF job.response = "success" THEN "success" ELSE "failure")
    /\ UNCHANGED roots

(* A signal, or the broker's own stop, which the parent is told of *)
KillJob(status) ==
    /\ job.stage \in {"started", "handled", "written"}
    /\ status \in {"signal", "stopped"}
    /\ job' = Exited(status)
    /\ UNCHANGED roots

(* _load_typed_response, and the code that the runtime makes of its errors  *)
Loaded ==
    IF job.exit = "stopped" THEN "EXECUTION_FAILURE"
    ELSE IF \/ job.exit \notin {"success", "failure"}
            \/ (job.response = "success") # (job.exit = "success")
            \/ job.response \in {"absent", "malformed"}
    THEN "DECODE_FAILURE"
    ELSE CASE job.response = "unavailable" -> "UNAVAILABLE_CAPABILITY"
           [] job.response = "limit" -> "LIMIT_EXCEEDED"
           [] OTHER -> "ok"

(* The end of the session removes the directory, however it ends *)
EndJob(c) ==
    /\ job.stage = "exited"
    /\ roots' = roots \ {c}
    /\ job' = NoJob
=============================================================================
