---------------------------- MODULE PolicyServer ----------------------------
(***************************************************************************)
(* The policy server with the whole model on the node array                *)
(* (glue/level3/pi0_policy_rpc_server.py, PI0_ACTION_EXPERT=chip) and the   *)
(* runtime under it (paper/sw/pi0_chip_runtime.py).                        *)
(*                                                                         *)
(* Every request has a thread; State.lock admits one of them to the        *)
(* policy.  It writes the inputs to a file, tells the resident child       *)
(* process, and reads the actions from another file once the child has     *)
(* answered.  The child is kept in _SERVERS from the first request on.     *)
(*                                                                         *)
(* The child is the process that ChunkService describes and ChunkArray     *)
(* implements: its steps are steps of ChunkService here, with the files    *)
(* and pipes it uses.  A request stands for its observation: inputs and    *)
(* actions are known by the number of the request they belong to.          *)
(***************************************************************************)
EXTENDS Integers, Sequences

CONSTANTS
    MaxRequest  \* bound: requests that are sent

Request == 1 .. MaxRequest

ASSUME RequestAssumption == MaxRequest \in Nat \ {0}

VARIABLES
    thread,     \* thread[q]: where the handler of request q is
    rtc,        \* rtc[q]: the rtc_config that request q carries
    code,       \* code[q]: the HTTP status it was answered with, or 0
    body,       \* body[q]: the request whose actions went with a 200
    lock,       \* State.lock: the request that holds it, or 0
    applied,    \* State.rtc_applied
    config,     \* policy.config.rtc_config
    unbuilt,    \* history: the request that left its configuration but no processor, or 0
    inputs,     \* inputs.idx and inputs.bin: of which request; 0 while torn
    actions,    \* actions.bin: of which request; 0 while empty or torn
    cached,     \* a child is in _SERVERS
    cmd,        \* an infer line is in the child's stdin
    line,       \* the answers in its stdout that nobody has read
    job,        \* the request whose inputs the child took
    undumped,   \* history: requests whose actions.bin the child could not open
    board,      \* history: whether a chunk has failed on it, and it was repaired since
    svc, asked, reply, answer   \* the child, as ChunkService sees it

serverVars == <<thread, rtc, code, body, lock, applied, config, unbuilt, inputs, cached>>
childVars == <<actions, line, job, undumped, svc, asked, reply, answer>>
service == <<svc, asked, reply, answer>>
vars == <<serverVars, childVars, cmd, board>>

Service == INSTANCE ChunkService WITH MaxChunk <- MaxRequest

\* The operator has repaired the board; nothing goes wrong from then on.
healthy == board = "repaired"

Stage == {"unsent", "sent", "locked", "writing", "written", "waiting", "reading", "done"}

Types ==
    /\ thread \in [Request -> Stage]
    /\ rtc \in [Request -> {"none", "rtc"}] /\ code \in [Request -> {0, 200, 500}]
    /\ body \in [Request -> 0 .. MaxRequest]
    /\ lock \in 0 .. MaxRequest
    /\ applied \in {"none", "rtc"} /\ config \in {"none", "rtc"} /\ unbuilt \in 0 .. MaxRequest
    /\ inputs \in 0 .. MaxRequest /\ actions \in 0 .. MaxRequest /\ job \in 0 .. MaxRequest
    /\ cached \in BOOLEAN /\ cmd \in BOOLEAN
    /\ board \in {"working", "failed", "repaired"}
    /\ undumped \subseteq Request
    /\ svc \in {"down", "ready", "busy"} /\ asked \in 0 .. MaxRequest
    /\ reply \in {"none", "ok", "err"} /\ answer \in 0 .. MaxRequest

TypeOK == Types /\ line \in {<<>>, <<"ok">>, <<"err">>}

(***************************************************************************)
(* The threads.                                                            *)
(***************************************************************************)
\* A client sends a request; it may have given up on an earlier one that is
\* still served (request_timeout_s), so any number of them may be under way.
Send(q) ==
    /\ thread[q] = "unsent" /\ \A p \in 1 .. q - 1 : thread[p] # "unsent"
    /\ \E r \in {"none", "rtc"} : rtc' = [rtc EXCEPT ![q] = r]
    /\ thread' = [thread EXCEPT ![q] = "sent"]
    /\ UNCHANGED <<code, body, lock, applied, config, unbuilt, inputs, cached, cmd, childVars, board>>

\* Plausible bugs: the lock is not taken; apply_rtc keeps the first configuration.
AcquireNoLock(q) ==
    /\ thread[q] = "sent"
    /\ lock' = q
    /\ applied' = rtc[q] /\ config' = rtc[q] /\ unbuilt' = 0
    /\ thread' = [thread EXCEPT ![q] = "locked"]
    /\ UNCHANGED <<rtc, code, body, inputs, cached, cmd, childVars, board>>

AcquireRtcKept(q) ==
    /\ thread[q] = "sent" /\ lock = 0
    /\ lock' = q
    /\ applied' = rtc[q] /\ config' = IF rtc[q] = "none" THEN config ELSE rtc[q]
    /\ unbuilt' = IF rtc[q] = applied THEN unbuilt ELSE 0
    /\ thread' = [thread EXCEPT ![q] = "locked"]
    /\ UNCHANGED <<rtc, code, body, inputs, cached, cmd, childVars, board>>

\* The lock, and apply_rtc, which does nothing if the configuration is applied.
Acquire(q) ==
    /\ thread[q] = "sent" /\ lock = 0
    /\ lock' = q
    /\ applied' = rtc[q]
    /\ config' = IF rtc[q] = applied THEN config ELSE rtc[q]
    /\ unbuilt' = IF rtc[q] = applied THEN unbuilt ELSE 0
    /\ thread' = [thread EXCEPT ![q] = "locked"]
    /\ UNCHANGED <<rtc, code, body, inputs, cached, cmd, childVars, board>>

\* A plausible bug: an exception leaves the lock taken.
FailKeepsLock(q) ==
    /\ thread' = [thread EXCEPT ![q] = "done"]
    /\ code' = [code EXCEPT ![q] = 500]
    /\ UNCHANGED <<rtc, body, lock, applied, config, unbuilt>>

\* An exception: the with block releases the lock, the client gets a 500.
Fail(q) ==
    /\ thread' = [thread EXCEPT ![q] = "done"]
    /\ code' = [code EXCEPT ![q] = 500]
    /\ lock' = 0
    /\ UNCHANGED <<rtc, body, applied, config, unbuilt>>

\* A plausible bug: apply_rtc notes what it is about to apply.
RtcInvalidNoted(q) ==
    /\ thread[q] = "sent" /\ lock = 0
    /\ rtc[q] = "rtc" /\ rtc[q] # applied
    /\ thread' = [thread EXCEPT ![q] = "done"]
    /\ code' = [code EXCEPT ![q] = 500]
    /\ applied' = rtc[q]
    /\ UNCHANGED <<rtc, body, lock, config, unbuilt, inputs, cached, cmd, childVars, board>>

\* RTCConfig refuses its fields: an exception before anything is assigned.
RtcInvalid(q) ==
    /\ thread[q] = "sent" /\ lock = 0
    /\ rtc[q] = "rtc" /\ rtc[q] # applied
    /\ Fail(q)
    /\ UNCHANGED <<inputs, cached, cmd, childVars, board>>

\* init_rtc_processor raises: the policy has the new configuration, rtc_applied
\* says that it has the old one.
RtcHalfApplied(q) ==
    /\ thread[q] = "sent" /\ lock = 0 /\ ~ healthy
    /\ rtc[q] = "rtc" /\ rtc[q] # applied
    /\ config' = rtc[q] /\ unbuilt' = q
    /\ thread' = [thread EXCEPT ![q] = "done"]
    /\ code' = [code EXCEPT ![q] = 500]
    /\ UNCHANGED <<rtc, body, lock, applied, inputs, cached, cmd, childVars, board>>

\* RTC is refused on this backend, for what the policy has as well as for what
\* the request asks; a prompt of another length than the chunk's,
\* or a bad batch, ends in an exception as well.
Refuse(q) ==
    /\ thread[q] = "locked"
    /\ config = "rtc" \/ ~ healthy
    /\ Fail(q)
    /\ UNCHANGED <<inputs, cached, cmd, childVars, board>>

\* write_runs opens the two files, which empties them, ...
OpenInputs(q) ==
    /\ thread[q] = "locked" /\ config = "none"
    /\ inputs' = 0
    /\ thread' = [thread EXCEPT ![q] = "writing"]
    /\ UNCHANGED <<rtc, code, body, lock, applied, config, unbuilt, cached, cmd, childVars, board>>

\* ... and writes them.
WriteInputs(q) ==
    /\ thread[q] = "writing"
    /\ inputs' = q
    /\ thread' = [thread EXCEPT ![q] = "written"]
    /\ UNCHANGED <<rtc, code, body, lock, applied, config, unbuilt, cached, cmd, childVars, board>>

WriteInputsFails(q) ==
    /\ thread[q] = "writing" /\ ~ healthy
    /\ Fail(q)
    /\ UNCHANGED <<inputs, cached, cmd, childVars, board>>

\* The first request starts the child and awaits its READY.
StartChild(q) ==
    /\ thread[q] = "written" /\ ~ cached
    /\ cached' = TRUE
    /\ Service!StartUp
    /\ UNCHANGED <<thread, rtc, code, body, lock, applied, config, unbuilt, inputs, cmd,
                   actions, line, job, undumped, board>>

\* It ends before that: nothing is cached.
StartChildFails(q) ==
    /\ thread[q] = "written" /\ ~ cached /\ ~ healthy
    /\ Fail(q)
    /\ UNCHANGED <<inputs, cached, cmd, childVars, board>>

\* The infer line.
Tell(q) ==
    /\ thread[q] = "written" /\ cached /\ svc # "down"
    /\ cmd' = TRUE
    /\ thread' = [thread EXCEPT ![q] = "waiting"]
    /\ UNCHANGED <<rtc, code, body, lock, applied, config, unbuilt, inputs, cached, childVars, board>>

\* The child has ended: a broken pipe.
TellFails(q) ==
    /\ thread[q] = "written" /\ cached /\ svc = "down"
    /\ Fail(q)
    /\ UNCHANGED <<inputs, cached, cmd, childVars, board>>

AnswerIsOK(q) ==
    /\ thread[q] = "waiting" /\ line # <<>> /\ Head(line) = "ok"
    /\ line' = Tail(line)
    /\ thread' = [thread EXCEPT ![q] = "reading"]
    /\ UNCHANGED <<rtc, code, body, lock, applied, config, unbuilt, inputs, cached, cmd,
                   actions, job, undumped, service, board>>

\* A plausible bug: the thread gives up waiting, the answer comes later.
AnswerGivenUp(q) ==
    /\ thread[q] = "waiting"
    /\ line' = IF line = <<>> THEN line ELSE Tail(line)
    /\ Fail(q)
    /\ UNCHANGED <<inputs, cached, cmd, actions, job, undumped, service, board>>

\* An ERR line, or the end of the child's output.
AnswerIsErr(q) ==
    /\ thread[q] = "waiting"
    /\ \/ line # <<>> /\ Head(line) = "err" /\ line' = Tail(line)
       \/ line = <<>> /\ svc = "down" /\ UNCHANGED line
    /\ Fail(q)
    /\ UNCHANGED <<inputs, cached, cmd, actions, job, undumped, service, board>>

\* The actions, and the end of the with block; a short file cannot be reshaped.
ReadActions(q) ==
    /\ thread[q] = "reading"
    /\ IF actions = 0
       THEN Fail(q)
       ELSE /\ thread' = [thread EXCEPT ![q] = "done"]
            /\ code' = [code EXCEPT ![q] = 200] /\ body' = [body EXCEPT ![q] = actions]
            /\ lock' = 0
            /\ UNCHANGED <<rtc, applied, config, unbuilt>>
    /\ UNCHANGED <<inputs, cached, cmd, childVars, board>>

Handle(q) ==
    \/ Acquire(q) \/ RtcInvalid(q) \/ RtcHalfApplied(q) \/ Refuse(q)
    \/ OpenInputs(q) \/ WriteInputs(q) \/ WriteInputsFails(q)
    \/ StartChild(q) \/ StartChildFails(q) \/ Tell(q) \/ TellFails(q)
    \/ AnswerIsOK(q) \/ AnswerIsErr(q) \/ ReadActions(q)

(***************************************************************************)
(* The child.                                                              *)
(***************************************************************************)
\* It takes the command and reads the inputs.
ChildTake ==
    /\ cmd /\ cmd' = FALSE
    /\ Service!Ask
    /\ job' = inputs
    /\ UNCHANGED <<serverVars, actions, line, undumped, board>>

\* The run is over: actions.bin is opened, which empties it, ...
ChildOpens ==
    /\ svc = "busy"
    /\ actions' = 0
    /\ UNCHANGED <<serverVars, cmd, line, job, undumped, service, board>>

\* ... and filled.
ChildOK ==
    /\ actions = 0 /\ actions' = job
    /\ Service!AnswerOK
    /\ line' = Append(line, "ok")
    /\ UNCHANGED <<serverVars, cmd, job, undumped, board>>

\* The stream is not checked: the file keeps what it has, the answer is OK.
ChildOKUndumped ==
    /\ ~ healthy
    /\ Service!AnswerOK
    /\ line' = Append(line, "ok")
    /\ undumped' = undumped \cup {job}
    /\ UNCHANGED <<serverVars, cmd, actions, job, board>>

\* An error bit, or an exception.
ChildErr ==
    /\ ~ healthy /\ board' = "failed"
    /\ Service!AnswerErr /\ svc' = "ready"
    /\ line' = Append(line, "err")
    /\ UNCHANGED <<serverVars, cmd, actions, job, undumped>>

\* Nodes have not halted in time: it answers and ends.
ChildTimeout ==
    /\ ~ healthy /\ board' = "failed"
    /\ Service!AnswerErr /\ svc' = "down"
    /\ line' = Append(line, "err")
    /\ UNCHANGED <<serverVars, cmd, actions, job, undumped>>

\* A signal, or a crash.
ChildEnds ==
    /\ ~ healthy
    /\ Service!Stop \/ (Service!AnswerErr /\ svc' = "down")
    /\ UNCHANGED <<serverVars, cmd, actions, line, job, undumped, board>>

ChildStep == ChildTake \/ ChildOpens \/ ChildOK

(***************************************************************************)
(* The operator: after an error or a timeout the board is reset and the    *)
(* image loaded again.                                                     *)
(***************************************************************************)
Repair ==
    /\ board = "failed" /\ svc # "busy"
    /\ board' = "repaired"
    /\ UNCHANGED <<serverVars, cmd, childVars>>

Init ==
    /\ thread = [q \in Request |-> "unsent"] /\ rtc = [q \in Request |-> "none"]
    /\ code = [q \in Request |-> 0] /\ body = [q \in Request |-> 0]
    /\ lock = 0 /\ applied = "none" /\ config = "none" /\ unbuilt = 0
    /\ inputs = 0 /\ actions = 0 /\ cached = FALSE /\ cmd = FALSE
    /\ line = <<>> /\ job = 0 /\ undumped = {} /\ board = "working"
    /\ Service!Init

Next ==
    \/ \E q \in Request : Send(q) \/ Handle(q)
    \/ ChildTake \/ ChildOpens \/ ChildOK \/ ChildOKUndumped \/ ChildErr \/ ChildTimeout \/ ChildEnds
    \/ Repair

\* Threads and child run, and the child's wait for the nodes is bounded
\* (--timeout-s).  Nothing is assumed of clients, failures or the operator.
Fairness == (\A q \in Request : WF_vars(Handle(q))) /\ WF_vars(ChildStep)

Spec == Init /\ [][Next]_vars /\ Fairness

(***************************************************************************)
(* Properties.                                                             *)
(***************************************************************************)
\* Whatever files and child are shared, a client gets the actions of its own
\* observation; the exception is a dump that failed unnoticed.
OwnActions == \A q \in Request : code[q] = 200 => body[q] = q \/ q \in undumped

\* One policy object serves all clients.  Whoever has the lock meets its own
\* configuration, or one whose processor could not be built and whose client was
\* told so (500); with that one it gets no further than the policy's own check.
RtcOwn ==
    lock # 0 =>
        \/ config = rtc[lock]
        \/ /\ thread[lock] = "locked"
           /\ unbuilt # 0 /\ code[unbuilt] = 500 /\ config = rtc[unbuilt]

\* A thread that leaves, by whichever way, leaves no answer behind for the next
\* one to take for its own, and no run under way.
PipeAligned ==
    /\ \A q \in Request : thread[q] = "waiting" /\ svc = "busy" => job = q
    /\ (\A q \in Request : thread[q] # "waiting") =>
            line = <<>> /\ svc # "busy" /\ (cmd => svc = "down")

\* Every request that is sent is answered.
AllAnswered == \A q \in Request : thread[q] = "sent" ~> thread[q] = "done"

\* "A node reports an error or the chunk times out: look at the status, soft reset,
\* load the image again" (glue/level3/README.md): after that, requests are served,
\* unless the policy was left with another's configuration.
RepairedServes ==
    \A q \in Request :
        (healthy /\ config = applied /\ thread[q] = "sent" /\ rtc[q] = "none") ~> code[q] = 200
=============================================================================
