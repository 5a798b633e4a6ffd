------------------------- MODULE PolicyServerProofs -------------------------
(***************************************************************************)
(* One request at a time, and what it meets in the pipe and in the files   *)
(* is its own, for any number of requests and every way to fail.           *)
(***************************************************************************)
EXTENDS PolicyServer, TLAPS

(***************************************************************************)
(* The inductive invariant.                                                *)
(***************************************************************************)
Held == {"locked", "writing", "written", "waiting", "reading"}

\* The request that holds the lock is the only one in the policy.
LockOK == \A q \in Request : thread[q] \in Held <=> lock = q

\* What rtc_applied says is so, unless a processor could not be built: then the
\* policy has that request's RTC, rtc_applied says that there is none, and
\* nobody gets past the policy's own check.
RtcOK ==
    /\ lock # 0 => rtc[lock] = applied
    /\ lock # 0 /\ thread[lock] # "locked" => config = "none"
    /\ unbuilt = 0 => config = applied
    /\ unbuilt # 0 =>
          /\ thread[unbuilt] = "done" /\ code[unbuilt] = 500
          /\ rtc[unbuilt] = "rtc" /\ config = "rtc" /\ applied = "none"

\* Between a request's inputs and its answer the input files are its own.
InputsOK == \A q \in Request : thread[q] \in {"written", "waiting"} => inputs = q

\* Where the exchange of a waiting request stands: told, taken, answered, or given
\* up by a child that ended.
Told == cmd /\ line = <<>> /\ svc # "busy"
Taken(q) == ~ cmd /\ line = <<>> /\ svc = "busy" /\ job = q
Answered(q) ==
    /\ ~ cmd /\ svc # "busy"
    /\ \/ line = <<"err">>
       \/ line = <<"ok">> /\ (actions = q \/ q \in undumped)
Ended == ~ cmd /\ line = <<>> /\ svc = "down"

PipeOK ==
    /\ \A q \in Request : thread[q] = "waiting" => Told \/ Taken(q) \/ Answered(q) \/ Ended
    /\ (\A q \in Request : thread[q] # "waiting") =>
            line = <<>> /\ svc # "busy" /\ (cmd => svc = "down")
    /\ ~ cached => svc = "down" /\ ~ cmd

\* What a request reads, and what it has answered with.
FilesOK ==
    \A q \in Request :
        /\ thread[q] = "reading" => actions = q \/ q \in undumped
        /\ code[q] = 200 => body[q] = q \/ q \in undumped

IInv == Types /\ LockOK /\ RtcOK /\ InputsOK /\ PipeOK /\ FilesOK

(***************************************************************************)
(* Lemmas.                                                                 *)
(***************************************************************************)
\* A pipe with one answer in it.
LEMMA OneLine ==
    ASSUME NEW x
    PROVE  Append(<<>>, x) = <<x>> /\ Head(<<x>>) = x /\ Tail(<<x>>) = <<>> /\ <<x>> # <<>>
    OBVIOUS

\* A child at work was asked by the one request that waits.
LEMMA Asker ==
    ASSUME IInv, svc = "busy"
    PROVE  \E q \in Request :
               /\ thread[q] = "waiting" /\ Taken(q)
               /\ \A p \in Request : thread[p] = "waiting" => p = q
<1>1. PICK q \in Request : thread[q] = "waiting"
    BY DEF IInv, PipeOK
<1>2. Taken(q)
    BY <1>1 DEF IInv, PipeOK, Told, Answered, Ended
<1>3. \A p \in Request : thread[p] = "waiting" => p = q
    BY <1>1 DEF IInv, LockOK, Held
<1> QED
    BY <1>1, <1>2, <1>3

(***************************************************************************)
(* Every step keeps the invariant.                                         *)
(***************************************************************************)
LEMMA StepKeeps == IInv /\ [Next]_vars => IInv'
<1> SUFFICES ASSUME IInv, [Next]_vars PROVE IInv'
    OBVIOUS
<1> USE RequestAssumption DEF Request, IInv, Types, serverVars, childVars, service
<1>1. ASSUME NEW q \in Request, Send(q) PROVE IInv'
  <2>1. Types'
    BY <1>1 DEF Stage, Send
  <2>2. LockOK'
    BY <1>1 DEF Held, LockOK, Send
  <2>3. InputsOK'
    BY <1>1 DEF InputsOK, Send
  <2>4. PipeOK'
    BY <1>1 DEF PipeOK, Told, Taken, Answered, Ended, Send
  <2>5. FilesOK'
    BY <1>1 DEF FilesOK, Send
  <2>6. RtcOK'
    BY <1>1 DEF Held, LockOK, RtcOK, Send
  <2> QED
    BY <2>1, <2>2, <2>3, <2>4, <2>5, <2>6
<1>2. ASSUME NEW q \in Request, Acquire(q) PROVE IInv'
  <2>1. Types'
    BY <1>2 DEF Stage, Acquire
  <2>2. LockOK'
    BY <1>2 DEF Held, LockOK, Acquire
  <2>3. InputsOK'
    BY <1>2 DEF InputsOK, Acquire
  <2>4. PipeOK'
    BY <1>2 DEF PipeOK, Told, Taken, Answered, Ended, Acquire
  <2>5. FilesOK'
    BY <1>2 DEF FilesOK, Acquire
  <2>6. RtcOK'
    BY <1>2 DEF Held, LockOK, RtcOK, Acquire
  <2> QED
    BY <2>1, <2>2, <2>3, <2>4, <2>5, <2>6
<1>3. ASSUME NEW q \in Request, RtcInvalid(q) PROVE IInv'
  <2>1. Types'
    BY <1>3 DEF Stage, RtcInvalid, Fail
  <2>2. LockOK'
    BY <1>3 DEF Held, LockOK, RtcInvalid, Fail
  <2>3. InputsOK'
    BY <1>3 DEF InputsOK, RtcInvalid, Fail
  <2>4. PipeOK'
    BY <1>3 DEF PipeOK, Told, Taken, Answered, Ended, RtcInvalid, Fail
  <2>5. FilesOK'
    BY <1>3 DEF FilesOK, RtcInvalid, Fail
  <2>6. RtcOK'
    BY <1>3 DEF Held, LockOK, RtcOK, RtcInvalid, Fail
  <2> QED
    BY <2>1, <2>2, <2>3, <2>4, <2>5, <2>6
<1>4. ASSUME NEW q \in Request, RtcHalfApplied(q) PROVE IInv'
  <2>1. Types'
    BY <1>4 DEF Stage, RtcHalfApplied
  <2>2. LockOK'
    BY <1>4 DEF Held, LockOK, RtcHalfApplied
  <2>3. InputsOK'
    BY <1>4 DEF InputsOK, RtcHalfApplied
  <2>4. PipeOK'
    BY <1>4 DEF PipeOK, Told, Taken, Answered, Ended, RtcHalfApplied
  <2>5. FilesOK'
    BY <1>4 DEF FilesOK, RtcHalfApplied
  <2>6. RtcOK'
    BY <1>4 DEF Held, LockOK, RtcOK, RtcHalfApplied
  <2> QED
    BY <2>1, <2>2, <2>3, <2>4, <2>5, <2>6
<1>5. ASSUME NEW q \in Request, Refuse(q) PROVE IInv'
  <2>1. Types'
    BY <1>5 DEF Stage, Refuse, Fail
  <2>2. LockOK'
    BY <1>5 DEF Held, LockOK, Refuse, Fail
  <2>3. InputsOK'
    BY <1>5 DEF InputsOK, Refuse, Fail
  <2>4. PipeOK'
    BY <1>5 DEF PipeOK, Told, Taken, Answered, Ended, Refuse, Fail
  <2>5. FilesOK'
    BY <1>5 DEF FilesOK, Refuse, Fail
  <2>6. RtcOK'
    BY <1>5 DEF Held, LockOK, RtcOK, Refuse, Fail
  <2> QED
    BY <2>1, <2>2, <2>3, <2>4, <2>5, <2>6
<1>6. ASSUME NEW q \in Request, OpenInputs(q) PROVE IInv'
  <2>1. Types'
    BY <1>6 DEF Stage, OpenInputs
  <2>2. LockOK'
    BY <1>6 DEF Held, LockOK, OpenInputs
  <2>3. InputsOK'
    BY <1>6 DEF Held, LockOK, InputsOK, OpenInputs
  <2>4. PipeOK'
    BY <1>6 DEF PipeOK, Told, Taken, Answered, Ended, OpenInputs
  <2>5. FilesOK'
    BY <1>6 DEF FilesOK, OpenInputs
  <2>6. RtcOK'
    BY <1>6 DEF Held, LockOK, RtcOK, OpenInputs
  <2> QED
    BY <2>1, <2>2, <2>3, <2>4, <2>5, <2>6
<1>7. ASSUME NEW q \in Request, WriteInputs(q) PROVE IInv'
  <2>1. Types'
    BY <1>7 DEF Stage, WriteInputs
  <2>2. LockOK'
    BY <1>7 DEF Held, LockOK, WriteInputs
  <2>3. InputsOK'
    BY <1>7 DEF Held, LockOK, InputsOK, WriteInputs
  <2>4. PipeOK'
    BY <1>7 DEF PipeOK, Told, Taken, Answered, Ended, WriteInputs
  <2>5. FilesOK'
    BY <1>7 DEF FilesOK, WriteInputs
  <2>6. RtcOK'
    BY <1>7 DEF Held, LockOK, RtcOK, WriteInputs
  <2> QED
    BY <2>1, <2>2, <2>3, <2>4, <2>5, <2>6
<1>8. ASSUME NEW q \in Request, WriteInputsFails(q) PROVE IInv'
  <2>1. Types'
    BY <1>8 DEF Stage, WriteInputsFails, Fail
  <2>2. LockOK'
    BY <1>8 DEF Held, LockOK, WriteInputsFails, Fail
  <2>3. InputsOK'
    BY <1>8 DEF InputsOK, WriteInputsFails, Fail
  <2>4. PipeOK'
    BY <1>8 DEF PipeOK, Told, Taken, Answered, Ended, WriteInputsFails, Fail
  <2>5. FilesOK'
    BY <1>8 DEF FilesOK, WriteInputsFails, Fail
  <2>6. RtcOK'
    BY <1>8 DEF Held, LockOK, RtcOK, WriteInputsFails, Fail
  <2> QED
    BY <2>1, <2>2, <2>3, <2>4, <2>5, <2>6
<1>9. ASSUME NEW q \in Request, StartChild(q) PROVE IInv'
  <2>1. Types'
    BY <1>9 DEF StartChild, Service!StartUp
  <2>2. LockOK'
    BY <1>9 DEF LockOK, StartChild, Service!StartUp
  <2>3. InputsOK'
    BY <1>9 DEF InputsOK, StartChild, Service!StartUp
  <2>4. PipeOK'
    BY <1>9 DEF InputsOK, PipeOK, StartChild, Service!StartUp
  <2>5. FilesOK'
    BY <1>9 DEF FilesOK, StartChild, Service!StartUp
  <2>6. RtcOK'
    BY <1>9 DEF Held, LockOK, RtcOK, StartChild, Service!StartUp
  <2> QED
    BY <2>1, <2>2, <2>3, <2>4, <2>5, <2>6
<1>10. ASSUME NEW q \in Request, StartChildFails(q) PROVE IInv'
  <2>1. Types'
    BY <1>10 DEF Stage, StartChildFails, Fail
  <2>2. LockOK'
    BY <1>10 DEF Held, LockOK, StartChildFails, Fail
  <2>3. InputsOK'
    BY <1>10 DEF InputsOK, StartChildFails, Fail
  <2>4. PipeOK'
    BY <1>10 DEF PipeOK, Told, Taken, Answered, Ended, StartChildFails, Fail
  <2>5. FilesOK'
    BY <1>10 DEF FilesOK, StartChildFails, Fail
  <2>6. RtcOK'
    BY <1>10 DEF Held, LockOK, RtcOK, StartChildFails, Fail
  <2> QED
    BY <2>1, <2>2, <2>3, <2>4, <2>5, <2>6
<1>11. ASSUME NEW q \in Request, Tell(q) PROVE IInv'
  <2>1. Types'
    BY <1>11 DEF Stage, Tell
  <2>2. LockOK'
    BY <1>11 DEF Held, LockOK, Tell
  <2>3. InputsOK'
    BY <1>11 DEF InputsOK, Tell
  <2>4. PipeOK'
    BY <1>11 DEF InputsOK, PipeOK, Told, Tell
  <2>5. FilesOK'
    BY <1>11 DEF FilesOK, Tell
  <2>6. RtcOK'
    BY <1>11 DEF Held, LockOK, RtcOK, Tell
  <2> QED
    BY <2>1, <2>2, <2>3, <2>4, <2>5, <2>6
<1>12. ASSUME NEW q \in Request, TellFails(q) PROVE IInv'
  <2>1. Types'
    BY <1>12 DEF Stage, TellFails, Fail
  <2>2. LockOK'
    BY <1>12 DEF Held, LockOK, TellFails, Fail
  <2>3. InputsOK'
    BY <1>12 DEF InputsOK, TellFails, Fail
  <2>4. PipeOK'
    BY <1>12 DEF PipeOK, Told, Taken, Answered, Ended, TellFails, Fail
  <2>5. FilesOK'
    BY <1>12 DEF FilesOK, TellFails, Fail
  <2>6. RtcOK'
    BY <1>12 DEF Held, LockOK, RtcOK, TellFails, Fail
  <2> QED
    BY <2>1, <2>2, <2>3, <2>4, <2>5, <2>6
<1>13. ASSUME NEW q \in Request, AnswerIsOK(q) PROVE IInv'
  <2>1. Types'
    BY <1>13 DEF Stage, AnswerIsOK
  <2>2. LockOK'
    BY <1>13 DEF Held, LockOK, AnswerIsOK
  <2>3. InputsOK'
    BY <1>13 DEF InputsOK, AnswerIsOK
  <2>4. PipeOK'
    <3>1. line = <<"ok">> /\ ~ cmd /\ svc # "busy"
        BY <1>13, OneLine DEF AnswerIsOK, PipeOK, Told, Taken, Answered, Ended
    <3>2. line' = <<>> /\ UNCHANGED <<cmd, cached, svc>>
        BY <1>13, <3>1, OneLine DEF AnswerIsOK
    <3>3. \A p \in Request : thread'[p] # "waiting"
        BY <1>13 DEF AnswerIsOK, LockOK, Held
    <3> QED
        BY <3>1, <3>2, <3>3 DEF PipeOK
  <2>5. FilesOK'
    BY <1>13, OneLine DEF PipeOK, Taken, Told, Answered, Ended, FilesOK, AnswerIsOK
  <2>6. RtcOK'
    BY <1>13 DEF Held, LockOK, RtcOK, AnswerIsOK
  <2> QED
    BY <2>1, <2>2, <2>3, <2>4, <2>5, <2>6
<1>14. ASSUME NEW q \in Request, AnswerIsErr(q) PROVE IInv'
  <2>1. Types'
    BY <1>14 DEF Stage, AnswerIsErr, Fail
  <2>2. LockOK'
    BY <1>14 DEF Held, LockOK, AnswerIsErr, Fail
  <2>3. InputsOK'
    BY <1>14 DEF InputsOK, AnswerIsErr, Fail
  <2>4. PipeOK'
    <3>1. svc # "busy" /\ (cmd => svc = "down")
        BY <1>14, OneLine DEF AnswerIsErr, PipeOK, Told, Taken, Answered, Ended
    <3>2. line' = <<>>
      <4>1. CASE line = <<>>
        BY <1>14, <4>1 DEF AnswerIsErr
      <4>2. CASE line # <<>>
        <5>1. line = <<"ok">> \/ line = <<"err">>
            BY <1>14, <4>2 DEF AnswerIsErr, PipeOK, Told, Taken, Answered, Ended
        <5>2. Tail(<<"ok">>) = <<>> /\ Tail(<<"err">>) = <<>>
            BY OneLine
        <5>3. line' = Tail(line)
            BY <1>14, <4>2 DEF AnswerIsErr
        <5> QED
            BY <5>1, <5>2, <5>3
      <4> QED
        BY <4>1, <4>2
    <3>4. UNCHANGED <<cmd, cached, svc>>
        BY <1>14 DEF AnswerIsErr
    <3>3. \A p \in Request : thread'[p] # "waiting"
        BY <1>14 DEF AnswerIsErr, Fail, LockOK, Held
    <3> QED
        BY <3>1, <3>2, <3>3, <3>4 DEF PipeOK
  <2>5. FilesOK'
    BY <1>14 DEF FilesOK, AnswerIsErr, Fail
  <2>6. RtcOK'
    BY <1>14 DEF Held, LockOK, RtcOK, AnswerIsErr, Fail
  <2> QED
    BY <2>1, <2>2, <2>3, <2>4, <2>5, <2>6
<1>15. ASSUME NEW q \in Request, ReadActions(q) PROVE IInv'
  <2>1. Types'
    <3>1. thread' = [thread EXCEPT ![q] = "done"] /\ lock' = 0
        BY <1>15 DEF ReadActions, Fail
    <3>2. code' = [code EXCEPT ![q] = 500] \/ code' = [code EXCEPT ![q] = 200]
        BY <1>15 DEF ReadActions, Fail
    <3>3. body' = body \/ body' = [body EXCEPT ![q] = actions]
        BY <1>15 DEF ReadActions, Fail
    <3>4. UNCHANGED <<rtc, applied, config, unbuilt, inputs, cached, cmd, childVars, board>>
        BY <1>15 DEF ReadActions, Fail
    <3>5. thread' \in [Request -> Stage] /\ lock' \in 0 .. MaxRequest
        BY <3>1 DEF Stage
    <3>6. code' \in [Request -> {0, 200, 500}]
        BY <3>2
    <3>7. body' \in [Request -> 0 .. MaxRequest]
        BY <3>3
    <3> QED
        BY <3>4, <3>5, <3>6, <3>7
  <2>2. LockOK'
    <3>1. lock' = 0 /\ UNCHANGED <<rtc, applied, config>>
        BY <1>15 DEF ReadActions, Fail
    <3>2. thread' = [thread EXCEPT ![q] = "done"] /\ thread[q] = "reading"
        BY <1>15 DEF ReadActions, Fail
    <3> QED
        BY <3>1, <3>2 DEF LockOK, Held
  <2>3. InputsOK'
    BY <1>15 DEF InputsOK, ReadActions, Fail
  <2>4. PipeOK'
    BY <1>15 DEF PipeOK, Told, Taken, Answered, Ended, ReadActions, Fail
  <2>5. FilesOK'
    BY <1>15 DEF FilesOK, ReadActions, Fail
  <2>6. RtcOK'
    BY <1>15 DEF Held, LockOK, RtcOK, ReadActions, Fail
  <2> QED
    BY <2>1, <2>2, <2>3, <2>4, <2>5, <2>6
<1>16. CASE ChildTake
  <2>1. Types'
    <3>1. cmd' \in BOOLEAN
        BY <1>16 DEF ChildTake
    <3>2. asked' \in 0 .. MaxRequest /\ svc' = "busy" /\ reply' = "none" /\ answer' = 0
        BY <1>16 DEF ChildTake, Service!Ask
    <3>3. job' = inputs /\ UNCHANGED <<serverVars, actions, undumped, board>>
        BY <1>16 DEF ChildTake
    <3> QED
        BY <3>1, <3>2, <3>3
  <2>2. LockOK'
    BY <1>16 DEF LockOK, ChildTake, Service!Ask
  <2>3. InputsOK'
    BY <1>16 DEF InputsOK, ChildTake, Service!Ask
  <2>4. PipeOK'
    BY <1>16 DEF InputsOK, PipeOK, Told, Taken, Answered, Ended, ChildTake, Service!Ask
  <2>5. FilesOK'
    BY <1>16 DEF FilesOK, ChildTake, Service!Ask
  <2>6. RtcOK'
    BY <1>16 DEF Held, LockOK, RtcOK, ChildTake, Service!Ask
  <2> QED
    BY <2>1, <2>2, <2>3, <2>4, <2>5, <2>6
<1>17. CASE ChildOpens
  <2>1. Types'
    BY <1>17 DEF ChildOpens
  <2>2. LockOK'
    BY <1>17 DEF Held, LockOK, ChildOpens
  <2>3. InputsOK'
    BY <1>17 DEF Held, LockOK, InputsOK, ChildOpens
  <2>4. PipeOK'
    BY <1>17 DEF Held, LockOK, InputsOK, PipeOK, Told, Taken, Answered, Ended, ChildOpens
  <2>5. FilesOK'
    BY <1>17 DEF Held, LockOK, PipeOK, FilesOK, ChildOpens
  <2>6. RtcOK'
    BY <1>17 DEF Held, LockOK, RtcOK, ChildOpens
  <2> QED
    BY <2>1, <2>2, <2>3, <2>4, <2>5, <2>6
<1>18. CASE ChildOK
  <2>1. Types'
    BY <1>18 DEF ChildOK, Service!AnswerOK
  <2>2. LockOK'
    BY <1>18 DEF LockOK, ChildOK, Service!AnswerOK
  <2>3. InputsOK'
    BY <1>18 DEF Held, LockOK, InputsOK, ChildOK, Service!AnswerOK
  <2>4. PipeOK'
    <3>1. PICK q \in Request :
              /\ thread[q] = "waiting" /\ Taken(q)
              /\ \A p \in Request : thread[p] = "waiting" => p = q
        BY <1>18, Asker DEF ChildOK, Service!AnswerOK
    <3>2. line' = <<"ok">> /\ (actions' = q \/ q \in undumped')
        BY <1>18, <3>1, OneLine DEF ChildOK, Service!AnswerOK, Taken
    <3>3. cmd' = FALSE /\ svc' # "busy" /\ UNCHANGED <<thread, cached>>
        BY <1>18, <3>1 DEF ChildOK, Service!AnswerOK, Taken
    <3>4. Answered(q)'
        BY <3>2, <3>3 DEF Answered
    <3>5. cached
        BY <1>18 DEF PipeOK, ChildOK, Service!AnswerOK
    <3> QED
        BY <3>1, <3>3, <3>4, <3>5 DEF PipeOK
  <2>5. FilesOK'
    BY <1>18 DEF FilesOK, ChildOK, Service!AnswerOK
  <2>6. RtcOK'
    BY <1>18 DEF Held, LockOK, RtcOK, ChildOK, Service!AnswerOK
  <2> QED
    BY <2>1, <2>2, <2>3, <2>4, <2>5, <2>6
<1>19. CASE ChildOKUndumped
  <2>1. Types'
    <3>1. job \in Request
        BY <1>19, Asker DEF ChildOKUndumped, Service!AnswerOK, Taken
    <3> QED
        BY <1>19, <3>1 DEF ChildOKUndumped, Service!AnswerOK
  <2>2. LockOK'
    BY <1>19 DEF LockOK, ChildOKUndumped, Service!AnswerOK
  <2>3. InputsOK'
    BY <1>19 DEF InputsOK, ChildOKUndumped, Service!AnswerOK
  <2>4. PipeOK'
    <3>1. PICK q \in Request :
              /\ thread[q] = "waiting" /\ Taken(q)
              /\ \A p \in Request : thread[p] = "waiting" => p = q
        BY <1>19, Asker DEF ChildOKUndumped, Service!AnswerOK
    <3>2. line' = <<"ok">> /\ (actions' = q \/ q \in undumped')
        BY <1>19, <3>1, OneLine DEF ChildOKUndumped, Service!AnswerOK, Taken
    <3>3. cmd' = FALSE /\ svc' # "busy" /\ UNCHANGED <<thread, cached>>
        BY <1>19, <3>1 DEF ChildOKUndumped, Service!AnswerOK, Taken
    <3>4. Answered(q)'
        BY <3>2, <3>3 DEF Answered
    <3>5. cached
        BY <1>19 DEF PipeOK, ChildOKUndumped, Service!AnswerOK
    <3> QED
        BY <3>1, <3>3, <3>4, <3>5 DEF PipeOK
  <2>5. FilesOK'
    BY <1>19 DEF FilesOK, ChildOKUndumped, Service!AnswerOK
  <2>6. RtcOK'
    BY <1>19 DEF Held, LockOK, RtcOK, ChildOKUndumped, Service!AnswerOK
  <2> QED
    BY <2>1, <2>2, <2>3, <2>4, <2>5, <2>6
<1>20. CASE ChildErr
  <2>1. Types'
    BY <1>20 DEF ChildErr, Service!AnswerErr
  <2>2. LockOK'
    BY <1>20 DEF LockOK, ChildErr, Service!AnswerErr
  <2>3. InputsOK'
    BY <1>20 DEF InputsOK, ChildErr, Service!AnswerErr
  <2>4. PipeOK'
    <3>1. PICK q \in Request :
              /\ thread[q] = "waiting" /\ Taken(q)
              /\ \A p \in Request : thread[p] = "waiting" => p = q
        BY <1>20, Asker DEF ChildErr, Service!AnswerErr
    <3>2. line' = <<"err">>
        BY <1>20, <3>1, OneLine DEF ChildErr, Service!AnswerErr, Taken
    <3>3. cmd' = FALSE /\ svc' # "busy" /\ UNCHANGED <<thread, cached>>
        BY <1>20, <3>1 DEF ChildErr, Service!AnswerErr, Taken
    <3>4. Answered(q)'
        BY <3>2, <3>3 DEF Answered
    <3>5. cached
        BY <1>20 DEF PipeOK, ChildErr, Service!AnswerErr
    <3> QED
        BY <3>1, <3>3, <3>4, <3>5 DEF PipeOK
  <2>5. FilesOK'
    BY <1>20 DEF FilesOK, ChildErr, Service!AnswerErr
  <2>6. RtcOK'
    BY <1>20 DEF Held, LockOK, RtcOK, ChildErr, Service!AnswerErr
  <2> QED
    BY <2>1, <2>2, <2>3, <2>4, <2>5, <2>6
<1>21. CASE ChildTimeout
  <2>1. Types'
    BY <1>21 DEF ChildTimeout, Service!AnswerErr
  <2>2. LockOK'
    BY <1>21 DEF LockOK, ChildTimeout, Service!AnswerErr
  <2>3. InputsOK'
    BY <1>21 DEF InputsOK, ChildTimeout, Service!AnswerErr
  <2>4. PipeOK'
    <3>1. PICK q \in Request :
              /\ thread[q] = "waiting" /\ Taken(q)
              /\ \A p \in Request : thread[p] = "waiting" => p = q
        BY <1>21, Asker DEF ChildTimeout, Service!AnswerErr
    <3>2. line' = <<"err">>
        BY <1>21, <3>1, OneLine DEF ChildTimeout, Service!AnswerErr, Taken
    <3>3. cmd' = FALSE /\ svc' # "busy" /\ UNCHANGED <<thread, cached>>
        BY <1>21, <3>1 DEF ChildTimeout, Service!AnswerErr, Taken
    <3>4. Answered(q)'
        BY <3>2, <3>3 DEF Answered
    <3>5. cached
        BY <1>21 DEF PipeOK, ChildTimeout, Service!AnswerErr
    <3> QED
        BY <3>1, <3>3, <3>4, <3>5 DEF PipeOK
  <2>5. FilesOK'
    BY <1>21 DEF FilesOK, ChildTimeout, Service!AnswerErr
  <2>6. RtcOK'
    BY <1>21 DEF Held, LockOK, RtcOK, ChildTimeout, Service!AnswerErr
  <2> QED
    BY <2>1, <2>2, <2>3, <2>4, <2>5, <2>6
<1>22. CASE ChildEnds
  <2>1. Types'
    BY <1>22 DEF ChildEnds, Service!AnswerErr, Service!Stop
  <2>2. LockOK'
    BY <1>22 DEF LockOK, ChildEnds, Service!AnswerErr, Service!Stop
  <2>3. InputsOK'
    BY <1>22 DEF InputsOK, ChildEnds, Service!AnswerErr, Service!Stop
  <2>4. PipeOK'
    BY <1>22 DEF PipeOK, Told, Taken, Answered, Ended, ChildEnds, Service!AnswerErr,
       Service!Stop
  <2>5. FilesOK'
    BY <1>22 DEF FilesOK, ChildEnds, Service!AnswerErr, Service!Stop
  <2>6. RtcOK'
    BY <1>22 DEF Held, LockOK, RtcOK, ChildEnds, Service!AnswerErr, Service!Stop
  <2> QED
    BY <2>1, <2>2, <2>3, <2>4, <2>5, <2>6
<1>23. CASE Repair
  <2>1. Types'
    BY <1>23 DEF Repair
  <2>2. LockOK'
    BY <1>23 DEF LockOK, Repair
  <2>3. InputsOK'
    BY <1>23 DEF InputsOK, Repair
  <2>4. PipeOK'
    BY <1>23 DEF PipeOK, Told, Taken, Answered, Ended, Repair
  <2>5. FilesOK'
    BY <1>23 DEF Held, LockOK, PipeOK, Taken, Told, Answered, Ended, FilesOK, Repair
  <2>6. RtcOK'
    BY <1>23 DEF Held, LockOK, RtcOK, Repair
  <2> QED
    BY <2>1, <2>2, <2>3, <2>4, <2>5, <2>6
<1>24. CASE UNCHANGED vars
    BY <1>24 DEF vars, Held, Stage, LockOK, RtcOK, InputsOK, PipeOK, Told, Taken, Answered,
       Ended, FilesOK
<1> QED
    BY <1>1, <1>2, <1>3, <1>4, <1>5, <1>6, <1>7, <1>8, <1>9, <1>10, <1>11, <1>12,
       <1>13, <1>14, <1>15, <1>16, <1>17, <1>18, <1>19, <1>20, <1>21, <1>22, <1>23, <1>24 DEF Next, Handle

(***************************************************************************)
(* The theorems.                                                           *)
(***************************************************************************)
\* The invariant holds in every state of every execution.
THEOREM Invariance == Spec => []IInv
<1>1. Init => IInv
  <2> SUFFICES ASSUME Init PROVE IInv
    OBVIOUS
  <2>1. Types
    <3>1. /\ thread \in [Request -> Stage] /\ rtc \in [Request -> {"none", "rtc"}]
          /\ code \in [Request -> {0, 200, 500}] /\ body \in [Request -> 0 .. MaxRequest]
        BY RequestAssumption DEF Init, Stage
    <3>2. cached \in BOOLEAN /\ cmd \in BOOLEAN /\ undumped = {} /\ board = "working"
        BY DEF Init
    <3>3. /\ lock = 0 /\ applied = "none" /\ config = "none" /\ unbuilt = 0 /\ inputs = 0 /\ actions = 0
          /\ job = 0 /\ svc = "down" /\ asked = 0 /\ reply = "none" /\ answer = 0
        BY DEF Init, Service!Init
    <3> QED
        BY RequestAssumption, <3>1, <3>2, <3>3 DEF Types
  <2>2. LockOK /\ RtcOK /\ InputsOK /\ FilesOK
    BY DEF Init, Request, Held, LockOK, RtcOK, InputsOK, FilesOK
  <2>3. PipeOK
    BY DEF Init, Service!Init, Request, PipeOK
  <2> QED
    BY <2>1, <2>2, <2>3 DEF IInv
<1> QED
    BY <1>1, StepKeeps, PTL DEF Spec

\* Every variable stays in its type; at most one answer waits to be read.
THEOREM TypeCorrect == Spec => []TypeOK
<1>1. IInv => TypeOK
  <2> SUFFICES ASSUME IInv PROVE TypeOK
    OBVIOUS
  <2>1. line \in {<<>>, <<"ok">>, <<"err">>}
    BY DEF IInv, PipeOK, Told, Taken, Answered, Ended
  <2> QED
    BY <2>1 DEF IInv, TypeOK
<1> QED
    BY <1>1, Invariance, PTL

\* A client gets the actions of its own observation (infer over the fixed files, ReadActions).
THEOREM ActionsAreOwn == Spec => []OwnActions
<1>1. IInv => OwnActions
    BY DEF IInv, FilesOK, OwnActions
<1> QED
    BY <1>1, Invariance, PTL

\* Whoever has the lock meets its own configuration, or one left by an
\* init_rtc_processor that raised, and then only to be refused (apply_rtc).
THEOREM RtcIsOwn == Spec => []RtcOwn
<1>1. IInv => RtcOwn
    BY DEF IInv, Types, RtcOK, RtcOwn
<1> QED
    BY <1>1, Invariance, PTL

\* No answer and no run is left for the next request (ChipServer.infer).
THEOREM PipeIsAligned == Spec => []PipeAligned
<1>1. IInv => PipeAligned
    BY DEF IInv, PipeOK, Told, Taken, Answered, Ended, PipeAligned
<1> QED
    BY <1>1, Invariance, PTL
=============================================================================
