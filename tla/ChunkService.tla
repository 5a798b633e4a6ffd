---------------------------- MODULE ChunkService ----------------------------
(***************************************************************************)
(* What the resident host process promises to its parent, the policy's     *)
(* runtime (paper/sw/pi0_chip_runtime.py, ChipServer): it takes one        *)
(* "infer" at a time and answers it once, and an OK answer is about the    *)
(* chunk that was asked for.  It may fail a request and go on, or give up  *)
(* and end; it never answers OK with the actions of another chunk.         *)
(***************************************************************************)
EXTENDS Naturals

CONSTANT MaxChunk           \* bound: how many chunks are asked for

VARIABLES
    svc,        \* "down", "ready" for a command, or "busy" with one
    asked,      \* the number of the latest command
    reply,      \* what was answered to it, if anything
    answer      \* the chunk whose actions went with an OK, 0 otherwise

vars == <<svc, asked, reply, answer>>

Init == svc = "down" /\ asked = 0 /\ reply = "none" /\ answer = 0

StartUp ==
    /\ svc = "down" /\ svc' = "ready"
    /\ reply' = "none" /\ answer' = 0
    /\ UNCHANGED asked

Ask ==
    /\ svc = "ready" /\ svc' = "busy"
    /\ asked < MaxChunk /\ asked' = asked + 1
    /\ reply' = "none" /\ answer' = 0

AnswerOK ==
    /\ svc = "busy" /\ svc' = "ready"
    /\ reply' = "ok" /\ answer' = asked
    /\ UNCHANGED asked

\* An error answer; the process goes on or ends.
AnswerErr ==
    /\ svc = "busy" /\ svc' \in {"ready", "down"}
    /\ reply' = "err" /\ answer' = 0
    /\ UNCHANGED asked

Stop ==
    /\ svc = "ready" /\ svc' = "down"
    /\ UNCHANGED <<asked, reply, answer>>

Next == StartUp \/ Ask \/ AnswerOK \/ AnswerErr \/ Stop

Spec == Init /\ [][Next]_vars

\* A command that was taken is answered.
FairSpec == Spec /\ WF_vars(AnswerOK \/ AnswerErr)
=============================================================================
