------------------------------- MODULE Requests -------------------------------
(***************************************************************************)
(* A call that computes its answer from what there is and from the request *)
(* alone: what there is, of which kind, is chosen at the start; one step   *)
(* takes a request and has the answer.                                     *)
(***************************************************************************)
EXTENDS Sequences

VARIABLES
    given,    \* what there is, and of which handler
    asked,    \* the request, once there is one
    answer    \* and its answer

Handle(request, reply) ==
    /\ asked = <<>>
    /\ asked' = <<request>>
    /\ answer' = <<reply>>
    /\ UNCHANGED given

Unasked == asked = <<>> /\ answer = <<>>

Answered(of) == asked # <<>> /\ given.of = of
Request == asked[1]
Reply == answer[1]
=============================================================================
