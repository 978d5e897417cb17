------------------------------ MODULE MCProcess -----------------------------
(* Instances of module Process for TLC. *)
EXTENDS Process

(* Task 3 may be stopped, continued and (SIGCONT unhandled) killed. *)
StopThird == {<<3, SIGCONT>>, <<3, SIGSTOP>>}
Nobody == {}
=============================================================================
