----------------------------- MODULE MCProcess -----------------------------
(* Instances of Process: main.go with its server, and Run with a worker. *)
EXTENDS Process

BothPrograms == {"background", "run"}
OnlyRun == {"run"}
OnlyBackground == {"background"}
=============================================================================
