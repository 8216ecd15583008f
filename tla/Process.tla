------------------------------ MODULE Process ------------------------------
(***************************************************************************)
(* The program as a whole: the processes of Daemon and what the one that   *)
(* stays does, Server.  main.go calls Background and goes on only in the   *)
(* sub process (or, when there is none, in the launcher); the end of       *)
(* Server is the end of that process.  A program that calls Run instead is *)
(* considered without a server in its worker: the repository has none.     *)
(*                                                                         *)
(* The package config reads its file before main, in the launcher too;     *)
(* only the reading of the process that goes on is here.                   *)
(***************************************************************************)
EXTENDS Server, Daemon

processVars == <<vars, daemonVars>>

ProcessInit == Init /\ DaemonInit

\* Nobody looks at the age of a process but Run.
Supervise == program = "run" /\ DaemonNext /\ UNCHANGED vars

Launch == program = "background" /\ (\E p \in Pids : BackgroundExit(p)) /\ UNCHANGED vars

\* A step of main and its goroutines in the process that serves.
Serve ==
    /\ program = "background" /\ Serving # {}
    /\ Next
    /\ IF Up' THEN UNCHANGED daemonVars ELSE \E p \in Pids : Exit(p)

ProcessNext == Supervise \/ Launch \/ Serve

ProcessSpec == ProcessInit /\ [][ProcessNext]_processVars

ProcessFairSpec == ProcessSpec /\ Fairness /\ DaemonFairness
=============================================================================
