------------------------------- MODULE Daemon -------------------------------
(***************************************************************************)
(* How the program puts itself into the background and how a supervisor    *)
(* watches it (daemon/daemon.go).  A process finds out what it is by       *)
(* counting its own calls of Background, runIdx, and comparing the count   *)
(* with the variable BK_DAEMON_IDX that its parent gave it: the same       *)
(* program is the launcher, the supervisor and the worker.                 *)
(*                                                                         *)
(* A program either calls Background once (main.go) or NewDaemon(...).Run  *)
(* (the package's other use).  What a worker does is left out: it serves,  *)
(* and some time later it is gone.                                         *)
(***************************************************************************)
EXTENDS Integers, FiniteSets

CONSTANTS
    Pids,          \* bound: processes that exist at once
    NoPid,
    Programs,      \* which programs are considered: subset of {"background", "run"}
    MaxCount,      \* restarts of the worker; 0 for no limit
    MaxError,      \* short lives in a row the supervisor bears: 3
    MinExitTime,   \* a life shorter than this is short: 10 seconds
    MaxExits,      \* bound: number of times a worker goes away
    MaxKills,      \* bound: supervisors killed
    MaxStartFaults \* bound: processes that could not be started

ASSUME DaemonAssumption ==
    /\ NoPid \notin Pids /\ IsFiniteSet(Pids) /\ Programs \subseteq {"background", "run"}
    /\ MaxCount \in Nat /\ MaxError \in Nat /\ MinExitTime \in Nat \ {0}

VARIABLES
    program,   \* the program that was launched
    proc,      \* the processes
    gone,      \* supervisors that ended: "gave up", "counted" or "killed"
    exits, kills, faults

daemonVars == <<program, proc, gone, exits, kills, faults>>

\* A process: BK_DAEMON_IDX, runIdx, where it is, its count and errNum, the child it
\* waits for, and its age up to MinExitTime.
Free == [env |-> 0, runIdx |-> 0, pc |-> "free", count |-> 1, errNum |-> 0, child |-> NoPid,
         age |-> 0]
New(idx) == [Free EXCEPT !.env = idx, !.pc = "begin"]

Fault == faults < MaxStartFaults /\ faults' = faults + 1

\* (A name that extends the name of the definition below it is that definition
\* with a plausible bug; the specification never uses it.)

\* Somebody starts the program in a shell.
DaemonInit ==
    /\ program \in Programs
    /\ \E p \in Pids : proc = [q \in Pids |-> IF q = p THEN New(0) ELSE Free]
    /\ gone = {} /\ exits = 0 /\ kills = 0 /\ faults = 0
-----------------------------------------------------------------------------
(* Background *)

\* runIdx++; a process that was started by this call or by a later one returns.
IsSubProcessLater(p) == proc[p].runIdx + 1 < proc[p].env
IsSubProcess(p) == proc[p].runIdx + 1 <= proc[p].env
Counted(p) == [proc[p] EXCEPT !.runIdx = @ + 1]

\* startProc: a process with runIdx in its environment.
StartProc(p, me) ==
    \E c \in Pids :
        /\ proc[c].pc = "free"
        /\ proc' = [proc EXCEPT ![p] = IF me.pc = "wait" THEN [me EXCEPT !.child = c] ELSE me,
                                ![c] = New(me.runIdx)]

\* The first call, with isExit.  A sub process returns, and so does a process whose
\* sub process could not be started: nobody looks at the error.
Next1 == IF program = "background" THEN "serve" ELSE "check"
BackgroundExit(p) ==
    /\ proc[p].pc = "begin"
    /\ \/ /\ IsSubProcess(p)
          /\ proc' = [proc EXCEPT ![p] = [Counted(p) EXCEPT !.pc = Next1]]
          /\ UNCHANGED faults
       \/ /\ ~IsSubProcess(p) /\ Fault
          /\ proc' = [proc EXCEPT ![p] = [Counted(p) EXCEPT !.pc = Next1]]
       \/ /\ ~IsSubProcess(p)
          /\ StartProc(p, [Free EXCEPT !.runIdx = proc[p].runIdx + 1])
          /\ UNCHANGED faults
    /\ UNCHANGED <<program, gone, exits, kills>>
-----------------------------------------------------------------------------
(* Run *)

\* The head of the loop: too many errors, or enough restarts.
Check(p) ==
    /\ proc[p].pc = "check"
    /\ IF proc[p].errNum > MaxError
       THEN gone' = gone \cup {"gave up"} /\ proc' = [proc EXCEPT ![p] = Free]
       ELSE IF MaxCount > 0 /\ proc[p].count > MaxCount
       THEN gone' = gone \cup {"counted"} /\ proc' = [proc EXCEPT ![p] = Free]
       ELSE /\ proc' = [proc EXCEPT ![p].pc = "spawn",
                                    ![p].count = IF MaxCount > 0 THEN @ + 1 ELSE @]
            /\ UNCHANGED gone
    /\ UNCHANGED <<program, exits, kills, faults>>

\* Background without isExit: the worker leaves the loop, the supervisor waits for
\* its child, or counts an error when there is none.
BackgroundNotWaiting(p) ==
    /\ proc[p].pc = "spawn"
    /\ \/ /\ IsSubProcess(p)
          /\ proc' = [proc EXCEPT ![p] = [Counted(p) EXCEPT !.pc = "serve"]]
          /\ UNCHANGED faults
       \/ /\ ~IsSubProcess(p)
          /\ StartProc(p, [Counted(p) EXCEPT !.pc = "check"])
          /\ UNCHANGED faults
    /\ UNCHANGED <<program, gone, exits, kills>>
Background(p) ==
    /\ proc[p].pc = "spawn"
    /\ \/ /\ IsSubProcess(p)
          /\ proc' = [proc EXCEPT ![p] = [Counted(p) EXCEPT !.pc = "serve"]]
          /\ UNCHANGED faults
       \/ /\ ~IsSubProcess(p) /\ Fault
          /\ proc' = [proc EXCEPT ![p] = [Counted(p) EXCEPT !.pc = "check", !.errNum = @ + 1]]
       \/ /\ ~IsSubProcess(p)
          /\ StartProc(p, [Counted(p) EXCEPT !.pc = "wait"])
          /\ UNCHANGED faults
    /\ UNCHANGED <<program, gone, exits, kills>>

\* Wait returns once the child is gone.
Wait(p) ==
    /\ proc[p].pc = "wait" /\ proc[proc[p].child].pc = "gone"
    /\ LET brief == proc[proc[p].child].age < MinExitTime IN
          /\ proc' = [proc EXCEPT ![p].pc = "check", ![p].child = NoPid,
                                  ![p].errNum = IF brief THEN @ + 1 ELSE 0,
                                  ![proc[p].child] = Free]
    /\ UNCHANGED <<program, gone, exits, kills, faults>>
-----------------------------------------------------------------------------
(* Time and the end of processes *)

WaitedFor(p) == \E q \in Pids : proc[q].child = p

\* Each process that was started gets older.
Tick ==
    /\ \E p \in Pids : proc[p].pc # "free" /\ proc[p].age < MinExitTime
    /\ proc' = [p \in Pids |->
          IF proc[p].pc \in {"free", "gone"} \/ proc[p].age = MinExitTime THEN proc[p]
          ELSE [proc[p] EXCEPT !.age = @ + 1]]
    /\ UNCHANGED <<program, gone, exits, kills, faults>>

\* A worker panics, is stopped or is killed.
Exit(p) ==
    /\ proc[p].pc = "serve" /\ exits < MaxExits
    /\ exits' = exits + 1
    /\ proc' = [proc EXCEPT ![p] = IF WaitedFor(p) THEN [@ EXCEPT !.pc = "gone"] ELSE Free]
    /\ UNCHANGED <<program, gone, kills, faults>>

\* The supervisor is killed.  Its child has a session of its own and stays.
Kill(p) ==
    /\ proc[p].pc \in {"check", "spawn", "wait"} /\ proc[p].env < 2 /\ kills < MaxKills
    /\ kills' = kills + 1 /\ gone' = gone \cup {"killed"}
    /\ proc' = [q \in Pids |->
          IF q = p \/ (q = proc[p].child /\ proc[q].pc = "gone") THEN Free ELSE proc[q]]
    /\ UNCHANGED <<program, exits, faults>>

DaemonNext ==
    \/ \E p \in Pids :
          BackgroundExit(p) \/ Check(p) \/ Background(p) \/ Wait(p) \/ Exit(p) \/ Kill(p)
    \/ Tick

DaemonSpec == DaemonInit /\ [][DaemonNext]_daemonVars

\* Processes are scheduled, and Wait returns for a child that is gone.
DaemonFairness ==
    \A p \in Pids : WF_daemonVars(BackgroundExit(p) \/ Check(p) \/ Background(p) \/ Wait(p))

DaemonFairSpec == DaemonSpec /\ DaemonFairness
-----------------------------------------------------------------------------
(* Properties *)

Serving == {p \in Pids : proc[p].pc = "serve"}

\* One launch leads to one worker at a time, although launcher, supervisor and
\* worker are the same program; a supervisor never serves, and a worker that came
\* from Run goes back into no loop (Background, Run).
OneWorker ==
    /\ Cardinality(Serving) <= 1
    /\ \A p \in Pids : proc[p].child # NoPid =>
          /\ proc[p].pc = "wait" /\ proc[proc[p].child].env >= 2
          /\ Serving \subseteq {proc[p].child}

\* "The min time duration of running of sub process.  Over this time, the sub process
\* will be as an exception" (daemon/daemon.go:24): a worker that lived longer counts
\* as an error.  Run takes the one that lived shorter for it.
LongLifeIsException ==
    [][\A p \in Pids :
          /\ proc[p].pc = "wait" /\ proc'[p].pc = "check"
          /\ proc[proc[p].child].age >= MinExitTime
          => proc'[p].errNum = proc[p].errNum + 1]_daemonVars

\* As long as its supervisor neither ended nor was killed, a worker that goes away
\* is replaced by another one; and a launch without a supervisor serves at once.
Replaced ==
    /\ program = "run" /\ gone = {} ~> Serving # {} \/ gone # {}
    /\ program = "background" /\ exits = 0 ~> Serving # {} \/ exits > 0
=============================================================================
