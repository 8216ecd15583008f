---------------------------- MODULE ProcessProof ----------------------------
(***************************************************************************)
(* Proofs about the processes.  Server is what the serving one does: why   *)
(* it ends, and who is served.  Daemon is the processes around it, of the  *)
(* same program, and how many of them serve.  Process is both, and does    *)
(* nothing that they do not.                                               *)
(***************************************************************************)
EXTENDS Process, FiniteSetTheorems, TLAPS

(* Server: why the process ends, and who is served. *)

Told == {"none", "handling", "done", "forbidden", "error", "lost"}
Asked == [kind : Kinds, signature : Signatures, answer : Told]
Steps == {"config", "logs", "mysql", "admins", "listen", "service", "files", "notify", "wait",
          "shutdown", "drain"}

Types ==
    /\ main \in Steps /\ ended \in {"no", "panic", "race", "fatal", "signal", "ok"}
    /\ http \in {"none", "start", "serve", "unbound", "closed"}
    /\ admins \in BOOLEAN
    /\ request \in [Requests -> Asked]

\* What main has done by the time it is at a step.
Progress ==
    /\ http = "closed" => main = "drain"
    /\ pidFile => main \in {"notify", "wait"}
    /\ notified <=> main \in {"wait", "shutdown", "drain"}
    /\ main \notin {"config", "logs", "mysql", "admins"} => admins
    /\ main \in {"config", "logs", "mysql", "admins", "listen"} => http = "none"

\* Nobody has been accepted before the administrators were known.
Accepted == \A r \in Requests : request[r].answer = "none" \/ admins

IInv == Types /\ Progress /\ Accepted /\ EndsForReason /\ AdminsServed
-----------------------------------------------------------------------------
\* The initial states satisfy the invariant.
LEMMA InitInv == Init => IInv
<1> SUFFICES ASSUME Init PROVE IInv
    OBVIOUS
<1>1. NotSent \in Asked /\ NotSent.answer = "none"
    BY DEF NotSent, Asked, Told, Kinds, Signatures
<1>2. Types
    BY <1>1 DEF Init, Types, Steps
<1>3. \A r \in Requests : request[r].answer = "none"
    BY <1>1 DEF Init
<1>4. Progress
    BY DEF Init, Progress
<1>5. Accepted /\ AdminsServed
    BY <1>3 DEF Accepted, AdminsServed
<1>6. EndsForReason
    BY DEF Init, EndsForReason
<1> QED
    BY <1>2, <1>4, <1>5, <1>6 DEF IInv

\* The end of the process answers nobody, and leaves who was answered alone.
LEMMA EndLeaves ==
    ASSUME Types, Accepted, AdminsServed, NEW how, End(how), UNCHANGED admins
    PROVE  /\ request' \in [Requests -> Asked]
           /\ Accepted' /\ AdminsServed'
           /\ \A r \in Requests :
                 /\ request'[r].kind = request[r].kind
                 /\ request'[r].signature = request[r].signature
                 /\ request[r].answer = "handling" => request'[r].answer = "lost"
                 /\ request[r].answer # "handling" => request'[r].answer = request[r].answer
<1>1. \A r \in Requests : request[r] \in Asked
    BY DEF Types
<1>2. \A r \in Requests : [request[r] EXCEPT !.answer = "lost"] \in Asked
    BY <1>1 DEF Asked, Told
<1>3. request' \in [Requests -> Asked]
    BY <1>1, <1>2 DEF End
<1>4. \A r \in Requests :
        /\ request'[r].kind = request[r].kind
        /\ request'[r].signature = request[r].signature
        /\ request[r].answer = "handling" => request'[r].answer = "lost"
        /\ request[r].answer # "handling" => request'[r].answer = request[r].answer
    BY <1>1 DEF End, Asked
<1>5. Accepted' /\ AdminsServed'
    BY <1>4 DEF Accepted, AdminsServed
<1> QED
    BY <1>3, <1>4, <1>5

\* A step of main that does not end the process keeps the invariant: it leaves the
\* requests alone, and only Stopped removes the files.
LEMMA MainKeeps ==
    IInv /\ (\/ ReadConfig \/ CreateLogFiles \/ ConnectToMysql \/ AddAdmins \/ StartHttpServer
             \/ MakeMaps \/ ServiceStarted \/ WriteFiles \/ Notify \/ Stopped
             \/ CloseListener \/ WaitRequests \/ Bind \/ Write) => IInv'
<1> SUFFICES ASSUME IInv,
                    \/ ReadConfig \/ CreateLogFiles \/ ConnectToMysql \/ AddAdmins
                    \/ StartHttpServer \/ MakeMaps \/ ServiceStarted \/ WriteFiles \/ Notify
                    \/ Stopped \/ CloseListener \/ WaitRequests \/ Bind \/ Write
             PROVE  IInv'
    OBVIOUS
<1> USE DEF ReadConfig, CreateLogFiles, ConnectToMysql, AddAdmins, StartHttpServer, MakeMaps,
            ServiceStarted, WriteFiles, Notify, Stopped, CloseListener, WaitRequests, Bind, Write,
            Step
<1>1. ended = "no" /\ ended' = "no" /\ request' = request
    BY DEF Up
<1>2. admins => admins'
    OBVIOUS
<1>3. main' \in Steps /\ http' \in {"none", "start", "serve", "unbound", "closed"}
      /\ admins' \in BOOLEAN
    BY DEF IInv, Types, Steps
<1>4. Types'
    BY <1>1, <1>3 DEF IInv, Types
<1>5. Progress'
    BY DEF IInv, Types, Progress
<1>6. Accepted' /\ AdminsServed'
    BY <1>1, <1>2 DEF IInv, Accepted, AdminsServed
<1>7. http' = "closed" => main' = "drain" /\ ~pidFile'
    BY <1>5 DEF Progress
<1>8. EndsForReason'
    BY <1>1, <1>7 DEF EndsForReason
<1> QED
    BY <1>4, <1>5, <1>6, <1>8 DEF IInv

\* The steps that end the process, except the signal.
LEMMA EndKeeps ==
    IInv /\ (StartFails \/ Drained \/ NotDrained \/ ListenPanics \/ MapRace \/ NoRecords)
        => IInv'
<1> SUFFICES ASSUME IInv,
                    StartFails \/ Drained \/ NotDrained \/ ListenPanics \/ MapRace \/ NoRecords
             PROVE  IInv'
    OBVIOUS
<1>1. PICK how \in {"panic", "race", "ok", "fatal"} :
         /\ End(how) /\ UNCHANGED <<main, http, admins, pidFile, notified, writing>>
         /\ how \in {"ok", "fatal"} => main = "drain"
         /\ how = "panic" => failed' \/ http = "closed" \/ NoRecords
         /\ how = "race" => MapRace
  <2>1. CASE StartFails
      BY <2>1 DEF StartFails
  <2>2. CASE Drained
      BY <2>2 DEF Drained
  <2>3. CASE NotDrained
      BY <2>3 DEF NotDrained
  <2>4. CASE ListenPanics
      BY <2>4 DEF ListenPanics
  <2>5. CASE MapRace
      BY <2>5 DEF MapRace
  <2>6. CASE NoRecords
      BY <2>6 DEF NoRecords
  <2> QED
      BY <2>1, <2>2, <2>3, <2>4, <2>5, <2>6
<1>2. ended' = how
    BY <1>1 DEF End
<1>3. /\ request' \in [Requests -> Asked] /\ Accepted' /\ AdminsServed'
      /\ \A r \in Requests :
            /\ request'[r].kind = request[r].kind
            /\ request'[r].signature = request[r].signature
            /\ request[r].answer = "handling" => request'[r].answer = "lost"
            /\ request[r].answer # "handling" => request'[r].answer = request[r].answer
    BY <1>1, EndLeaves DEF IInv
<1>4. Types' /\ Progress'
    BY <1>1, <1>2, <1>3 DEF IInv, Types, Progress
<1>5. MapRace => writing' \/ Administered({"lost"})'
  <2> SUFFICES ASSUME MapRace, ~writing PROVE Administered({"lost"})'
      BY <1>1
  <2>1. PICK r \in Writers : TRUE
      BY DEF MapRace
  <2>2. r \in Requests /\ request[r].kind = "pool" /\ request[r].signature = "admin"
        /\ request[r].answer = "handling"
      BY DEF Writers, Handling, VerifySignature
  <2> QED
      BY <1>3, <2>2 DEF Administered
<1>6. NoRecords => writing' \/ Administered({"done"})'
  <2> SUFFICES ASSUME NoRecords, ~writing PROVE Administered({"done"})'
      BY <1>1
  <2>1. PICK r \in Requests : request[r].kind = "pool" /\ request[r].answer = "done"
      BY DEF NoRecords, Added
  <2>2. request[r].signature = "admin"
      BY <2>1 DEF IInv, AdminsServed, Changes
  <2> QED
      BY <1>3, <2>1, <2>2 DEF Administered
<1>7. /\ main = "drain" => ~pidFile
      /\ http = "closed" => main = "drain"
    BY DEF IInv, Progress
<1>8. EndsForReason'
    BY <1>1, <1>2, <1>5, <1>6, <1>7 DEF EndsForReason
<1> QED
    BY <1>3, <1>4, <1>8 DEF IInv

\* A signal ends the process only before WaitForKill listens.
LEMMA SignalKeeps == IInv /\ Signal => IInv'
<1> SUFFICES ASSUME IInv, Signal PROVE IInv'
    OBVIOUS
<1>1. UNCHANGED <<main, http, admins, pidFile, notified, failed, writing>> /\ ended = "no"
    BY DEF Signal, Up
<1>2. http = "closed" => main = "drain" /\ ~pidFile
    BY DEF IInv, EndsForReason
<1>3. CASE notified
  <2>1. ended' = "no" /\ request' = request
      BY <1>1, <1>3 DEF Signal
  <2>2. EndsForReason'
      BY <1>1, <1>2, <2>1 DEF EndsForReason
  <2> QED
      BY <1>1, <2>1, <2>2 DEF IInv, Types, Progress, Accepted, AdminsServed
<1>4. CASE ~notified
  <2>1. End("signal")
      BY <1>4 DEF Signal
  <2>2. ended' = "signal"
      BY <2>1 DEF End
  <2>3. request' \in [Requests -> Asked] /\ Accepted' /\ AdminsServed'
      BY <1>1, <2>1, EndLeaves DEF IInv
  <2>4. Types' /\ Progress'
      BY <1>1, <2>2, <2>3 DEF IInv, Types, Progress
  <2>5. EndsForReason'
      BY <1>1, <1>2, <1>4, <2>2 DEF EndsForReason
  <2> QED
      BY <2>3, <2>4, <2>5 DEF IInv
<1> QED
    BY <1>3, <1>4

\* Only an open port accepts, and by then the administrators are known.
LEMMA AcceptKeeps == \A r \in Requests : IInv /\ Accept(r) => IInv'
<1> SUFFICES ASSUME NEW r \in Requests, IInv, Accept(r) PROVE IInv'
    OBVIOUS
<1>1. UNCHANGED <<main, ended, http, admins, pidFile, notified, failed>> /\ admins /\ ended = "no"
    BY DEF Accept, Up, IInv, Types, Steps, Progress
<1>2. request \in [Requests -> Asked]
    BY DEF IInv, Types
<1>3. PICK s \in Sent : request' = [request EXCEPT ![r] = s]
    BY DEF Accept
<1>4. s \in Asked /\ s.answer = "handling"
    BY DEF Sent, Asked, Told
<1>5. request' \in [Requests -> Asked]
    BY <1>2, <1>3, <1>4
<1>6. Types' /\ Progress'
    BY <1>1, <1>5 DEF IInv, Types, Progress
<1>7. EndsForReason'
    BY <1>1 DEF IInv, EndsForReason
<1>8. Accepted'
    BY <1>1 DEF Accepted
<1>9. request'[r].answer = "handling" /\ \A q \in Requests \ {r} : request'[q] = request[q]
    BY <1>2, <1>3, <1>4
<1>10. AdminsServed'
    BY <1>9 DEF IInv, AdminsServed
<1> QED
    BY <1>6, <1>7, <1>8, <1>10 DEF IInv

\* A handler changes something for an administrator, and refuses anybody else.
LEMMA HandleKeeps == \A r \in Requests : IInv /\ Handle(r) => IInv'
<1> SUFFICES ASSUME NEW r \in Requests, IInv, Handle(r) PROVE IInv'
    OBVIOUS
<1>1. UNCHANGED <<main, ended, http, admins, pidFile, notified, failed>> /\ ended = "no"
    BY DEF Handle, Up
<1>2. request \in [Requests -> Asked] /\ request[r].answer = "handling" /\ admins
    BY DEF IInv, Types, Accepted, Handle
<1>3. PICK answer \in Answers(r) :
         request' = [request EXCEPT ![r] = [request[r] EXCEPT !.answer = answer]]
    BY <1>2 DEF Handle, Asked
<1>4. answer \in {"done", "forbidden", "error"}
    BY DEF Answers
<1>5. request[r] \in Asked /\ [request[r] EXCEPT !.answer = answer] \in Asked
    BY <1>2, <1>4 DEF Asked, Told
<1>6. request' \in [Requests -> Asked]
    BY <1>2, <1>3, <1>5
<1>7. Types' /\ Progress'
    BY <1>1, <1>6 DEF IInv, Types, Progress
<1>8. EndsForReason'
    BY <1>1 DEF IInv, EndsForReason
<1>9. Accepted'
    BY <1>1, <1>2 DEF Accepted
<1>10. /\ request'[r].answer = answer /\ request'[r].kind = request[r].kind
       /\ request'[r].signature = request[r].signature
       /\ \A q \in Requests \ {r} : request'[q] = request[q]
    BY <1>2, <1>3, <1>5 DEF Asked
<1>11. ASSUME request[r].kind \in Changes
       PROVE  /\ answer = "done" => request[r].signature = "admin"
              /\ answer = "forbidden" => request[r].signature # "admin"
  <2>0. request[r].kind # "days"
      BY <1>11 DEF Changes
  <2>1. CASE VerifySignature(r)
    <3>1. Answers(r) = {"done", "error"}
        BY <1>11, <2>0, <2>1 DEF Answers
    <3> QED
        BY <2>1, <3>1 DEF VerifySignature
  <2>2. CASE ~VerifySignature(r)
    <3>1. Answers(r) = {"forbidden"}
        BY <1>11, <2>0, <2>2 DEF Answers
    <3> QED
        BY <1>2, <2>2, <3>1 DEF VerifySignature, SignedByAddress
  <2> QED
      BY <2>1, <2>2
<1>12. AdminsServed'
    BY <1>10, <1>11 DEF IInv, AdminsServed
<1> QED
    BY <1>7, <1>8, <1>9, <1>12 DEF IInv

\* Every step keeps the invariant.
LEMMA StepInv == IInv /\ [Next]_vars => IInv'
<1>1. IInv /\ UNCHANGED vars => IInv'
    BY DEF IInv, vars, Types, Progress, Accepted, EndsForReason, Administered, AdminsServed
<1> QED
    BY <1>1, MainKeeps, EndKeeps, SignalKeeps, AcceptKeeps, HandleKeeps DEF Next

LEMMA Invariant == Spec => []IInv
    BY InitInv, StepInv, PTL DEF Spec

\* The program adds no step of its own to those of its two parts.
LEMMA BothParts == ProcessSpec => Spec /\ DaemonSpec
<1>1. ProcessInit => Init /\ DaemonInit
    BY DEF ProcessInit
<1>2. [ProcessNext]_processVars => [Next]_vars /\ [DaemonNext]_daemonVars
  <2> SUFFICES ASSUME [ProcessNext]_processVars PROVE [Next]_vars /\ [DaemonNext]_daemonVars
      OBVIOUS
  <2>1. CASE Supervise
      BY <2>1 DEF Supervise
  <2>2. CASE Launch
      BY <2>2 DEF Launch, DaemonNext
  <2>3. CASE Serve
      BY <2>3 DEF Serve, DaemonNext
  <2>4. CASE UNCHANGED processVars
      BY <2>4 DEF processVars
  <2> QED
      BY <2>1, <2>2, <2>3, <2>4 DEF ProcessNext
<1> QED
    BY <1>1, <1>2, PTL DEF ProcessSpec, Spec, DaemonSpec

\* The serving process ends for one of its reasons, whatever requests come and whenever
\* they do; those that a client can bring about are the two that the property names,
\* and they take an administrator (StartHttpServer, WaitForKill, gin.Recovery).
THEOREM ProcessEnds == ProcessSpec => []EndsForReason
<1>1. IInv => EndsForReason
    BY DEF IInv
<1> QED
    BY <1>1, BothParts, Invariant, PTL

\* Changes are made for administrators only, and none of them is refused: main
\* fills AdminAddresses before it opens the port.
THEOREM AdminsAreServed == ProcessSpec => []AdminsServed
<1>1. IInv => AdminsServed
    BY DEF IInv
<1> QED
    BY <1>1, BothParts, Invariant, PTL
-----------------------------------------------------------------------------
(* Daemon: one worker at a time. *)

Places == {"free", "begin", "check", "spawn", "wait", "serve", "gone"}
Procs == [env : Nat, runIdx : Nat, pc : Places, count : Nat, errNum : Nat,
          child : Pids \cup {NoPid}, age : Nat]

DaemonTypes ==
    /\ program \in {"background", "run"}
    /\ proc \in [Pids -> Procs]

\* The launcher and the process it started; who was started by the loop of Run.
Root(p) == proc[p].pc # "free" /\ proc[p].env < 2
Worker(p) == proc[p].pc # "free" /\ proc[p].env >= 2

\* There is one of each at most, and the former waits for the latter.
Family ==
    /\ \A p, q \in Pids : Root(p) /\ Root(q) => p = q
    /\ \A p, q \in Pids : Worker(p) /\ Worker(q) => p = q
    /\ \A p, q \in Pids : Root(p) /\ Worker(q) => proc[p].pc = "wait" /\ proc[p].child = q

\* Whoever waits has a child, and nobody else has one.
Waits(p) ==
    /\ proc[p].pc = "wait" => proc[p].child \in Pids /\ Worker(proc[p].child)
    /\ proc[p].child # NoPid => proc[p].pc = "wait"

\* The launcher or the supervisor: what runIdx is at each step.
RootAt(p) ==
    /\ gone = {} /\ proc[p].pc # "gone"
    /\ proc[p].pc = "begin" => proc[p].runIdx = 0
    /\ proc[p].pc \in {"check", "spawn", "wait"} =>
          program = "run" /\ proc[p].runIdx >= 1
    /\ proc[p].pc = "serve" => program = "background"

\* The worker: it makes its way from its start through the loop of Run to its service.
WorkerAt(p) ==
    /\ program = "run" /\ proc[p].pc # "wait"
    /\ proc[p].pc = "begin" => proc[p].runIdx = 0
    /\ proc[p].pc \in {"check", "spawn"} => proc[p].runIdx = 1
    /\ proc[p].pc \in {"begin", "check"} => proc[p].errNum = 0 /\ proc[p].count = 1

Roles == \A p \in Pids : Waits(p) /\ (Root(p) => RootAt(p)) /\ (Worker(p) => WorkerAt(p))

DaemonInv == DaemonTypes /\ Family /\ Roles
-----------------------------------------------------------------------------
LEMMA FreeIsProc ==
    /\ Free \in Procs
    /\ \A idx \in Nat : New(idx) \in Procs
BY DEF Free, New, Procs, Places

\* Somebody starts the program: there is a launcher and nobody else.
LEMMA DaemonInitInv == DaemonInit => DaemonInv
<1> SUFFICES ASSUME DaemonInit PROVE DaemonInv
    OBVIOUS
<1>1. PICK p \in Pids : proc = [q \in Pids |-> IF q = p THEN New(0) ELSE Free]
    BY DEF DaemonInit
<1>2. /\ proc[p].env = 0 /\ proc[p].runIdx = 0 /\ proc[p].pc = "begin"
      /\ proc[p].child = NoPid /\ proc[p].errNum = 0
      /\ \A q \in Pids \ {p} : proc[q].pc = "free" /\ proc[q].child = NoPid
    BY <1>1 DEF New, Free
<1>3. DaemonTypes
    BY <1>1, FreeIsProc, DaemonAssumption DEF DaemonInit, DaemonTypes
<1>4. \A q \in Pids : ~Worker(q) /\ (Root(q) => q = p)
    BY <1>2 DEF Worker, Root
<1>5. Family
    BY <1>4 DEF Family
<1>6. Roles
    BY <1>2, <1>4 DEF Roles, Waits, RootAt, DaemonInit
<1> QED
    BY <1>3, <1>5, <1>6 DEF DaemonInv, DaemonInit

\* What a process is told by counting: only the launcher and the supervisor's loop
\* start a process, and the supervisor's are workers.
LEMMA KnowsItself ==
    ASSUME DaemonInv, NEW p \in Pids
    PROVE  /\ Root(p) /\ proc[p].pc = "spawn" => ~IsSubProcess(p) /\ proc[p].runIdx + 1 >= 2
           /\ Worker(p) /\ proc[p].pc \in {"begin", "spawn"} => IsSubProcess(p)
           /\ Root(p) /\ proc[p].pc = "begin" => (IsSubProcess(p) <=> proc[p].env = 1)
<1> DEFINE n == proc[p].runIdx
           e == proc[p].env
<1>1. n \in Nat /\ e \in Nat
    BY DEF DaemonInv, DaemonTypes, Procs
<1>2. IsSubProcess(p) <=> n + 1 <= e
    BY DEF IsSubProcess
<1>3. Root(p) => e < 2 /\ RootAt(p)
    BY DEF DaemonInv, Roles, Root
<1>4. Worker(p) => e >= 2 /\ WorkerAt(p)
    BY DEF DaemonInv, Roles, Worker
<1>5. RootAt(p) => (proc[p].pc = "spawn" => n >= 1) /\ (proc[p].pc = "begin" => n = 0)
    BY DEF RootAt
<1>6. WorkerAt(p) => (proc[p].pc = "spawn" => n = 1) /\ (proc[p].pc = "begin" => n = 0)
    BY DEF WorkerAt
<1>7. /\ Root(p) /\ proc[p].pc = "spawn" => ~IsSubProcess(p) /\ n + 1 >= 2
      /\ Worker(p) /\ proc[p].pc \in {"begin", "spawn"} => IsSubProcess(p)
      /\ Root(p) /\ proc[p].pc = "begin" => (IsSubProcess(p) <=> e = 1)
  <2> HIDE DEF n, e
  <2> QED
      BY <1>1, <1>2, <1>3, <1>4, <1>5, <1>6
<1> QED
    BY <1>7

LEMMA RootOrWorker ==
    ASSUME DaemonTypes, NEW p \in Pids, proc[p].pc # "free"
    PROVE  (Root(p) \/ Worker(p)) /\ ~(Root(p) /\ Worker(p))
<1>1. proc[p].env \in Nat
    BY DEF DaemonTypes, Procs
<1>2. Root(p) <=> proc[p].env < 2
    BY DEF Root
<1>3. Worker(p) <=> proc[p].env >= 2
    BY DEF Worker
<1> QED
    BY <1>1, <1>2, <1>3

\* A step of one process that stays what it is, and neither had nor gets a child.
LEMMA OneMoves ==
    ASSUME DaemonInv, NEW p \in Pids, NEW me \in Procs,
           proc' = [proc EXCEPT ![p] = me],
           me.env = proc[p].env, me.pc # "free", proc[p].pc # "free",
           proc[p].pc # "wait", me.pc # "wait", me.child = NoPid,
           UNCHANGED <<program, gone>>, Root(p) => RootAt(p)', Worker(p) => WorkerAt(p)'
    PROVE  DaemonInv'
<1>1. /\ DaemonTypes /\ Family /\ Roles /\ proc \in [Pids -> Procs]
      /\ \A q \in Pids : Waits(q) /\ (Root(q) => RootAt(q)) /\ (Worker(q) => WorkerAt(q))
    BY DEF DaemonInv, DaemonTypes, Roles
<1>2. proc'[p] = me /\ \A q \in Pids \ {p} : proc'[q] = proc[q]
    BY <1>1
<1>3. \A q \in Pids : (Root(q)' <=> Root(q)) /\ (Worker(q)' <=> Worker(q))
    BY <1>2 DEF Root, Worker
<1>4. DaemonTypes'
    BY <1>1, <1>2 DEF DaemonTypes
<1>5. Family'
  <2>1. ASSUME NEW r \in Pids, NEW q \in Pids, Root(r), Worker(q)
        PROVE  proc'[r].pc = "wait" /\ proc'[r].child = q
    <3>1. proc[r].pc = "wait" /\ proc[r].child = q
        BY <1>1, <2>1 DEF Family
    <3>2. r # p
        BY <3>1
    <3> QED
        BY <1>2, <3>1, <3>2
  <2>2. /\ \A r, q \in Pids : Root(r)' /\ Root(q)' => r = q
        /\ \A r, q \in Pids : Worker(r)' /\ Worker(q)' => r = q
      BY <1>1, <1>3 DEF Family
  <2> QED
      BY <1>3, <2>1, <2>2 DEF Family
<1>6. \A q \in Pids : Waits(q)'
    BY <1>1, <1>2, <1>3 DEF Waits
<1>7. ASSUME NEW q \in Pids, Root(q)' PROVE RootAt(q)'
  <2>1. CASE q = p
      BY <1>3, <1>7, <2>1
  <2>2. CASE q # p
    <3>1. Root(q) /\ RootAt(q) /\ proc'[q] = proc[q]
        BY <1>1, <1>2, <1>3, <1>7, <2>2
    <3> QED
        BY <3>1 DEF RootAt
  <2> QED
      BY <2>1, <2>2
<1>8. ASSUME NEW q \in Pids, Worker(q)' PROVE WorkerAt(q)'
  <2>1. CASE q = p
      BY <1>3, <1>8, <2>1
  <2>2. CASE q # p
      BY <1>1, <1>2, <1>3, <1>8, <2>2 DEF WorkerAt
  <2> QED
      BY <2>1, <2>2
<1> QED
    BY <1>4, <1>5, <1>6, <1>7, <1>8 DEF DaemonInv, Roles

LEMMA CountedIs ==
    ASSUME NEW p \in Pids, proc[p] \in Procs
    PROVE  /\ Counted(p) \in Procs /\ Counted(p).env = proc[p].env
           /\ Counted(p).runIdx = proc[p].runIdx + 1 /\ Counted(p).count = proc[p].count
           /\ Counted(p).errNum = proc[p].errNum /\ Counted(p).child = proc[p].child
           /\ Counted(p).pc = proc[p].pc
<1> DEFINE me == [proc[p] EXCEPT !.runIdx = proc[p].runIdx + 1]
<1>1. proc[p].runIdx \in Nat
    BY DEF Procs
<1>2. Counted(p) = me
    BY DEF Counted
<1>3. /\ me \in Procs /\ me.env = proc[p].env
      /\ me.runIdx = proc[p].runIdx + 1 /\ me.count = proc[p].count
      /\ me.errNum = proc[p].errNum /\ me.child = proc[p].child /\ me.pc = proc[p].pc
    BY <1>1 DEF Procs
<1> QED
    BY <1>2, <1>3

\* The launcher or the supervisor goes, perhaps with what is left of its child.
LEMMA RootEnds ==
    ASSUME DaemonInv, NEW p \in Pids, Root(p),
           proc' \in [Pids -> Procs], proc'[p] = Free,
           \A q \in Pids : q # p => proc'[q] = proc[q] \/ proc'[q] = Free,
           UNCHANGED program
    PROVE  DaemonInv'
<1>1. /\ DaemonTypes /\ Family
      /\ \A q \in Pids : Waits(q) /\ (Root(q) => RootAt(q)) /\ (Worker(q) => WorkerAt(q))
    BY DEF DaemonInv, Roles
<1>2. ASSUME NEW q \in Pids PROVE proc'[q] = Free \/ (q # p /\ proc'[q] = proc[q])
  <2>1. CASE q = p
      BY <2>1
  <2>2. CASE q # p
      BY <2>2
  <2> QED
      BY <2>1, <2>2
<1>3. Free.pc = "free" /\ Free.child = NoPid
    BY DEF Free
<1>4. \A q \in Pids : ~Root(q)'
    BY <1>1, <1>2, <1>3 DEF Root, Family
<1>5. \A q \in Pids : Worker(q)' => Worker(q) /\ proc'[q] = proc[q]
    BY <1>2, <1>3 DEF Worker
<1>6. Family'
    BY <1>1, <1>4, <1>5 DEF Family
<1>7. ASSUME NEW q \in Pids PROVE Waits(q)'
  <2>1. CASE proc'[q] = Free
      BY <1>3, <2>1 DEF Waits
  <2>2. CASE q # p /\ proc'[q] = proc[q]
    <3>1. ~Root(q)
        BY <1>1, <2>2 DEF Family
    <3>2. proc[q].pc # "wait"
        BY <1>1, <3>1, RootOrWorker DEF WorkerAt
    <3> QED
        BY <1>1, <2>2, <3>2 DEF Waits
  <2> QED
      BY <1>2, <2>1, <2>2
<1>8. \A q \in Pids : Worker(q)' => WorkerAt(q)'
    BY <1>1, <1>5 DEF WorkerAt
<1>9. DaemonTypes'
    BY <1>1 DEF DaemonTypes
<1> QED
    BY <1>4, <1>6, <1>7, <1>8, <1>9 DEF DaemonInv, Roles

\* The first call of Background: the launcher starts a process and goes; a process
\* that was started, or that could start none, goes on.
LEMMA BackgroundExitKeeps ==
    ASSUME DaemonInv, NEW p \in Pids, BackgroundExit(p) PROVE DaemonInv'
<1>1. /\ DaemonTypes /\ Family /\ proc \in [Pids -> Procs] /\ proc[p] \in Procs
      /\ \A q \in Pids : Waits(q) /\ (Root(q) => RootAt(q)) /\ (Worker(q) => WorkerAt(q))
    BY DEF DaemonInv, DaemonTypes, Roles
<1>2. proc[p].pc = "begin" /\ proc[p].child = NoPid /\ UNCHANGED <<program, gone>>
    BY <1>1 DEF BackgroundExit, Waits
<1>3. Worker(p) => IsSubProcess(p)
    BY <1>2, KnowsItself
<1>4. CASE proc' = [proc EXCEPT ![p] = [Counted(p) EXCEPT !.pc = Next1]]
  <2> DEFINE me == [Counted(p) EXCEPT !.pc = Next1]
  <2>1. Next1 \in {"serve", "check"} /\ (program = "background" <=> Next1 = "serve")
      BY DEF Next1
  <2>2. /\ me \in Procs /\ me.env = proc[p].env /\ me.runIdx = proc[p].runIdx + 1
        /\ me.pc = Next1 /\ me.count = proc[p].count /\ me.errNum = proc[p].errNum
        /\ me.child = NoPid
    <3>1. /\ Counted(p) \in Procs /\ Counted(p).env = proc[p].env
          /\ Counted(p).runIdx = proc[p].runIdx + 1 /\ Counted(p).count = proc[p].count
          /\ Counted(p).errNum = proc[p].errNum /\ Counted(p).child = NoPid
        BY <1>1, <1>2, CountedIs
    <3>2. Next1 \in Places
        BY <2>1 DEF Places
    <3> QED
        BY <3>1, <3>2 DEF Procs
  <2>3. proc' = [proc EXCEPT ![p] = me] /\ proc'[p] = me
      BY <1>1, <1>4
  <2>4. program \in {"background", "run"}
      BY <1>1 DEF DaemonTypes
  <2> HIDE DEF me
  <2>5. ASSUME Root(p) PROVE RootAt(p)'
    <3>1. RootAt(p)
        BY <1>1, <2>5
    <3>2. /\ proc[p].runIdx = 0 /\ gone' = {}
          /\ program' = program
        BY <1>2, <3>1 DEF RootAt
    <3> QED
        BY <2>1, <2>2, <2>3, <2>4, <3>2 DEF RootAt
  <2>6. ASSUME Worker(p) PROVE WorkerAt(p)'
    <3>1. WorkerAt(p)
        BY <1>1, <2>6
    <3>2. /\ proc[p].runIdx = 0 /\ proc[p].errNum = 0 /\ proc[p].count = 1
          /\ program' = "run" /\ program = "run"
        BY <1>2, <3>1 DEF WorkerAt
    <3> QED
        BY <2>1, <2>2, <2>3, <3>2 DEF WorkerAt
  <2> QED
      BY <1>1, <1>2, <2>1, <2>2, <2>3, <2>5, <2>6, OneMoves
<1>5. CASE ~IsSubProcess(p) /\ StartProc(p, [Free EXCEPT !.runIdx = proc[p].runIdx + 1])
  <2> DEFINE me == [Free EXCEPT !.runIdx = proc[p].runIdx + 1]
  <2>1. Root(p)
      BY <1>1, <1>2, <1>3, <1>5, RootOrWorker
  <2>2. RootAt(p) /\ proc[p].runIdx = 0 /\ gone = {}
      BY <1>1, <1>2, <2>1 DEF RootAt
  <2>3. me \in Procs /\ me.pc = "free" /\ me.child = NoPid /\ me.runIdx = 1
      BY <2>2 DEF Free, Procs, Places
  <2>4. PICK c \in Pids :
           proc[c].pc = "free" /\ proc' = [proc EXCEPT ![p] = me, ![c] = New(me.runIdx)]
      BY <1>5, <2>3 DEF StartProc
  <2>5. /\ New(1) \in Procs /\ New(1).env = 1 /\ New(1).runIdx = 0 /\ New(1).pc = "begin"
        /\ New(1).child = NoPid /\ New(1).errNum = 0
      BY FreeIsProc DEF New, Free
  <2> HIDE DEF me
  <2>6. /\ c # p /\ proc' \in [Pids -> Procs] /\ proc'[p] = me /\ proc'[c] = New(1)
        /\ \A q \in Pids \ {p, c} : proc'[q] = proc[q]
      BY <1>1, <1>2, <2>3, <2>4, <2>5
  <2>7. \A q \in Pids : ~Worker(q) /\ (q # p => ~Root(q))
      BY <1>1, <1>2, <2>1 DEF Family
  <2>8. \A q \in Pids : ~Worker(q)' /\ (Root(q)' => q = c)
      BY <2>3, <2>5, <2>6, <2>7 DEF Worker, Root
  <2>9. Family'
      BY <2>8 DEF Family
  <2>10. ASSUME NEW q \in Pids PROVE Waits(q)'
    <3>1. proc[q].pc = "free" \/ q = p
        BY <1>1, <2>7, RootOrWorker
    <3>2. proc'[q].pc # "wait" /\ proc'[q].child = NoPid
        BY <1>1, <2>3, <2>5, <2>6, <3>1 DEF Waits
    <3> QED
        BY <3>2 DEF Waits
  <2>11. RootAt(c)'
      BY <1>2, <2>2, <2>5, <2>6 DEF RootAt
  <2>12. DaemonTypes'
      BY <1>1, <1>2, <2>6 DEF DaemonTypes
  <2> QED
      BY <1>1, <1>2, <2>8, <2>9, <2>10, <2>11, <2>12 DEF DaemonInv, Roles
<1> QED
    BY <1>4, <1>5 DEF BackgroundExit

\* The head of the loop: a supervisor may give up; a worker passes it.
LEMMA CheckKeeps ==
    ASSUME DaemonInv, NEW p \in Pids, Check(p) PROVE DaemonInv'
<1>1. /\ DaemonTypes /\ proc \in [Pids -> Procs] /\ proc[p] \in Procs
      /\ Waits(p) /\ (Root(p) => RootAt(p)) /\ (Worker(p) => WorkerAt(p))
    BY DEF DaemonInv, DaemonTypes, Roles
<1>2. proc[p].pc = "check" /\ proc[p].child = NoPid /\ UNCHANGED program
    BY <1>1 DEF Check, Waits
<1>3. Root(p) \/ Worker(p)
    BY <1>1, <1>2, RootOrWorker
<1>4. Worker(p) => proc[p].errNum = 0 /\ proc[p].count = 1 /\ proc[p].runIdx = 1
    BY <1>1, <1>2 DEF WorkerAt
<1>5. CASE proc' = [proc EXCEPT ![p] = Free]
           /\ (\/ proc[p].errNum > MaxError /\ gone' = gone \cup {"gave up"}
               \/ MaxCount > 0 /\ proc[p].count > MaxCount /\ gone' = gone \cup {"counted"})
  <2>1. ~(proc[p].errNum = 0 /\ proc[p].count = 1)
    <3>1. MaxError \in Nat /\ MaxCount \in Nat
        BY DaemonAssumption DEF DaemonAssumption
    <3>2. proc[p].errNum > MaxError \/ (MaxCount > 0 /\ proc[p].count > MaxCount)
        BY <1>5
    <3> QED
        BY <3>1, <3>2
  <2>2. Root(p) /\ RootAt(p)
      BY <1>1, <1>3, <1>4, <2>1
  <2>3. proc' \in [Pids -> Procs] /\ proc'[p] = Free
        /\ \A q \in Pids : q # p => proc'[q] = proc[q] \/ proc'[q] = Free
      BY <1>1, <1>5, FreeIsProc
  <2> QED
      BY <1>2, <2>2, <2>3, RootEnds
<1>6. CASE /\ proc' = [proc EXCEPT ![p].pc = "spawn",
                                   ![p].count = IF MaxCount > 0 THEN @ + 1 ELSE @]
           /\ UNCHANGED gone
  <2> DEFINE n == IF MaxCount > 0 THEN proc[p].count + 1 ELSE proc[p].count
             me == [proc[p] EXCEPT !.pc = "spawn", !.count = n]
  <2>1. n \in Nat
    <3>1. proc[p].count \in Nat
        BY <1>1 DEF Procs
    <3> QED
        BY <3>1
  <2>2. proc' = [proc EXCEPT ![p] = me]
      BY <1>1, <1>6 DEF Procs
  <2> HIDE DEF n
  <2>3. /\ me \in Procs /\ me.env = proc[p].env /\ me.runIdx = proc[p].runIdx
        /\ me.pc = "spawn" /\ me.errNum = proc[p].errNum /\ me.child = NoPid
      BY <1>1, <1>2, <2>1 DEF Procs, Places
  <2> HIDE DEF me
  <2>4. proc'[p] = me
      BY <1>1, <2>2
  <2>5. Root(p) => RootAt(p)'
      BY <1>1, <1>2, <1>6, <2>3, <2>4 DEF RootAt
  <2>6. Worker(p) => WorkerAt(p)'
      BY <1>1, <1>2, <1>4, <2>3, <2>4 DEF WorkerAt
  <2> QED
      BY <1>1, <1>2, <1>6, <2>2, <2>3, <2>5, <2>6, OneMoves
<1> QED
    BY <1>5, <1>6 DEF Check

\* The worker leaves the loop; the supervisor starts one and waits for it, or counts
\* that it could not.
LEMMA BackgroundKeeps ==
    ASSUME DaemonInv, NEW p \in Pids, Background(p) PROVE DaemonInv'
<1>1. /\ DaemonTypes /\ Family /\ proc \in [Pids -> Procs] /\ proc[p] \in Procs
      /\ \A q \in Pids : Waits(q) /\ (Root(q) => RootAt(q)) /\ (Worker(q) => WorkerAt(q))
    BY DEF DaemonInv, DaemonTypes, Roles
<1>2. proc[p].pc = "spawn" /\ proc[p].child = NoPid /\ UNCHANGED <<program, gone>>
    BY <1>1 DEF Background, Waits
<1>3. (Root(p) \/ Worker(p)) /\ ~(Root(p) /\ Worker(p))
    BY <1>1, <1>2, RootOrWorker
<1>4. (Root(p) => ~IsSubProcess(p) /\ proc[p].runIdx + 1 >= 2) /\ (Worker(p) => IsSubProcess(p))
    BY <1>2, KnowsItself
<1>5. CASE /\ IsSubProcess(p)
           /\ proc' = [proc EXCEPT ![p] = [Counted(p) EXCEPT !.pc = "serve"]]
  <2> DEFINE me == [Counted(p) EXCEPT !.pc = "serve"]
  <2>1. Worker(p) /\ ~Root(p)
      BY <1>3, <1>4, <1>5
  <2>2. /\ me \in Procs /\ me.env = proc[p].env /\ me.pc = "serve" /\ me.child = NoPid
      BY <1>1, <1>2, CountedIs DEF Procs, Places
  <2>3. proc' = [proc EXCEPT ![p] = me]
      BY <1>5
  <2> HIDE DEF me
  <2>4. proc'[p] = me /\ WorkerAt(p)
      BY <1>1, <2>1, <2>3
  <2>5. WorkerAt(p)'
      BY <1>2, <2>2, <2>4 DEF WorkerAt
  <2> QED
      BY <1>1, <1>2, <2>1, <2>2, <2>3, <2>5, OneMoves
<1>6. CASE /\ ~IsSubProcess(p)
           /\ proc' = [proc EXCEPT ![p] =
                          [Counted(p) EXCEPT !.pc = "check", !.errNum = @ + 1]]
  <2> DEFINE n == proc[p].errNum + 1
             me == [Counted(p) EXCEPT !.pc = "check", !.errNum = n]
  <2>1. Root(p) /\ ~Worker(p) /\ RootAt(p)
      BY <1>1, <1>3, <1>4, <1>6
  <2>2. program = "run" /\ gone = {} /\ proc[p].runIdx >= 1
      BY <1>2, <2>1 DEF RootAt
  <2>3. n \in Nat /\ proc[p].runIdx \in Nat
      BY <1>1 DEF Procs
  <2>4. proc' = [proc EXCEPT ![p] = me]
      BY <1>1, <1>6, CountedIs
  <2> HIDE DEF n
  <2>5. Counted(p) \in Procs
      BY <1>1, CountedIs
  <2>6. /\ me \in Procs /\ me.env = Counted(p).env /\ me.pc = "check"
        /\ me.child = Counted(p).child /\ me.runIdx = Counted(p).runIdx
      BY <2>3, <2>5 DEF Procs, Places
  <2> HIDE DEF me
  <2>7. /\ me.env = proc[p].env /\ me.child = NoPid
        /\ me.runIdx = proc[p].runIdx + 1
      BY <1>1, <1>2, <2>6, CountedIs
  <2>8. proc'[p] = me
      BY <1>1, <2>4
  <2>9. RootAt(p)'
    <3>1. gone' = {} /\ program' = "run"
        BY <1>2, <2>2
    <3>2. proc'[p].pc = "check" /\ proc'[p].runIdx >= 1
        BY <2>2, <2>3, <2>6, <2>7, <2>8
    <3> QED
        BY <3>1, <3>2 DEF RootAt
  <2> QED
      BY <1>1, <1>2, <2>1, <2>4, <2>6, <2>7, <2>9, OneMoves
<1>7. CASE /\ ~IsSubProcess(p) /\ StartProc(p, [Counted(p) EXCEPT !.pc = "wait"])
  <2> DEFINE me == [Counted(p) EXCEPT !.pc = "wait"]
             idx == proc[p].runIdx + 1
  <2>1. Root(p) /\ RootAt(p) /\ idx >= 2
      BY <1>1, <1>3, <1>4, <1>7
  <2>2. /\ program = "run" /\ gone = {} /\ proc[p].runIdx \in Nat
        /\ idx \in Nat
      BY <1>1, <1>2, <2>1 DEF RootAt, Procs
  <2>3. me.pc = "wait" /\ me.runIdx = idx
      BY <1>1, CountedIs DEF Procs
  <2>4. PICK c \in Pids :
           /\ proc[c].pc = "free"
           /\ proc' = [proc EXCEPT ![p] = [me EXCEPT !.child = c], ![c] = New(idx)]
      BY <1>7, <2>3 DEF StartProc
  <2> DEFINE boss == [me EXCEPT !.child = c]
  <2>5. /\ boss \in Procs /\ boss.env = proc[p].env /\ boss.runIdx = idx /\ boss.pc = "wait"
        /\ boss.errNum = proc[p].errNum /\ boss.child = c
      BY <1>1, CountedIs DEF Procs, Places
  <2>6. /\ New(idx) \in Procs /\ New(idx).env = idx /\ New(idx).runIdx = 0
        /\ New(idx).pc = "begin" /\ New(idx).child = NoPid /\ New(idx).errNum = 0
        /\ New(idx).count = 1
      BY <2>2, FreeIsProc DEF New, Free
  <2>7. proc' = [proc EXCEPT ![p] = boss, ![c] = New(idx)] /\ c # p
      BY <1>2, <2>4
  <2> HIDE DEF me, boss, idx
  <2>8. /\ proc' \in [Pids -> Procs] /\ proc'[p] = boss /\ proc'[c] = New(idx)
        /\ \A q \in Pids : q # p /\ q # c => proc'[q] = proc[q]
      BY <1>1, <2>5, <2>6, <2>7
  <2>9. \A q \in Pids : ~Worker(q) /\ (q # p => ~Root(q))
      BY <1>1, <1>2, <2>1 DEF Family
  <2>10. ASSUME NEW q \in Pids, q # p, q # c
         PROVE  proc'[q].pc = "free" /\ proc'[q].child = NoPid
    <3>1. proc[q].pc = "free"
        BY <1>1, <2>9, <2>10, RootOrWorker
    <3> QED
        BY <1>1, <2>8, <2>10, <3>1 DEF Waits
  <2>11. Root(p)' /\ ~Worker(p)'
      BY <1>3, <2>1, <2>5, <2>8 DEF Root, Worker
  <2>12. Worker(c)' /\ ~Root(c)'
      BY <2>1, <2>2, <2>6, <2>8 DEF Root, Worker
  <2>13. \A q \in Pids : (Root(q)' <=> q = p) /\ (Worker(q)' <=> q = c)
      BY <2>7, <2>10, <2>11, <2>12 DEF Root, Worker
  <2>14. Family'
      BY <2>5, <2>8, <2>13 DEF Family
  <2>15. ASSUME NEW q \in Pids PROVE Waits(q)'
    <3>1. CASE q = p
        BY <2>5, <2>8, <2>12, <3>1 DEF Waits
    <3>2. CASE q = c
        BY <2>6, <2>8, <3>2 DEF Waits
    <3>3. CASE q # p /\ q # c
        BY <2>10, <3>3 DEF Waits
    <3> QED
        BY <3>1, <3>2, <3>3
  <2>16. RootAt(p)'
      BY <1>2, <1>7, <2>1, <2>2, <2>5, <2>8 DEF RootAt
  <2>17. WorkerAt(c)'
      BY <1>2, <2>2, <2>6, <2>8 DEF WorkerAt
  <2>18. DaemonTypes'
      BY <1>1, <1>2, <1>7, <2>8 DEF DaemonTypes
  <2> QED
      BY <1>1, <1>2, <1>7, <2>13, <2>14, <2>15, <2>16, <2>17, <2>18 DEF DaemonInv, Roles
<1> QED
    BY <1>5, <1>6, <1>7 DEF Background, Fault

\* Wait returns: the supervisor is alone, and goes back to the head of its loop.
LEMMA WaitKeeps ==
    ASSUME DaemonInv, NEW p \in Pids, Wait(p) PROVE DaemonInv'
<1> DEFINE c == proc[p].child
           brief == proc[c].age < MinExitTime
           n == IF brief THEN proc[p].errNum + 1 ELSE 0
           me == [proc[p] EXCEPT !.pc = "check", !.child = NoPid, !.errNum = n]
<1>1. /\ DaemonTypes /\ Family /\ proc \in [Pids -> Procs] /\ proc[p] \in Procs
      /\ \A q \in Pids : Waits(q) /\ (Root(q) => RootAt(q)) /\ (Worker(q) => WorkerAt(q))
    BY DEF DaemonInv, DaemonTypes, Roles
<1>2. proc[p].pc = "wait" /\ UNCHANGED <<program, gone>>
    BY DEF Wait
<1>3. c \in Pids /\ Worker(c)
    BY <1>1, <1>2 DEF Waits
<1>4. Root(p) /\ RootAt(p) /\ ~Worker(p) /\ ~Root(c)
    BY <1>1, <1>2, <1>3, RootOrWorker DEF WorkerAt, Worker
<1>5. /\ gone = {} /\ program = "run" /\ proc[p].runIdx >= 1
    BY <1>2, <1>4 DEF RootAt
<1>6. c # p
    BY <1>3, <1>4
<1>7. n \in Nat
    BY <1>1 DEF Procs
<1>8. proc' = [proc EXCEPT ![p].pc = "check", ![p].child = NoPid, ![p].errNum = n, ![c] = Free]
    BY <1>1 DEF Wait, Procs
<1> HIDE DEF n, brief
<1>9. /\ me \in Procs /\ me.env = proc[p].env /\ me.pc = "check" /\ me.child = NoPid
      /\ me.errNum = n /\ me.runIdx = proc[p].runIdx
    BY <1>1, <1>7 DEF Procs, Places
<1>10. proc' = [proc EXCEPT ![p] = me, ![c] = Free]
    BY <1>1, <1>3, <1>6, <1>8 DEF Procs
<1> HIDE DEF me, c
<1>11. /\ proc' \in [Pids -> Procs] /\ proc'[p] = me /\ proc'[c] = Free
       /\ \A q \in Pids : q # p /\ q # c => proc'[q] = proc[q]
    BY <1>1, <1>3, <1>6, <1>9, <1>10, FreeIsProc
<1>12. Free.pc = "free" /\ Free.child = NoPid
    BY DEF Free
<1>13. Root(p)'
    BY <1>4, <1>9, <1>11 DEF Root
<1>14. ASSUME NEW q \in Pids, q # p PROVE proc'[q].pc = "free" /\ proc'[q].child = NoPid
  <2>1. CASE q = c
      BY <1>11, <1>12, <2>1
  <2>2. CASE q # c
    <3>1. ~Root(q) /\ ~Worker(q)
        BY <1>1, <1>3, <1>4, <1>14, <2>2 DEF Family
    <3>2. proc[q].pc = "free"
        BY <1>1, <3>1, RootOrWorker
    <3>3. proc[q].child = NoPid
        BY <1>1, <3>2 DEF Waits
    <3> QED
        BY <1>11, <1>14, <2>2, <3>2, <3>3
  <2> QED
      BY <2>1, <2>2
<1>15. \A q \in Pids : ~Worker(q)' /\ (Root(q)' => q = p)
    BY <1>4, <1>9, <1>11, <1>14 DEF Worker, Root
<1>16. Family'
    BY <1>15 DEF Family
<1>17. \A q \in Pids : Waits(q)'
    BY <1>9, <1>11, <1>14 DEF Waits
<1>18. RootAt(p)'
  <2>1. gone' = {} /\ program' = "run"
      BY <1>2, <1>5
  <2> QED
      BY <1>5, <1>9, <1>11, <2>1 DEF RootAt
<1>19. DaemonTypes'
    BY <1>1, <1>2, <1>7, <1>11 DEF DaemonTypes
<1> QED
    BY <1>2, <1>5, <1>15, <1>16, <1>17, <1>18, <1>19 DEF DaemonInv, Roles

\* Processes only get older.
LEMMA TickKeeps == ASSUME DaemonInv, Tick PROVE DaemonInv'
<1>1. /\ DaemonTypes /\ Family /\ Roles /\ proc \in [Pids -> Procs]
    BY DEF DaemonInv, DaemonTypes
<1>2. UNCHANGED <<program, gone>>
    BY DEF Tick
<1>3. ASSUME NEW q \in Pids
      PROVE  /\ proc'[q] \in Procs /\ proc'[q].env = proc[q].env
             /\ proc'[q].runIdx = proc[q].runIdx /\ proc'[q].pc = proc[q].pc
             /\ proc'[q].count = proc[q].count /\ proc'[q].errNum = proc[q].errNum
             /\ proc'[q].child = proc[q].child
  <2> DEFINE older == [proc[q] EXCEPT !.age = @ + 1]
  <2>1. proc'[q] = proc[q] \/ proc'[q] = older
      BY DEF Tick
  <2>2. proc[q] \in Procs
      BY <1>1
  <2>3. /\ older \in Procs /\ older.env = proc[q].env
        /\ older.runIdx = proc[q].runIdx /\ older.pc = proc[q].pc
        /\ older.count = proc[q].count /\ older.errNum = proc[q].errNum
        /\ older.child = proc[q].child
      BY <2>2 DEF Procs
  <2> HIDE DEF older
  <2> QED
      BY <2>1, <2>2, <2>3
<1>4. proc' \in [Pids -> Procs]
  <2>1. \E f : proc' = [q \in Pids |-> f[q]]
    <3>1. proc' = [q \in Pids |-> proc'[q]]
        BY DEF Tick
    <3> QED
        BY <3>1
  <2> QED
      BY <1>3, <2>1
<1>5. DaemonTypes'
    BY <1>1, <1>2, <1>4 DEF DaemonTypes
<1>6. \A q \in Pids : (Root(q)' <=> Root(q)) /\ (Worker(q)' <=> Worker(q))
    BY <1>3 DEF Root, Worker
<1>7. Family'
    BY <1>1, <1>3, <1>6 DEF Family
<1>8. ASSUME NEW q \in Pids
      PROVE  Waits(q)' /\ (Root(q)' => RootAt(q)') /\ (Worker(q)' => WorkerAt(q)')
  <2>1. Waits(q) /\ (Root(q) => RootAt(q)) /\ (Worker(q) => WorkerAt(q))
      BY <1>1 DEF Roles
  <2>2. Waits(q)'
      BY <1>3, <1>6, <2>1 DEF Waits
  <2>3. RootAt(q) => RootAt(q)'
      BY <1>2, <1>3 DEF RootAt
  <2>4. WorkerAt(q) => WorkerAt(q)'
      BY <1>2, <1>3 DEF WorkerAt
  <2> QED
      BY <1>6, <2>1, <2>2, <2>3, <2>4
<1> QED
    BY <1>1, <1>2, <1>5, <1>7, <1>8 DEF DaemonInv, Roles

\* Who serves goes away: the worker of a supervisor, which still has to notice, an
\* orphan, or the process of a launch without a supervisor.
LEMMA ExitKeeps == ASSUME DaemonInv, NEW p \in Pids, Exit(p) PROVE DaemonInv'
<1>1. /\ DaemonTypes /\ Family /\ proc \in [Pids -> Procs] /\ proc[p] \in Procs
      /\ \A q \in Pids : Waits(q) /\ (Root(q) => RootAt(q)) /\ (Worker(q) => WorkerAt(q))
    BY DEF DaemonInv, DaemonTypes, Roles
<1>2. proc[p].pc = "serve" /\ proc[p].child = NoPid /\ UNCHANGED <<program, gone>>
    BY <1>1 DEF Exit, Waits
<1>3. (Root(p) \/ Worker(p)) /\ ~(Root(p) /\ Worker(p))
    BY <1>1, <1>2, RootOrWorker
<1>4. ASSUME NEW q \in Pids, proc[q].child = p PROVE Root(q) /\ Worker(p)
  <2>1. p # NoPid
      BY DaemonAssumption DEF DaemonAssumption
  <2>2. proc[q].pc = "wait" /\ Worker(p)
      BY <1>1, <1>4, <2>1 DEF Waits
  <2>3. ~Worker(q)
      BY <1>1, <2>2 DEF WorkerAt
  <2> QED
      BY <1>1, <2>2, <2>3, RootOrWorker
<1>5. CASE WaitedFor(p)
  <2> DEFINE me == [proc[p] EXCEPT !.pc = "gone"]
  <2>1. Worker(p) /\ ~Root(p) /\ WorkerAt(p)
      BY <1>1, <1>3, <1>4, <1>5 DEF WaitedFor
  <2>2. me \in Procs /\ me.env = proc[p].env /\ me.pc = "gone" /\ me.child = NoPid
      BY <1>1, <1>2 DEF Procs, Places
  <2>3. proc' = [proc EXCEPT ![p] = me]
      BY <1>1, <1>5 DEF Exit
  <2> HIDE DEF me
  <2>4. proc'[p] = me
      BY <1>1, <2>3
  <2>5. WorkerAt(p)'
      BY <1>2, <2>1, <2>2, <2>4 DEF WorkerAt
  <2> QED
      BY <1>1, <1>2, <2>1, <2>2, <2>3, <2>5, OneMoves
<1>6. CASE ~WaitedFor(p)
  <2>1. proc' \in [Pids -> Procs] /\ proc'[p] = Free
        /\ \A q \in Pids : q # p => proc'[q] = proc[q]
      BY <1>1, <1>6, FreeIsProc DEF Exit
  <2>2. CASE Root(p)
      BY <1>1, <1>2, <2>1, <2>2, RootEnds
  <2>3. CASE Worker(p)
    <3>1. Free.pc = "free" /\ Free.child = NoPid
        BY DEF Free
    <3>2. \A q \in Pids : q # p => (Root(q)' <=> Root(q)) /\ (Worker(q)' <=> Worker(q))
        BY <2>1 DEF Root, Worker
    <3>3. ~Root(p)' /\ ~Worker(p)'
        BY <2>1, <3>1 DEF Root, Worker
    <3>4. \A q \in Pids : ~Worker(q)'
        BY <1>1, <2>3, <3>2, <3>3 DEF Family
    <3>5. \A q \in Pids : Root(q)' => q # p /\ Root(q)
        BY <3>2, <3>3
    <3>6. Family'
        BY <1>1, <3>4, <3>5 DEF Family
    <3>7. \A q \in Pids : proc[q].child # p
        BY <1>6 DEF WaitedFor
    <3>8. ASSUME NEW q \in Pids PROVE Waits(q)'
      <4>1. CASE q = p
          BY <2>1, <3>1, <4>1 DEF Waits
      <4>2. CASE q # p
        <5>1. proc'[q] = proc[q]
            BY <2>1, <4>2
        <5>2. proc[q].pc # "wait"
          <6>1. SUFFICES ASSUME proc[q].pc = "wait" PROVE FALSE
              OBVIOUS
          <6>2. proc[q].child \in Pids /\ Worker(proc[q].child)
              BY <1>1, <6>1 DEF Waits
          <6> QED
              BY <1>1, <2>3, <3>7, <6>2 DEF Family
        <5> QED
            BY <1>1, <5>1, <5>2 DEF Waits
      <4> QED
          BY <4>1, <4>2
    <3>9. \A q \in Pids : Root(q)' => RootAt(q)'
        BY <1>1, <1>2, <2>1, <3>5 DEF RootAt
    <3>10. DaemonTypes'
        BY <1>1, <1>2, <2>1 DEF DaemonTypes
    <3> QED
        BY <1>1, <1>2, <3>4, <3>6, <3>8, <3>9, <3>10 DEF DaemonInv, Roles
  <2> QED
      BY <1>3, <2>2, <2>3
<1> QED
    BY <1>5, <1>6

\* The supervisor is killed: nobody follows it.
LEMMA KillKeeps == ASSUME DaemonInv, NEW p \in Pids, Kill(p) PROVE DaemonInv'
<1>1. proc \in [Pids -> Procs]
    BY DEF DaemonInv, DaemonTypes
<1>2. Root(p) /\ UNCHANGED program
    BY DEF Kill, Root
<1>3. \A q \in Pids : proc'[q] = Free \/ (q # p /\ proc'[q] = proc[q])
    BY DEF Kill
<1>4. proc'[p] = Free
    BY <1>3
<1>5. proc' \in [Pids -> Procs]
    BY <1>1, FreeIsProc DEF Kill
<1> QED
    BY <1>2, <1>3, <1>4, <1>5, RootEnds

\* Every step keeps the invariant.
LEMMA DaemonStepInv == DaemonInv /\ [DaemonNext]_daemonVars => DaemonInv'
<1> SUFFICES ASSUME DaemonInv, [DaemonNext]_daemonVars PROVE DaemonInv'
    OBVIOUS
<1>1. CASE UNCHANGED daemonVars
  <2>1. UNCHANGED <<program, proc, gone>>
      BY <1>1 DEF daemonVars
  <2>2. DaemonTypes'
      BY <2>1 DEF DaemonInv, DaemonTypes
  <2>3. Family'
      BY <2>1 DEF DaemonInv, Family, Root, Worker
  <2>4. Roles'
      BY <2>1 DEF DaemonInv, Roles, Waits, Root, Worker, RootAt, WorkerAt
  <2> QED
      BY <2>2, <2>3, <2>4 DEF DaemonInv
<1>2. CASE DaemonNext
    BY <1>2, BackgroundExitKeeps, CheckKeeps, BackgroundKeeps, WaitKeeps, TickKeeps, ExitKeeps,
       KillKeeps DEF DaemonNext
<1> QED
    BY <1>1, <1>2

LEMMA DaemonInvariant == DaemonSpec => []DaemonInv
    BY DaemonInitInv, DaemonStepInv, PTL DEF DaemonSpec

\* One launch leads to one worker at a time, whatever goes away and whatever cannot be
\* started: Background and Run of daemon.go.
THEOREM OneWorkerServes == ProcessSpec => []OneWorker
<1>1. DaemonInv => OneWorker
  <2> SUFFICES ASSUME DaemonInv PROVE OneWorker
      OBVIOUS
  <2>1. /\ DaemonTypes /\ Family /\ proc \in [Pids -> Procs]
        /\ \A q \in Pids : Waits(q) /\ (Root(q) => RootAt(q)) /\ (Worker(q) => WorkerAt(q))
      BY DEF DaemonInv, DaemonTypes, Roles
  <2>2. ASSUME NEW p \in Serving, NEW q \in Serving PROVE p = q
    <3>1. p \in Pids /\ q \in Pids /\ proc[p].pc = "serve" /\ proc[q].pc = "serve"
        BY DEF Serving
    <3>2. (Root(p) \/ Worker(p)) /\ (Root(q) \/ Worker(q))
        BY <2>1, <3>1, RootOrWorker
    <3> QED
        BY <2>1, <3>1, <3>2 DEF Family
  <2>3. Cardinality(Serving) <= 1
    <3>1. CASE Serving = {}
        BY <3>1, FS_EmptySet
    <3>2. CASE Serving # {}
      <4>1. PICK p : Serving = {p}
          BY <2>2, <3>2
      <4>2. Cardinality({p}) = 1
          BY FS_Singleton
      <4> QED
          BY <4>1, <4>2
    <3> QED
        BY <3>1, <3>2
  <2>4. ASSUME NEW p \in Pids, proc[p].child # NoPid
        PROVE  /\ proc[p].pc = "wait" /\ proc[proc[p].child].env >= 2
               /\ Serving \subseteq {proc[p].child}
    <3>1. proc[p].pc = "wait" /\ proc[p].child \in Pids /\ Worker(proc[p].child)
        BY <2>1, <2>4 DEF Waits
    <3>2. Root(p)
        BY <2>1, <3>1, RootOrWorker DEF WorkerAt
    <3>3. ASSUME NEW q \in Serving PROVE q = proc[p].child
      <4>1. q \in Pids /\ proc[q].pc = "serve"
          BY DEF Serving
      <4>2. ~Root(q)
          BY <2>1, <3>1, <3>2, <4>1 DEF Family
      <4>3. Worker(q)
          BY <2>1, <4>1, <4>2, RootOrWorker
      <4> QED
          BY <2>1, <3>1, <4>1, <4>3 DEF Family
    <3> QED
        BY <3>1, <3>3 DEF Worker
  <2> QED
      BY <2>3, <2>4 DEF OneWorker
<1> QED
    BY <1>1, BothParts, DaemonInvariant, PTL
=============================================================================
