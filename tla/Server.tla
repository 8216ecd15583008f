------------------------------- MODULE Server -------------------------------
(***************************************************************************)
(* The life of the serving process: main.go with the configuration to its  *)
(* end, the goroutine of the HTTP server and the stop (api/router.go),     *)
(* WaitForKill (daemon/daemon.go), and what becomes of the requests that   *)
(* come at any time of it (api/*.go, middleware/verify.go, gin.Recovery).  *)
(* Of the goroutines service.Start leaves behind only what may end the     *)
(* process is here: a reader whose first call fails, a write to a map that *)
(* others read without a lock, and a pool that has no records.             *)
(***************************************************************************)
EXTENDS Integers, FiniteSets

CONSTANTS
    Requests,    \* bound: the requests clients send
    MaxSignals,  \* bound: SIGTERM or SIGINT sent by somebody
    StopTime     \* ticks the stop waits for the requests: 3 seconds

ASSUME ServerAssumption == IsFiniteSet(Requests) /\ MaxSignals \in Nat /\ StopTime \in Nat \ {0}

VARIABLES
    main,      \* the step main is at
    ended,     \* how the process ended: "no", "panic", "race", "fatal", "signal" or "ok"
    http,      \* the goroutine: "none", "start", "serve", "unbound" or "closed"
    admins,    \* AdminAddresses is filled
    maps,      \* service.Start has made its maps
    writing,   \* a goroutine of the service adds a pool or a token to the maps
    pidFile,   \* process.pid and stop.sh exist
    notified,  \* signals go to the channel
    signals,   \* signals sent; those sent after Notify wait in the channel
    waited,    \* ticks Shutdown has waited
    request,   \* the requests
    \* history variables
    failed     \* a step of the start, or the first call of a reader, failed

vars == <<main, ended, http, admins, maps, writing, pidFile, notified, signals, waited, request, failed>>

Up == ended = "no"

\* What a client asks: something answered from memory or the database, the counted
\* days of a pool, or of an administrator to add a pool or to change a flag.
Kinds == {"read", "days", "pool", "flag"}
Changes == {"pool", "flag"}
Signatures == {"admin", "stranger", "wrong", "expired"}
Sent == {s \in [kind : Kinds, signature : Signatures, answer : {"handling"}] :
            s.kind \notin Changes => s.signature = "wrong"}
NotSent == [kind |-> "read", signature |-> "wrong", answer |-> "none"]

\* (A name that extends the name of the definition below it is that definition
\* with a plausible bug; the specification never uses it.)

Init ==
    /\ main = "config" /\ ended = "no" /\ http = "none"
    /\ admins = FALSE /\ maps = FALSE /\ writing = FALSE /\ pidFile = FALSE /\ notified = FALSE
    /\ signals = 0 /\ waited = 0
    /\ request = [r \in Requests |-> NotSent]
    /\ failed = FALSE
-----------------------------------------------------------------------------
(* main *)

\* The process is gone, and nobody answers its clients.
End(how) ==
    /\ ended' = how
    /\ request' = [r \in Requests |->
          IF request[r].answer = "handling" THEN [request[r] EXCEPT !.answer = "lost"]
          ELSE request[r]]

\* The configuration, CreateLogFiles, ConnectToMysql, InitRouter and service.Start
\* panic when they fail, and so does, later, a reader that cannot dial the node.
StartFails ==
    /\ Up
    /\ main \in {"config", "logs", "mysql", "listen", "service"} \/ maps
    /\ failed' = TRUE
    /\ End("panic")
    /\ UNCHANGED <<main, http, admins, maps, writing, pidFile, notified, signals, waited>>

Step(from, to) ==
    /\ Up /\ main = from /\ main' = to

\* The package config reads its file before main begins.
ReadConfig ==
    /\ Step("config", "logs")
    /\ UNCHANGED <<ended, http, admins, maps, writing, pidFile, notified, signals, waited, request, failed>>

\* CreateLogFiles, then ConnectToMysql.
CreateLogFiles ==
    /\ Step("logs", "mysql")
    /\ UNCHANGED <<ended, http, admins, maps, writing, pidFile, notified, signals, waited, request, failed>>

ConnectToMysqlOpensServer ==
    /\ Step("mysql", "admins") /\ http' = "start"
    /\ UNCHANGED <<ended, admins, maps, writing, pidFile, notified, signals, waited, request, failed>>
ConnectToMysql ==
    /\ Step("mysql", "admins")
    /\ UNCHANGED <<ended, http, admins, maps, writing, pidFile, notified, signals, waited, request, failed>>

AddAdmins ==
    /\ Step("admins", "listen")
    /\ admins' = TRUE
    /\ UNCHANGED <<ended, http, maps, writing, pidFile, notified, signals, waited, request, failed>>

\* The goroutine is started; nothing waits for it.
StartHttpServer ==
    /\ Step("listen", "service")
    /\ http' = "start"
    /\ UNCHANGED <<ended, admins, maps, writing, pidFile, notified, signals, waited, request, failed>>

\* service.Start: the maps first; then, for as long as it takes, the pools, the
\* prices and the fees.
MakeMaps ==
    /\ Up /\ main = "service" /\ ~maps
    /\ maps' = TRUE
    /\ UNCHANGED <<main, ended, http, admins, writing, pidFile, notified, signals, waited, request, failed>>

ServiceStarted ==
    /\ maps /\ Step("service", "files")
    /\ UNCHANGED <<ended, http, admins, maps, writing, pidFile, notified, signals, waited, request, failed>>

\* WaitForKill: the files, the channel, the signal; then the files are removed.
WriteFiles ==
    /\ Step("files", "notify")
    /\ pidFile' = TRUE
    /\ UNCHANGED <<ended, http, admins, maps, writing, notified, signals, waited, request, failed>>

Notify ==
    /\ Step("notify", "wait")
    /\ notified' = TRUE /\ signals' = 0
    /\ UNCHANGED <<ended, http, admins, maps, writing, pidFile, waited, request, failed>>

Stopped ==
    /\ signals > 0 /\ Step("wait", "shutdown")
    /\ pidFile' = FALSE
    /\ UNCHANGED <<ended, http, admins, maps, writing, notified, signals, waited, request, failed>>

\* StopHttpServer: Shutdown closes the listener ...
CloseListener ==
    /\ Step("shutdown", "drain")
    /\ http' = IF http \in {"start", "serve"} THEN "closed" ELSE http
    /\ UNCHANGED <<ended, admins, maps, writing, pidFile, notified, signals, waited, request, failed>>

Handling == {r \in Requests : request[r].answer = "handling"}

\* ... waits until no request is being answered, and main returns; or ...
Drained ==
    /\ Up /\ main = "drain" /\ Handling = {}
    /\ End("ok")
    /\ UNCHANGED <<main, http, admins, maps, writing, pidFile, notified, signals, waited, failed>>

WaitRequests ==
    /\ Up /\ main = "drain" /\ Handling # {} /\ waited < StopTime
    /\ waited' = waited + 1
    /\ UNCHANGED <<main, ended, http, admins, maps, writing, pidFile, notified, signals, request, failed>>

\* ... the three seconds are over: log.Fatal.
NotDrainedWaits ==
    /\ Up /\ main = "drain" /\ Handling # {} /\ waited > StopTime
    /\ End("fatal")
    /\ UNCHANGED <<main, http, admins, maps, writing, pidFile, notified, signals, waited, failed>>
NotDrained ==
    /\ Up /\ main = "drain" /\ Handling # {} /\ waited = StopTime
    /\ End("fatal")
    /\ UNCHANGED <<main, http, admins, maps, writing, pidFile, notified, signals, waited, failed>>
-----------------------------------------------------------------------------
(* The HTTP server *)

\* ListenAndServe gets the port, or returns an error the goroutine does not report.
Bind ==
    /\ Up /\ http = "start"
    /\ http' \in {"serve", "unbound"}
    /\ UNCHANGED <<main, ended, admins, maps, writing, pidFile, notified, signals, waited, request, failed>>

\* After a Shutdown it returns ErrServerClosed, and the goroutine panics.  Nothing
\* recovers it: the process ends, if main has not ended it before.
ListenPanicsOnAny ==
    /\ Up /\ http \in {"closed", "unbound"}
    /\ End("panic")
    /\ UNCHANGED <<main, http, admins, maps, writing, pidFile, notified, signals, waited, failed>>
ListenPanics ==
    /\ Up /\ http = "closed"
    /\ End("panic")
    /\ UNCHANGED <<main, http, admins, maps, writing, pidFile, notified, signals, waited, failed>>

Accept(r) ==
    /\ Up /\ http = "serve" /\ request[r].answer = "none"
    /\ \E s \in Sent : request' = [request EXCEPT ![r] = s]
    /\ UNCHANGED <<main, ended, http, admins, maps, writing, pidFile, notified, signals, waited, failed>>

\* verifyEthAddress: the time that was signed gives the address of the request.
SignedByAddress(r) == request[r].signature \in {"admin", "stranger"}

\* VerifySignature stands before every change: too old, not signed by the address,
\* or an address nobody added.  (An address of the configuration is compared with the
\* checksummed text, so it has to be written that way.)
VerifySignature(r) ==
    /\ request[r].signature # "expired"
    /\ SignedByAddress(r)
    /\ request[r].signature = "admin" /\ admins

\* A handler.  StatPoolVolumes writes into a map that is nil before service.Start; the
\* panic is recovered and its deferred unlock has run.  AddPool fails when the pool has
\* a row; when it does not, the pool gets a listener.
Answers(r) ==
    CASE request[r].kind \in Changes /\ ~VerifySignature(r) -> {"forbidden"}
      [] request[r].kind \in Changes /\ VerifySignature(r) -> {"done", "error"}
      [] request[r].kind = "days" /\ ~maps -> {"error"}
      [] OTHER -> {"done"}
Handle(r) ==
    /\ Up /\ request[r].answer = "handling"
    /\ \E answer \in Answers(r) : request' = [request EXCEPT ![r].answer = answer]
    /\ UNCHANGED <<main, ended, http, admins, maps, writing, pidFile, notified, signals, waited, failed>>
-----------------------------------------------------------------------------
(* The maps of the service *)

\* initPoolStat, initPoolStatReal, addPool and the walk write maps that have no lock.
Write ==
    /\ Up /\ maps /\ writing' = ~writing
    /\ UNCHANGED <<main, ended, http, admins, maps, pidFile, notified, signals, waited, request, failed>>

\* An administrator's pool is being added: its handler writes them, too.
Writers == {r \in Handling : request[r].kind = "pool" /\ VerifySignature(r)}

\* Somebody else reads or writes the map at that moment, a handler or a goroutine, and
\* the Go runtime notices it: a fatal error, which nothing recovers.
MapRace ==
    /\ Up
    /\ writing \/ \E r \in Writers : maps \/ Handling # {r}
    /\ End("race")
    /\ UNCHANGED <<main, http, admins, maps, writing, pidFile, notified, signals, waited, failed>>

\* A pool an administrator added has a listener and no records, and one that dealNft
\* is adding does not have them yet: its first event, or midnight, is a panic.
\* (PoolRegistry tells which pools these are.)
Added == {r \in Requests : request[r].kind = "pool" /\ request[r].answer = "done"}
NoRecordsForAnybody ==
    /\ Up /\ \E r \in Requests : request[r].kind = "pool" /\ request[r].answer # "none"
    /\ End("panic")
    /\ UNCHANGED <<main, http, admins, maps, writing, pidFile, notified, signals, waited, failed>>
NoRecords ==
    /\ Up
    /\ writing \/ Added # {}
    /\ End("panic")
    /\ UNCHANGED <<main, http, admins, maps, writing, pidFile, notified, signals, waited, failed>>
-----------------------------------------------------------------------------
(* Signals *)

\* SIGTERM or SIGINT: before Notify it ends the process; the channel keeps one.
Signal ==
    /\ Up /\ signals < MaxSignals
    /\ IF notified
       THEN signals' = signals + 1 /\ UNCHANGED <<ended, request>>
       ELSE End("signal") /\ UNCHANGED signals
    /\ UNCHANGED <<main, http, admins, maps, writing, pidFile, notified, waited, failed>>

Next ==
    \/ StartFails \/ ReadConfig \/ CreateLogFiles \/ ConnectToMysql \/ AddAdmins \/ StartHttpServer
    \/ MakeMaps \/ ServiceStarted \/ WriteFiles \/ Notify \/ Stopped
    \/ CloseListener \/ Drained \/ WaitRequests \/ NotDrained
    \/ Bind \/ ListenPanics \/ Write \/ MapRace \/ NoRecords \/ Signal
    \/ \E r \in Requests : Accept(r) \/ Handle(r)

Spec == Init /\ [][Next]_vars

\* Go runs main and the goroutines; a database that does not answer may keep a
\* handler, so nothing is assumed of Handle.
Fairness == WF_vars(Stopped \/ CloseListener \/ Drained \/ WaitRequests \/ NotDrained)

FairSpec == Spec /\ Fairness
-----------------------------------------------------------------------------
(* Properties *)

\* What ends the process: a call of the start or of a reader's start that failed, a
\* signal before WaitForKill listens, or a stop.  No client can end it, at whatever
\* time its request comes, nor can a port that is taken, with two exceptions: a
\* map that somebody writes at that very moment, and a pool without records, which
\* only dealNft at that moment or an administrator has added (StartHttpServer,
\* VerifySignature, WaitForKill, gin.Recovery, which sees neither of the two).
\* A stop leaves no process.pid behind.
Administered(answers) ==
    \E r \in Requests : /\ request[r].kind = "pool" /\ request[r].signature = "admin"
                        /\ request[r].answer \in answers
EndsForReason ==
    /\ ended = "panic" => failed \/ http = "closed" \/ writing \/ Administered({"done"})
    /\ ended = "race" => writing \/ Administered({"lost"})
    /\ ended \in {"ok", "fatal"} => main = "drain" /\ ~pidFile
    /\ ended = "signal" => ~notified
    /\ http = "closed" => main = "drain" /\ ~pidFile

\* A change is made for an administrator and for nobody else, and no administrator
\* is refused, however early the request comes: the addresses are known before the
\* port is (main, VerifySignature).
AdminsServed ==
    \A r \in Requests : request[r].kind \in Changes =>
        /\ request[r].answer = "done" => request[r].signature = "admin"
        /\ request[r].answer = "forbidden" => request[r].signature # "admin"

\* A regular stop waits for the requests: one that was being answered is lost only when
\* the three seconds are over ("graceful shutdown", api/router.go:27-28).
StopIsGraceful ==
    main = "drain" /\ ended \in {"panic", "fatal", "ok"} /\ ~failed /\ ~writing /\ Added = {} =>
        \A r \in Requests : request[r].answer = "lost" => waited = StopTime

\* A stop comes to its end also when a handler never does (WaitForKill,
\* StopHttpServer).
StopEnds == notified /\ signals > 0 ~> ~Up
=============================================================================
