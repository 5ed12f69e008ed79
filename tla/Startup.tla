------------------------------ MODULE Startup -------------------------------
(***************************************************************************)
(* The life of the process: Runner.Run starts the application, waits for a *)
(* failure or a signal, and stops it.  Each service has a hook that        *)
(* registers a goroutine with a group of services (a WaitGroup); a service *)
(* of ServWait first waits for the group before.  The loads of the queues  *)
(* and of the request configurations, Serv.OnStart, Serv.OnStop and the    *)
(* requests served over HTTP meet in the status of Serv.                   *)
(***************************************************************************)
EXTENDS Integers, Sequences, FiniteSets, ServStatus

CONSTANTS
    Handlers,    \* goroutines that serve HTTP requests
    MaxKeys      \* bound: keys that a load finds in Redis

ASSUME StartupAssumption ==
    /\ IsFiniteSet(Handlers)
    /\ MaxKeys \in Nat

VARIABLES
    main,      \* where Runner.Run is
    hook,      \* the hook it runs next when it starts or stops the application
    ready,     \* Runner.ready: the group services are added to, 0 for nil
    count,     \* the counter of each group's WaitGroup
    wait,      \* the group each service waits for, 0 for none
    joined,    \* the group each service was added to, 0 before its hook
    state,     \* how far each service's goroutine is
    left,      \* keys that each load has still to see
    status,    \* Serv.status
    polling,   \* whether Guard.task is there
    http,      \* the HTTP server
    inside,    \* what each handler is doing
    old,       \* the status a clean-up will restore
    refused    \* app.Stop has collected an error

runner  == <<main, hook, ready, count, wait, joined, refused>>
serving == <<http, inside, old>>
vars == <<runner, state, left, status, polling, serving>>

\* The services in the order in which fx.Invoke appends their hooks.
Order == <<"config", "guard", "box", "wrapper", "serv", "http">>
Services == {Order[i] : i \in DOMAIN Order}
Groups == 1..Len(Order)

\* The services started by ServWait; the others are started by ServGo.
Waiting == {"guard", "serv", "http"}
Loaders == {"box", "wrapper"}

Over == {"exited", "panicked", "killed"}

TypeOK ==
    /\ main \in {"starting", "select", "stopping"} \cup Over
    /\ hook \in 0..Len(Order) + 1
    /\ ready \in 0..Len(Order)
    /\ count \in [Groups -> 0..Len(Order)]
    /\ wait \in [Services -> 0..Len(Order)]
    /\ joined \in [Services -> 0..Len(Order)]
    /\ state \in [Services -> {"new", "waiting", "starting", "ready", "failed", "told"}]
    /\ left \in [Loaders -> 0..MaxKeys]
    /\ status \in ServStatuses
    /\ polling \in BOOLEAN
    /\ http \in {"off", "serving", "closed"}
    /\ inside \in [Handlers -> {"idle", "request", "cleaning"}]
    /\ old \in [Handlers -> ServStatuses]
    /\ refused \in BOOLEAN

Init ==
    /\ main = "starting"
    /\ hook = 1
    /\ ready = 0
    /\ count = [g \in Groups |-> 0]
    /\ wait = [s \in Services |-> 0]
    /\ joined = [s \in Services |-> 0]
    /\ state = [s \in Services |-> "new"]
    /\ left \in [Loaders -> 0..MaxKeys]
    /\ status = "init"
    /\ polling = FALSE
    /\ http = "off"
    /\ inside = [h \in Handlers |-> "idle"]
    /\ old = [h \in Handlers |-> "init"]
    /\ refused = FALSE

Alive == main \notin Over

-----------------------------------------------------------------------------
(* Runner.Run: the application starts.                                      *)

\* Slip: the service joins before the group to wait for is taken, and so waits
\* for itself.
JoinsFirst(s) ==
    LET g == IF ready = 0 THEN 1 ELSE ready
    IN  /\ joined' = [joined EXCEPT ![s] = g]
        /\ count' = [count EXCEPT ![g] = @ + 1]
        /\ wait' = [wait EXCEPT ![s] = IF s \in Waiting THEN g ELSE 0]
        /\ ready' = IF s \in Waiting THEN g + 1 ELSE g

\* PopReady hands over the group so far and opens a new one, unless there is
\* none; AddReady adds the service to the present group, the first if need be.
Join(s) ==
    LET pops == s \in Waiting /\ ready # 0
        g    == CASE ready = 0 -> 1
                  [] pops      -> ready + 1
                  [] OTHER     -> ready
    IN  /\ joined' = [joined EXCEPT ![s] = g]
        /\ count' = [count EXCEPT ![g] = @ + 1]
        /\ wait' = [wait EXCEPT ![s] = IF pops THEN ready ELSE 0]
        /\ ready' = g

\* The OnStart hook of a service: it joins, and its goroutine starts.
StartHook ==
    /\ main = "starting"
    /\ hook <= Len(Order)
    /\ Join(Order[hook])
    /\ state' = [state EXCEPT ![Order[hook]] = "waiting"]
    /\ hook' = hook + 1
    /\ UNCHANGED <<main, refused, left, status, polling, serving>>

\* app.Start has returned; Run waits for a failure or a signal.
Started ==
    /\ main = "starting"
    /\ hook > Len(Order)
    /\ main' = "select"
    /\ UNCHANGED <<hook, ready, count, wait, joined, refused, state, left, status,
                   polling, serving>>

\* SIGINT or SIGTERM.  Before app.Done is called nothing catches it.
Signal ==
    /\ main \in {"starting", "select"}
    /\ main' = IF main = "starting" THEN "killed" ELSE "stopping"
    /\ hook' = Len(Order)
    /\ UNCHANGED <<ready, count, wait, joined, refused, state, left, status, polling,
                   serving>>

\* Fail's channel has no buffer: the sender waits until Run receives, and for
\* ever once Run has left its select.
Receive ==
    /\ main = "select"
    /\ \E s \in Services :
         /\ state[s] = "failed"
         /\ state' = [state EXCEPT ![s] = "told"]
    /\ main' = "stopping"
    /\ hook' = Len(Order)
    /\ UNCHANGED <<ready, count, wait, joined, refused, left, status, polling, serving>>

-----------------------------------------------------------------------------
(* The goroutine of a service.                                              *)

\* Slip: the goroutine starts its service without waiting.
ReleaseAtOnce(s) ==
    /\ Alive
    /\ state[s] = "waiting"
    /\ state' = [state EXCEPT ![s] = "starting"]
    /\ UNCHANGED <<runner, left, status, polling, serving>>

\* wait.Wait() returns and the service's OnStart begins.
Release(s) ==
    /\ Alive
    /\ state[s] = "waiting"
    /\ wait[s] # 0 => count[wait[s]] = 0
    /\ state' = [state EXCEPT ![s] = "starting"]
    /\ UNCHANGED <<runner, left, status, polling, serving>>

Starting(s) == Alive /\ state[s] = "starting"

\* Slip: Done is called on the way out and by the caller.
DoneTwice(s) ==
    /\ state' = [state EXCEPT ![s] = "ready"]
    /\ count' = [count EXCEPT ![joined[s]] = @ - 2]
    /\ UNCHANGED <<main, hook, ready, wait, joined, refused>>

\* OnStart returned no error: ready.Done().
Done(s) ==
    /\ state' = [state EXCEPT ![s] = "ready"]
    /\ count' = [count EXCEPT ![joined[s]] = @ - 1]
    /\ UNCHANGED <<main, hook, ready, wait, joined, refused>>

\* OnStart returned an error: Fail blocks until Run receives.
Failed(s) ==
    /\ state' = [state EXCEPT ![s] = "failed"]
    /\ UNCHANGED runner

\* RedisConfig.OnStart: what Redis has is read and applied, or fails.
LoadConfig ==
    /\ Starting("config")
    /\ Done("config") \/ Failed("config")
    /\ UNCHANGED <<left, status, polling, serving>>

\* Guard.OnStart starts the task that polls.
StartGuard ==
    /\ Starting("guard")
    /\ polling' = TRUE
    /\ Done("guard")
    /\ UNCHANGED <<left, status, serving>>

\* A handler inside DoWithLock keeps the writers of the status out.
ServFree == \A h \in Handlers : inside[h] # "request"

\* A key: SetStatus(Preparing), and what the key stands for is loaded.
LoadKey(s) ==
    /\ left[s] > 0
    /\ ServFree
    /\ IF CanSet(status, "preparing")
         THEN /\ status' = "preparing"
              /\ left' = [left EXCEPT ![s] = @ - 1]
              /\ UNCHANGED <<runner, state>>
         ELSE Failed(s) /\ UNCHANGED <<status, left>>

\* QueueBox.Load and RequestWrapper.Load; any command of them may fail.
Load(s) ==
    /\ Starting(s)
    /\ \/ LoadKey(s)
       \/ left[s] = 0 /\ Done(s) /\ UNCHANGED <<left, status>>
       \/ Failed(s) /\ UNCHANGED <<left, status>>
    /\ UNCHANGED <<polling, serving>>

\* loadRootFromLocal reads the process's configuration while RedisConfig may be
\* writing it, and no lock is shared: Go ends the process when it notices.
RootRace ==
    /\ Starting("config")
    /\ Starting("wrapper")
    /\ left["wrapper"] = 0
    /\ main' = "killed"
    /\ UNCHANGED <<hook, ready, count, wait, joined, refused, state, left, status, polling,
                   serving>>

\* Serv.OnStart.  A status that conflicts because the service was stopped is
\* no error.
StartServ ==
    /\ Starting("serv")
    /\ ServFree
    /\ IF CanSet(status, "preparing")
         THEN status' = "working" /\ Done("serv")
         ELSE /\ UNCHANGED status
              /\ IF status \in {"stopping", "stopped"} THEN Done("serv") ELSE Failed("serv")
    /\ UNCHANGED <<left, polling, serving>>

\* HTTPServ.OnStart: ListenAndServe finds the address taken, or serves; it
\* returns ErrServerClosed once Shutdown was called, before or after it began.
StartHttp ==
    /\ Starting("http")
    /\ \/ http = "off" /\ http' = "serving" /\ UNCHANGED <<runner, state>>
       \/ http = "off" /\ Failed("http") /\ UNCHANGED http
       \/ http = "closed" /\ Done("http") /\ UNCHANGED http
    /\ UNCHANGED <<left, status, polling, inside, old>>

-----------------------------------------------------------------------------
(* Requests over HTTP.                                                      *)

\* A call that runs in DoWithLockOnWorkStatus, begun and ended.
Request(h) ==
    /\ Alive
    /\ http = "serving"
    /\ inside[h] = "idle"
    /\ WorkStatus(status)
    /\ inside' = [inside EXCEPT ![h] = "request"]
    /\ UNCHANGED <<runner, state, left, status, polling, http, old>>

RequestEnd(h) ==
    /\ Alive
    /\ inside[h] = "request"
    /\ inside' = [inside EXCEPT ![h] = "idle"]
    /\ UNCHANGED <<runner, state, left, status, polling, http, old>>

\* Toggle.  In another status it panics, which ends the request only.
Toggle ==
    /\ Alive
    /\ http = "serving"
    /\ \E h \in Handlers : inside[h] = "idle"
    /\ ServFree
    /\ WorkStatus(status)
    /\ status' \in {"working", "paused"}
    /\ UNCHANGED <<runner, state, left, polling, serving>>

\* ClearOrDeleteQueues: Cleaning, and the deferred return to the old status.
Clean(h) ==
    /\ Alive
    /\ http = "serving"
    /\ inside[h] = "idle"
    /\ ServFree
    /\ CanSet(status, "cleaning")
    /\ status' = "cleaning"
    /\ old' = [old EXCEPT ![h] = status]
    /\ inside' = [inside EXCEPT ![h] = "cleaning"]
    /\ UNCHANGED <<runner, state, left, polling, http>>

CleanEnd(h) ==
    /\ Alive
    /\ inside[h] = "cleaning"
    /\ ServFree
    /\ status' = IF CanSet(status, old[h]) THEN old[h] ELSE status
    /\ inside' = [inside EXCEPT ![h] = "idle"]
    /\ UNCHANGED <<runner, state, left, polling, http, old>>

-----------------------------------------------------------------------------
(* app.Stop: the OnStop hooks, last one first.                              *)

Stopping(s) == main = "stopping" /\ hook > 0 /\ Order[hook] = s

\* HTTPServ.OnStop: Shutdown closes the listener ...
ShutdownHttp ==
    /\ Stopping("http")
    /\ http # "closed"
    /\ http' = "closed"
    /\ UNCHANGED <<runner, state, left, status, polling, inside, old>>

\* Slip: the hook does not wait for the handlers.
ShutdownReturnsEarly ==
    /\ Stopping("http")
    /\ http = "closed"
    /\ hook' = hook - 1
    /\ UNCHANGED <<main, ready, count, wait, joined, refused, state, left, status, polling,
                   serving>>

\* ... and returns when no handler is left.
ShutdownReturns ==
    /\ Stopping("http")
    /\ http = "closed"
    /\ \A h \in Handlers : inside[h] = "idle"
    /\ hook' = hook - 1
    /\ UNCHANGED <<main, ready, count, wait, joined, refused, state, left, status, polling,
                   serving>>

\* Slip: OnStop waits for a status that can be stopped.
StopServWaits ==
    /\ Stopping("serv")
    /\ ServFree
    /\ CanSet(status, "stopping")
    /\ status' = "stopping"
    /\ hook' = hook - 1
    /\ UNCHANGED <<main, ready, count, wait, joined, refused, state, left, polling, serving>>

\* Slip: OnStop takes the status for one that serves.
StopServWorking ==
    /\ Stopping("serv")
    /\ ServFree
    /\ status' = IF status = "working" THEN "stopping" ELSE status
    /\ refused' = (refused \/ status # "working")
    /\ hook' = hook - 1
    /\ UNCHANGED <<main, ready, count, wait, joined, state, left, polling, serving>>

\* Serv.OnStop sets Stopping, and Stopping again, which changes nothing.  fx
\* keeps the error and goes on.
StopServ ==
    /\ Stopping("serv")
    /\ ServFree
    /\ status' = IF CanSet(status, "stopping") THEN "stopping" ELSE status
    /\ refused' = (refused \/ ~CanSet(status, "stopping"))
    /\ hook' = hook - 1
    /\ UNCHANGED <<main, ready, count, wait, joined, state, left, polling, serving>>

\* Guard.OnStop closes the channel of its task, and panics if it has none.
StopGuard ==
    /\ Stopping("guard")
    /\ IF polling THEN hook' = hook - 1 /\ UNCHANGED main
                  ELSE main' = "panicked" /\ UNCHANGED hook
    /\ UNCHANGED <<ready, count, wait, joined, refused, state, left, status, polling, serving>>

\* The other services have nothing to stop.
StopOther ==
    /\ \E s \in Loaders \cup {"config"} : Stopping(s)
    /\ hook' = hook - 1
    /\ UNCHANGED <<main, ready, count, wait, joined, refused, state, left, status, polling,
                   serving>>

\* Run panics with the error that app.Stop returns, or the process ends.
Exit ==
    /\ main = "stopping"
    /\ hook = 0
    /\ main' = IF refused THEN "panicked" ELSE "exited"
    /\ UNCHANGED <<hook, ready, count, wait, joined, refused, state, left, status, polling,
                   serving>>

-----------------------------------------------------------------------------
Run == StartHook \/ Started \/ Receive
Stop == ShutdownHttp \/ ShutdownReturns \/ StopServ \/ StopGuard \/ StopOther \/ Exit

\* What a service's goroutine does until OnStart has returned.
Start(s) ==
    \/ Release(s)
    \/ s = "config" /\ LoadConfig
    \/ s = "guard" /\ StartGuard
    \/ s \in Loaders /\ Load(s)
    \/ s = "serv" /\ StartServ
    \/ s = "http" /\ StartHttp

Next ==
    \/ Run \/ Signal \/ Stop
    \/ \E s \in Services : Start(s)
    \/ \E h \in Handlers : Request(h) \/ RequestEnd(h) \/ Clean(h) \/ CleanEnd(h)
    \/ Toggle \/ RootRace

Spec == Init /\ [][Next]_vars

\* Goroutines that can go on are scheduled and requests end; nobody needs to
\* send a request or a signal.
FairSpec ==
    /\ Spec
    /\ WF_vars(Run)
    /\ WF_vars(Stop)
    /\ \A s \in Services : WF_vars(Start(s))
    /\ \A h \in Handlers : WF_vars(RequestEnd(h)) /\ WF_vars(CleanEnd(h))

-----------------------------------------------------------------------------
(* Properties.                                                              *)

\* No service starts before those it has to wait for are ready: the guard after
\* the configuration; the service after the guard and both loads; the HTTP
\* server after the service.  The groups are made of shared counters that are
\* handed over while goroutines already run.
Awaited(s) ==
    CASE s = "guard" -> {"config"}
      [] s = "serv"  -> {"guard", "box", "wrapper"}
      [] s = "http"  -> {"serv"}
      [] OTHER       -> {}

StartsInOrder ==
    \A s \in Services : state[s] \in {"starting", "ready", "failed", "told"} =>
        \A t \in Awaited(s) : state[t] = "ready"

\* A request is inside a handler only while the service is up: the loads have
\* seen every key, and the stop has not begun to change the status, in
\* whatever order starts, loads, clean-ups and a stop meet.
ServesOnlyWhenUp ==
    \A h \in Handlers : inside[h] # "idle" =>
        /\ status \in {"working", "paused", "cleaning"}
        /\ \A s \in Loaders : left[s] = 0
        /\ \A s \in Services \ {"http"} : state[s] = "ready"

\* A process that has served once never ends in a panic: Serv.OnStop is not
\* refused, whatever requests and clean-ups made of the status, and the guard has
\* a task to stop.  A stop that comes earlier may find neither.
ServedExitsCleanly == [](http = "serving" => [](main # "panicked"))

\* Every start comes to an end: the service serves, or the process is over.  A
\* service that fails leaves those that wait for it blocked and may itself stay
\* blocked in Fail, which must not keep Run from ending the process.
StartEnds == <>(http = "serving" \/ ~Alive)

\* A stop that has begun ends the process, though goroutines are blocked in
\* Fail or wait for a group that is never ready.
StopEnds == main = "stopping" ~> ~Alive

=============================================================================
