---------------------------- MODULE StartupProofs ----------------------------
(***************************************************************************)
(* Proofs about Startup, for any handlers and any number of keys: services *)
(* start in the order of their groups, requests are served only while the  *)
(* service is up, and a process that has served does not end in a panic.   *)
(***************************************************************************)
EXTENDS Startup, TLAPS

\* The order of the hooks, spelled out.
LEMMA OrderFacts ==
    /\ Services = {"config", "guard", "box", "wrapper", "serv", "http"}
    /\ Len(Order) = 6 /\ DOMAIN Order = 1..6 /\ Groups = 1..6
    /\ Order[1] = "config" /\ Order[2] = "guard" /\ Order[3] = "box"
    /\ Order[4] = "wrapper" /\ Order[5] = "serv" /\ Order[6] = "http"
BY DEF Services, Order, Groups

-----------------------------------------------------------------------------
(* The groups. *)

\* The group that Join adds a service to, given the order of the hooks, and the one
\* it waits for.
Group(s) == CASE s = "config" -> 1
              [] s \in {"guard", "box", "wrapper"} -> 2
              [] s = "serv" -> 3
              [] s = "http" -> 4
After(s) == IF s \in Waiting THEN Group(s) - 1 ELSE 0

\* Whether a service still owes its group a Done.
Owes(s) == IF state[s] \in {"new", "ready"} THEN 0 ELSE 1

\* The counter of a group is the number of its services that are not ready yet.
Counters ==
    /\ count \in [Groups -> Int]
    /\ count[1] = Owes("config")
    /\ count[2] = Owes("guard") + Owes("box") + Owes("wrapper")
    /\ count[3] = Owes("serv")
    /\ count[4] = Owes("http")
    /\ count[5] = 0 /\ count[6] = 0

\* Hooks run in order; each puts its service into its group.
Hooked ==
    /\ joined \in [Services -> 0..6] /\ wait \in [Services -> 0..6]
    /\ \A s \in Services : state[s] # "new" => joined[s] = Group(s) /\ wait[s] = After(s)
    /\ main = "starting" =>
         /\ hook \in 1..7
         /\ \A i \in 1..6 : state[Order[i]] = "new" <=> i >= hook
         /\ ready = IF hook = 1 THEN 0 ELSE Group(Order[hook - 1])
    /\ main \in {"select", "stopping"} => \A s \in Services : state[s] # "new"
    /\ ready \in 0..4

\* The types of the rest.
States == {"new", "waiting", "starting", "ready", "failed", "told"}
Rest ==
    /\ main \in {"starting", "select", "stopping"} \cup Over
    /\ hook \in 0..7
    /\ state \in [Services -> States]
    /\ left \in [Loaders -> 0..MaxKeys]
    /\ status \in ServStatuses
    /\ polling \in BOOLEAN
    /\ http \in {"off", "serving", "closed"}
    /\ inside \in [Handlers -> {"idle", "request", "cleaning"}]
    /\ old \in [Handlers -> ServStatuses]
    /\ refused \in BOOLEAN

Grouped == Rest /\ Counters /\ Hooked

\* These parts give every type.
LEMMA GroupedTypes == Grouped => TypeOK
<1> SUFFICES ASSUME Grouped PROVE TypeOK
  OBVIOUS
<1>1. count \in [Groups -> 0..6]
  BY OrderFacts DEF Grouped, Counters, Owes
<1> QED BY <1>1, OrderFacts DEF Grouped, Rest, Hooked, TypeOK, States

\* A step that keeps what each service owes, and moves no service that is new, keeps
\* counters and groups.
LEMMA MovesOn ==
    ASSUME Grouped, NEW s \in Services, NEW to \in States \ {"new", "ready"},
           state[s] \notin {"new", "ready"}, state' = [state EXCEPT ![s] = to],
           UNCHANGED <<ready, count, wait, joined>>,
           UNCHANGED <<main, hook>> \/ (main = "select" /\ main' = "stopping")
    PROVE  Counters' /\ Hooked'
<1>1. \A t \in Services : Owes(t)' = Owes(t) /\ (state'[t] = "new" <=> state[t] = "new")
  BY DEF Grouped, Rest, Owes
<1>2. Counters'
  BY <1>1, OrderFacts DEF Grouped, Counters
<1>3. Hooked'
  BY <1>1, OrderFacts DEF Grouped, Rest, Hooked
<1> QED BY <1>2, <1>3

\* A service that is ready takes itself off the counter of its group.
LEMMA DoneCounts ==
    ASSUME Grouped, NEW s \in Services, state[s] = "starting", Done(s)
    PROVE  Counters' /\ Hooked'
<1>1. /\ state' = [state EXCEPT ![s] = "ready"]
      /\ count' = [count EXCEPT ![Group(s)] = @ - 1]
      /\ UNCHANGED <<main, hook, ready, wait, joined>>
  BY DEF Grouped, Hooked, Done
<1>2. Counters'
  BY <1>1, OrderFacts DEF Grouped, Rest, Counters, Owes, Group
<1>3. Hooked'
  BY <1>1, OrderFacts DEF Grouped, Rest, Hooked
<1> QED BY <1>2, <1>3

\* A hook adds its service to the group the order of the hooks gives it.
LEMMA StartHookCounts ==
    ASSUME Grouped, StartHook
    PROVE  Grouped'
<1> DEFINE s == Order[hook]
<1>1. /\ hook \in 1..6 /\ s \in Services /\ main = "starting" /\ hook' = hook + 1
      /\ state' = [state EXCEPT ![s] = "waiting"] /\ state[s] = "new"
      /\ UNCHANGED <<main, refused, left, status, polling, serving>>
  BY OrderFacts DEF Grouped, Rest, Hooked, StartHook
<1>2. /\ joined' = [joined EXCEPT ![s] = Group(s)]
      /\ count' = [count EXCEPT ![Group(s)] = @ + 1]
      /\ wait' = [wait EXCEPT ![s] = After(s)]
      /\ ready' = Group(s)
  <2> DEFINE pops == s \in Waiting /\ ready # 0
             g == CASE ready = 0 -> 1
                    [] pops      -> ready + 1
                    [] OTHER     -> ready
  <2>1. ready = IF hook = 1 THEN 0 ELSE Group(Order[hook - 1])
    BY <1>1 DEF Grouped, Hooked
  <2>2. g = Group(s) /\ After(s) = IF pops THEN ready ELSE 0
    BY <1>1, <2>1, OrderFacts DEF Group, After, Waiting
  <2>3. /\ joined' = [joined EXCEPT ![s] = g]
        /\ count' = [count EXCEPT ![g] = @ + 1]
        /\ wait' = [wait EXCEPT ![s] = IF pops THEN ready ELSE 0]
        /\ ready' = g
    BY Zenon DEF StartHook, Join
  <2> HIDE DEF g, pops
  <2> QED BY <2>2, <2>3
<1>3. Rest'
  BY <1>1 DEF Grouped, Rest, States, serving
<1>4. Hooked'
  BY <1>1, <1>2, OrderFacts DEF Grouped, Rest, Hooked, Group, After, Waiting
<1> HIDE DEF s
<1>5. Counters'
  BY <1>1, <1>2, OrderFacts DEF Grouped, Rest, Counters, Owes, Group
<1> QED BY <1>3, <1>4, <1>5 DEF Grouped

\* What a goroutine of a service, a handler or the runner may do to the services'
\* states, apart from a hook: nothing, one Done, or one step that owes as before.
LEMMA Grouping ==
    ASSUME Grouped, Next, ~StartHook
    PROVE  /\ UNCHANGED wait
           /\ \/ UNCHANGED state
              \/ \E s \in Services : Starting(s) /\ Done(s)
              \/ \E s \in Services, to \in {"starting", "failed", "told"} :
                   /\ state[s] \in {"waiting", "starting", "failed"}
                   /\ state' = [state EXCEPT ![s] = to]
                   /\ IF to = "starting" THEN Release(s) ELSE state[s] # "waiting"
                   /\ UNCHANGED <<ready, count, wait, joined>>
<1> USE OrderFacts
<1>1. CASE Started \/ Signal \/ Stop \/ Toggle \/ RootRace
  BY <1>1 DEF Started, Signal, Stop, ShutdownHttp, ShutdownReturns, StopServ, StopGuard, StopOther,
              Exit, Toggle, RootRace, runner
<1>2. ASSUME NEW h \in Handlers, Request(h) \/ RequestEnd(h) \/ Clean(h) \/ CleanEnd(h)
      PROVE  UNCHANGED <<state, wait>>
  BY <1>2 DEF Request, RequestEnd, Clean, CleanEnd, runner
<1>3. CASE Receive
  BY <1>3 DEF Receive
<1>4. ASSUME NEW s \in Services, Release(s)
      PROVE  /\ state[s] = "waiting" /\ state' = [state EXCEPT ![s] = "starting"]
             /\ UNCHANGED <<ready, count, wait, joined>>
  BY <1>4 DEF Release, runner
<1>5. ASSUME NEW s \in Services, Start(s), ~Release(s)
      PROVE  /\ UNCHANGED wait
             /\ \/ UNCHANGED state
                \/ Starting(s) /\ Done(s)
                \/ /\ state[s] = "starting" /\ state' = [state EXCEPT ![s] = "failed"]
                   /\ UNCHANGED <<ready, count, wait, joined>>
  BY <1>5 DEF Start, LoadConfig, StartGuard, Load, LoadKey, StartServ, StartHttp, Done, Failed, Starting,
              runner
<1> QED BY <1>1, <1>2, <1>3, <1>4, <1>5 DEF Next, Run

\* The parts of the invariant about types that say nothing of groups.
LEMMA RestStep == Grouped /\ [Next]_vars => Rest'
<1> SUFFICES ASSUME Grouped, [Next]_vars PROVE Rest'
  OBVIOUS
<1> USE OrderFacts DEF Grouped, Rest
<1>1. CASE StartHook
  BY <1>1, StartHookCounts
<1>2. CASE Started \/ Receive
  BY <1>2 DEF Started, Receive, States, serving
<1>3. CASE Signal
  BY <1>3 DEF Signal, Over, serving
<1>4. CASE Stop
  <2>1. CASE StopServ
    <3>1. status' \in {status, "stopping"} /\ hook' = hook - 1 /\ hook > 0
      BY <2>1, Zenon DEF StopServ, Stopping
    <3>2. refused' \in BOOLEAN
      BY <2>1, Zenon DEF StopServ
    <3> QED BY <2>1, <3>1, <3>2 DEF StopServ, ServStatuses, serving
  <2>2. CASE ShutdownHttp \/ ShutdownReturns \/ StopGuard
    BY <2>2 DEF ShutdownHttp, ShutdownReturns, StopGuard, Stopping, Over, runner, serving
  <2>3. CASE StopOther \/ Exit
    BY <2>3 DEF StopOther, Exit, Stopping, Over, serving
  <2> QED BY <1>4, <2>1, <2>2, <2>3 DEF Stop
<1>5. ASSUME NEW h \in Handlers, Request(h) \/ RequestEnd(h) \/ Clean(h) \/ CleanEnd(h)
      PROVE  Rest'
  BY <1>5 DEF Request, RequestEnd, Clean, CleanEnd, ServStatuses, runner
<1>6. CASE Toggle
  BY <1>6 DEF Toggle, ServStatuses, runner, serving
<1>7. CASE RootRace
  BY <1>7 DEF RootRace, Over, serving
<1>8. ASSUME NEW s \in Services, Start(s), ~StartHook PROVE Rest'
  <2>1. main' = main /\ UNCHANGED <<hook, refused, inside, old>>
    BY <1>8 DEF Start, Release, LoadConfig, StartGuard, Load, LoadKey, StartServ, StartHttp, Done, Failed,
                runner, serving
  <2>2. state' \in [Services -> States]
    BY <1>8, Grouping DEF Next, Done, States
  <2>3. left' \in [Loaders -> 0..MaxKeys]
    BY <1>8, StartupAssumption DEF Start, Release, LoadConfig, StartGuard, Load, LoadKey, StartServ,
                                   StartHttp, Loaders
  <2>4. /\ status' \in ServStatuses /\ polling' \in BOOLEAN
        /\ http' \in {"off", "serving", "closed"}
    BY <1>8 DEF Start, Release, LoadConfig, StartGuard, Load, LoadKey, StartServ, StartHttp,
                ServStatuses, serving
  <2> QED BY <2>1, <2>2, <2>3, <2>4
<1>9. CASE UNCHANGED vars
  BY <1>9 DEF vars, runner, serving
<1> QED BY <1>1, <1>2, <1>3, <1>4, <1>5, <1>6, <1>7, <1>8, <1>9 DEF Next, Run

\* No step touches a group's counter or a service's group other than as above.
LEMMA CountingStep == Grouped /\ [Next]_vars => Counters' /\ Hooked'
<1> SUFFICES ASSUME Grouped, [Next]_vars PROVE Counters' /\ Hooked'
  OBVIOUS
<1>1. CASE StartHook
  BY <1>1, StartHookCounts DEF Grouped
<1>2. ASSUME NEW s \in Services, Starting(s) /\ Done(s) PROVE Counters' /\ Hooked'
  BY <1>2, DoneCounts DEF Starting
<1>3. CASE Started
  BY <1>3, OrderFacts DEF Started, Grouped, Rest, Counters, Owes, Hooked
<1>4. CASE UNCHANGED vars
  BY <1>4 DEF vars, runner, Grouped, Counters, Owes, Hooked
<1>5. CASE Signal
  BY <1>5 DEF Signal, Grouped, Counters, Owes, Hooked
<1>6. CASE Receive
  <2>1. PICK s \in Services : state[s] = "failed" /\ state' = [state EXCEPT ![s] = "told"]
    BY <1>6 DEF Receive
  <2> QED BY <1>6, <2>1, MovesOn DEF Receive, States
<1>7. CASE Stop \/ RootRace
  <2>1. /\ main' \in {main} \cup Over /\ (main = "starting" => main' \in Over)
        /\ UNCHANGED <<ready, count, wait, joined, state>>
    BY <1>7 DEF Stop, ShutdownHttp, ShutdownReturns, StopServ, StopGuard, StopOther, Exit, RootRace,
                Stopping, Over, runner
  <2> QED BY <2>1 DEF Grouped, Counters, Owes, Hooked, Over
<1>8. ASSUME NEW h \in Handlers, Request(h) \/ RequestEnd(h) \/ Clean(h) \/ CleanEnd(h)
      PROVE  UNCHANGED <<main, hook, ready, count, wait, joined, state>>
  BY <1>8 DEF Request, RequestEnd, Clean, CleanEnd, runner
<1>9. CASE UNCHANGED <<main, hook, ready, count, wait, joined, state>>
  BY <1>9 DEF Grouped, Counters, Owes, Hooked
<1>10. ASSUME NEW s \in Services, Start(s), ~StartHook PROVE Counters' /\ Hooked'
  <2>1. UNCHANGED <<main, hook>>
    BY <1>10 DEF Start, Release, LoadConfig, StartGuard, Load, LoadKey, StartServ, StartHttp, Done,
                 Failed, runner
  <2>2. CASE UNCHANGED state
    <3>1. UNCHANGED <<ready, count, wait, joined>>
      BY <1>10, <2>2 DEF Grouped, Rest, Start, Release, LoadConfig, StartGuard, Load, LoadKey, StartServ,
                         StartHttp, Starting, Done, Failed, runner
    <3> QED BY <1>9, <2>1, <2>2, <3>1
  <2>3. ASSUME NEW r \in Services, NEW to \in {"starting", "failed", "told"},
               state[r] \in {"waiting", "starting", "failed"}, state' = [state EXCEPT ![r] = to],
               UNCHANGED <<ready, count, wait, joined>>
        PROVE  Counters' /\ Hooked'
    <3>1. to \in States \ {"new", "ready"} /\ state[r] \notin {"new", "ready"}
      BY <2>3 DEF States
    <3> QED BY <2>1, <2>3, <3>1, MovesOn
  <2> QED BY <1>2, <1>10, <2>2, <2>3, Grouping DEF Next
<1> QED BY <1>1, <1>2, <1>3, <1>4, <1>5, <1>6, <1>7, <1>8, <1>9, <1>10 DEF Next, Run, Toggle, runner

\* At the start every group is empty.
LEMMA GroupedInit == Init => Grouped
<1> SUFFICES ASSUME Init PROVE Grouped
  OBVIOUS
<1> USE OrderFacts
<1>1. Rest
  <2>1. /\ main \in {"starting", "select", "stopping"} \cup Over /\ hook \in 0..7
        /\ state \in [Services -> States]
    BY DEF Init, States
  <2>2. /\ inside \in [Handlers -> {"idle", "request", "cleaning"}]
        /\ old \in [Handlers -> ServStatuses]
    BY DEF Init, ServStatuses
  <2> QED BY <2>1, <2>2 DEF Init, Rest, ServStatuses
<1>2. Counters
  BY DEF Init, Counters, Owes
<1>3. Hooked
  BY DEF Init, Hooked
<1> QED BY <1>1, <1>2, <1>3 DEF Grouped

\* The groups count who has to be waited for in every state.
LEMMA GroupedCorrect == Spec => []Grouped
BY GroupedInit, RestStep, CountingStep, PTL DEF Spec, Grouped

\* The types hold; the counter of a group never leaves its range, so no Done comes
\* twice.
THEOREM TypeCorrect == Spec => []TypeOK
BY GroupedCorrect, GroupedTypes, PTL

-----------------------------------------------------------------------------
(* The order of the services. *)

\* For whom each service waits.
LEMMA AwaitedFacts ==
    /\ Awaited("config") = {} /\ Awaited("guard") = {"config"} /\ Awaited("box") = {}
    /\ Awaited("wrapper") = {} /\ Awaited("serv") = {"guard", "box", "wrapper"}
    /\ Awaited("http") = {"serv"}
BY DEF Awaited

\* A service that starts finds the counter of the group before at 0, and its
\* services in that group.
LEMMA ReleaseInOrder ==
    ASSUME Grouped, NEW s \in Services, Release(s)
    PROVE  \A t \in Awaited(s) : state[t] = "ready"
<1>1. /\ state[s] # "new" /\ wait[s] = After(s)
      /\ wait[s] # 0 => count[wait[s]] = 0
      /\ main \in {"starting", "select", "stopping"}
  BY DEF Grouped, Rest, Hooked, Release, Alive, Over
<1>2. ASSUME NEW t \in Awaited(s) PROVE t \in Services /\ state[t] # "new"
  <2>1. t \in Services
    BY <1>2, OrderFacts, AwaitedFacts
  <2>2. CASE main = "starting"
    <3>1. \A i \in 1..6 : state[Order[i]] = "new" <=> i >= hook
      BY <2>2 DEF Grouped, Hooked
    <3>2. hook \in 1..7
      BY <2>2 DEF Grouped, Hooked
    <3>3. PICK i, j \in 1..6 : j < i /\ Order[i] = s /\ Order[j] = t
      <4>1. CASE s = "guard"
        BY <1>2, <4>1, OrderFacts, AwaitedFacts
      <4>2. CASE s = "serv"
        BY <1>2, <4>2, OrderFacts, AwaitedFacts
      <4>3. CASE s = "http"
        BY <1>2, <4>3, OrderFacts, AwaitedFacts
      <4> QED BY <1>2, <4>1, <4>2, <4>3, OrderFacts, AwaitedFacts
    <3>4. ~(i >= hook)
      BY <1>1, <3>1, <3>3
    <3>5. ~(j >= hook)
      BY <3>2, <3>3, <3>4
    <3> QED BY <2>1, <3>1, <3>3, <3>5
  <2>3. CASE main \in {"select", "stopping"}
    BY <2>1, <2>3 DEF Grouped, Hooked
  <2> QED BY <1>1, <2>2, <2>3
<1>3. \A t \in Awaited(s) : Owes(t) = 0
  <2>1. CASE s = "guard"
    <3>1. After(s) = 1
      BY <2>1 DEF After, Group, Waiting
    <3>2. count[1] = 0
      BY <1>1, <3>1
    <3> QED BY <2>1, <3>2, AwaitedFacts DEF Grouped, Counters, Owes
  <2>2. CASE s = "serv"
    <3>1. After(s) = 2
      BY <2>2 DEF After, Group, Waiting
    <3>2. count[2] = 0
      BY <1>1, <3>1
    <3> QED BY <2>2, <3>2, AwaitedFacts DEF Grouped, Counters, Owes
  <2>3. CASE s = "http"
    <3>1. After(s) = 3
      BY <2>3 DEF After, Group, Waiting
    <3>2. count[3] = 0
      BY <1>1, <3>1
    <3> QED BY <2>3, <3>2, AwaitedFacts DEF Grouped, Counters, Owes
  <2> QED BY <2>1, <2>2, <2>3, OrderFacts, AwaitedFacts
<1> QED BY <1>2, <1>3 DEF Owes

\* A service that is ready stays ready.
LEMMA StaysReady ==
    ASSUME Grouped, [Next]_vars, NEW s \in Services, state[s] = "ready"
    PROVE  state'[s] = "ready"
<1>1. CASE StartHook
  <2>1. hook \in 1..6 /\ state[Order[hook]] = "new" /\ state' = [state EXCEPT ![Order[hook]] = "waiting"]
    BY <1>1, OrderFacts DEF Grouped, Hooked, StartHook
  <2> QED BY <2>1 DEF Grouped, Rest
<1>2. CASE UNCHANGED state
  BY <1>2
<1>3. CASE Next /\ ~StartHook
  BY <1>3, Grouping DEF Grouped, Rest, Done
<1> QED BY <1>1, <1>2, <1>3 DEF vars

\* Every step keeps the order of the services.
LEMMA OrderStep == Grouped /\ StartsInOrder /\ [Next]_vars => StartsInOrder'
<1> SUFFICES ASSUME Grouped, StartsInOrder, [Next]_vars,
                    NEW s \in Services, state'[s] \in {"starting", "ready", "failed", "told"},
                    NEW t \in Awaited(s)
             PROVE  state'[t] = "ready"
  BY DEF StartsInOrder
<1>1. t \in Services
  BY OrderFacts, AwaitedFacts
<1>2. CASE state[s] \in {"starting", "ready", "failed", "told"}
  BY <1>1, <1>2, StaysReady DEF StartsInOrder
<1>3. CASE Release(s)
  BY <1>1, <1>3, ReleaseInOrder, StaysReady
<1>4. CASE StartHook
  <2>1. hook \in 1..6 /\ state' = [state EXCEPT ![Order[hook]] = "waiting"]
    BY <1>4, OrderFacts DEF Grouped, Hooked, StartHook
  <2> QED BY <1>2, <2>1 DEF Grouped, Rest
<1>5. CASE UNCHANGED state
  BY <1>2, <1>5
<1>6. CASE Next /\ ~StartHook
  BY <1>2, <1>3, <1>6, Grouping DEF Grouped, Rest, Done, Starting
<1> QED BY <1>4, <1>5, <1>6 DEF vars

\* No service starts before those it waits for are ready.
THEOREM OrderCorrect == Spec => []StartsInOrder
<1>1. Init => StartsInOrder
  BY DEF Init, StartsInOrder
<1> QED BY <1>1, OrderStep, GroupedCorrect, PTL DEF Spec

-----------------------------------------------------------------------------
(* The service is up while it serves. *)

ServingStatuses == {"working", "paused", "cleaning"}

\* The listener is closed and no handler is left.
Shut == http = "closed" /\ \A h \in Handlers : inside[h] = "idle"

\* What a ready service has done, and what the stop of a service waits for.
Up ==
    /\ \A s \in Loaders : state[s] = "ready" => left[s] = 0
    /\ state["guard"] = "ready" => polling = TRUE
    /\ state["serv"] = "ready" => status \notin {"init", "preparing"}
    /\ http = "serving" => state["serv"] = "ready"
    /\ \A h \in Handlers : inside[h] # "idle" => state["serv"] = "ready"
    /\ \A h \in Handlers : inside[h] = "cleaning" => old[h] \in ServingStatuses
    /\ main = "stopping" => hook \in 0..6
    /\ main = "stopping" /\ hook <= 5 => Shut
    /\ status \in {"stopping", "stopped"} => Shut
    /\ http # "closed" => refused = FALSE /\ main # "panicked"

\* A service that is ready has every service it waited for, and those before, ready.
LEMMA AllReady ==
    ASSUME StartsInOrder, state["serv"] = "ready"
    PROVE  \A s \in Services \ {"http"} : state[s] = "ready"
BY OrderFacts, AwaitedFacts DEF StartsInOrder

\* Up through the steps of the services' goroutines.
LEMMA StartUp ==
    ASSUME Grouped, StartsInOrder, Up, NEW s \in Services, Start(s)
    PROVE  Up'
<1> USE OrderFacts
<1>1. CASE Release(s)
  BY <1>1 DEF Release, Grouped, Rest, Up, Shut, Loaders, runner, serving
<1>2. CASE s = "config" /\ LoadConfig
  BY <1>2 DEF LoadConfig, Done, Failed, Grouped, Rest, Up, Shut, Loaders, runner, serving
<1>3. CASE s = "guard" /\ StartGuard
  BY <1>3 DEF StartGuard, Done, Grouped, Rest, Up, Shut, Loaders, serving
<1>4. CASE s \in Loaders /\ Load(s)
  <2>1. state["serv"] # "ready"
    BY <1>4, AllReady DEF Load, Starting, Loaders
  <2>2. UNCHANGED <<main, hook, refused, polling, http, inside, old>> /\ state'["serv"] # "ready"
    BY <1>4, <2>1 DEF Load, LoadKey, Done, Failed, Loaders, Grouped, Rest, runner, serving
  <2>3. state'["guard"] = "ready" => state["guard"] = "ready"
    BY <1>4 DEF Load, LoadKey, Done, Failed, Loaders, Grouped, Rest
  <2>4. status' \in {status, "preparing"}
    BY <1>4 DEF Load, LoadKey
  <2>5. \A r \in Loaders : state'[r] = "ready" => left'[r] = 0
    BY <1>4 DEF Load, LoadKey, Done, Failed, Starting, Loaders, Grouped, Rest, Up
  <2> QED BY <2>1, <2>2, <2>3, <2>4, <2>5 DEF Up, Shut
<1>5. CASE s = "serv" /\ StartServ
  BY <1>5 DEF StartServ, Done, Failed, Starting, CanSet, Successors, Grouped, Rest, Up, Shut, Loaders,
              runner, serving
<1>6. CASE s = "http" /\ StartHttp
  <2>1. state["serv"] = "ready"
    BY <1>6, AwaitedFacts DEF StartHttp, Starting, StartsInOrder
  <2> QED BY <1>6, <2>1 DEF StartHttp, Done, Failed, Grouped, Rest, Up, Shut, Loaders, runner
<1> QED BY <1>1, <1>2, <1>3, <1>4, <1>5, <1>6 DEF Start

\* Up through the steps of handlers.
LEMMA HandlerUp ==
    ASSUME Grouped, StartsInOrder, Up, NEW h \in Handlers,
           Request(h) \/ RequestEnd(h) \/ Clean(h) \/ CleanEnd(h) \/ Toggle
    PROVE  Up'
<1>1. CASE Request(h) \/ RequestEnd(h)
  BY <1>1 DEF Request, RequestEnd, Grouped, Rest, Up, Shut, runner
<1>2. CASE Clean(h)
  <2>1. status \in ServingStatuses
    BY <1>2 DEF Clean, Up, CanSet, Successors, Grouped, Rest, ServStatuses, ServingStatuses
  <2> QED BY <1>2, <2>1 DEF Clean, Grouped, Rest, Up, Shut, runner
<1>3. CASE CleanEnd(h)
  <2>1. status' = status \/ status' \in ServingStatuses
    BY <1>3 DEF CleanEnd, Up
  <2> QED BY <1>3, <2>1 DEF CleanEnd, Grouped, Rest, Up, Shut, runner, ServingStatuses
<1>4. CASE Toggle
  BY <1>4 DEF Toggle, Grouped, Rest, Up, Shut, runner, serving
<1> QED BY <1>1, <1>2, <1>3, <1>4

\* Up through the steps of the runner and of the hooks that stop the services.
LEMMA StopUp ==
    ASSUME Grouped, StartsInOrder, Up, Stop
    PROVE  Up'
<1> USE OrderFacts
<1>1. CASE ShutdownHttp
  BY <1>1 DEF ShutdownHttp, Stopping, Grouped, Rest, Up, Shut, runner
<1>2. CASE ShutdownReturns
  BY <1>2 DEF ShutdownReturns, Stopping, Grouped, Rest, Up, Shut, serving
<1>3. CASE StopServ
  <2>1. hook = 5 /\ main = "stopping" /\ Shut
    BY <1>3 DEF StopServ, Stopping, Grouped, Rest, Up
  <2>2. status' \in {status, "stopping"} /\ hook' = hook - 1
    BY <1>3, Zenon DEF StopServ
  <2> QED BY <1>3, <2>1, <2>2 DEF StopServ, Grouped, Rest, Up, Shut, serving
<1>4. CASE StopGuard
  BY <1>4 DEF StopGuard, Stopping, Grouped, Rest, Up, Shut, serving
<1>5. CASE StopOther
  BY <1>5 DEF StopOther, Stopping, Loaders, Grouped, Rest, Up, Shut, serving
<1>6. CASE Exit
  BY <1>6 DEF Exit, Grouped, Rest, Up, Shut, serving
<1> QED BY <1>1, <1>2, <1>3, <1>4, <1>5, <1>6 DEF Stop

\* Every step keeps Up.
LEMMA UpStep == Grouped /\ StartsInOrder /\ Up /\ [Next]_vars => Up'
<1> SUFFICES ASSUME Grouped, StartsInOrder, Up, [Next]_vars PROVE Up'
  OBVIOUS
<1>1. CASE StartHook
  <2>1. hook \in 1..6 /\ state' = [state EXCEPT ![Order[hook]] = "waiting"]
    BY <1>1, OrderFacts DEF Grouped, Hooked, StartHook
  <2>2. \A s \in Services : state'[s] = "ready" <=> state[s] = "ready"
    BY <1>1, <2>1, OrderFacts, StaysReady DEF Grouped, Rest
  <2> QED BY <1>1, <2>2, OrderFacts, StaysReady DEF StartHook, Up, Shut, Loaders, serving
<1>2. CASE Started \/ Signal \/ RootRace
  BY <1>2, OrderFacts DEF Started, Signal, RootRace, Up, Shut, serving
<1>3. CASE Receive
  BY <1>3, OrderFacts DEF Receive, Grouped, Rest, Up, Shut, Loaders, serving
<1>4. CASE UNCHANGED vars
  BY <1>4 DEF vars, runner, serving, Up, Shut
<1>5. CASE Toggle
  <2>1. \E h \in Handlers : TRUE
    BY <1>5 DEF Toggle
  <2> QED BY <1>5, <2>1, HandlerUp
<1> QED BY <1>1, <1>2, <1>3, <1>4, <1>5, StartUp, HandlerUp, StopUp DEF Next, Run

\* Up holds in every state.
LEMMA UpCorrect == Spec => []Up
<1>1. Init => Up
  BY OrderFacts DEF Init, Up, Loaders
<1> QED BY <1>1, UpStep, GroupedCorrect, OrderCorrect, PTL DEF Spec

\* Whoever is inside a handler finds the loads done and the stop not begun.
THEOREM ServesCorrect == Spec => []ServesOnlyWhenUp
<1>1. Grouped /\ StartsInOrder /\ Up => ServesOnlyWhenUp
  <2> SUFFICES ASSUME Grouped, StartsInOrder, Up, NEW h \in Handlers, inside[h] # "idle"
               PROVE  /\ status \in {"working", "paused", "cleaning"}
                      /\ \A s \in Loaders : left[s] = 0
                      /\ \A s \in Services \ {"http"} : state[s] = "ready"
    BY DEF ServesOnlyWhenUp
  <2>1. \A s \in Services \ {"http"} : state[s] = "ready"
    BY AllReady DEF Up
  <2> QED BY <2>1, OrderFacts DEF Up, Shut, Grouped, Rest, ServStatuses, Loaders
<1> QED BY <1>1, GroupedCorrect, OrderCorrect, UpCorrect, PTL

-----------------------------------------------------------------------------
(* A process that has served. *)

\* What is true from the moment the process serves: Serv.OnStop cannot be refused.
Served ==
    /\ state["serv"] = "ready"
    /\ status \in ServingStatuses \cup {"stopping"}
    /\ refused = FALSE
    /\ main # "panicked"

\* A process that came to serve stays one that exits cleanly.
LEMMA ServedStays == Grouped /\ StartsInOrder /\ Up /\ Served /\ [Next]_vars => Served'
<1> SUFFICES ASSUME Grouped, StartsInOrder, Up, Served, [Next]_vars PROVE Served'
  OBVIOUS
<1>1. /\ \A s \in Services \ {"http"} : state[s] = "ready"
      /\ state'["serv"] = "ready"
      /\ polling = TRUE
  BY AllReady, StaysReady, OrderFacts DEF Served, Up
<1> USE <1>1 DEF Served
<1>2. CASE StartHook \/ Started \/ Signal \/ RootRace \/ Receive
  BY <1>2 DEF StartHook, Started, Signal, RootRace, Receive
<1>3. ASSUME NEW s \in Services, Start(s) PROVE Served'
  <2>1. Release(s) \/ (s = "http" /\ StartHttp)
    BY <1>3, OrderFacts DEF Start, LoadConfig, StartGuard, Load, StartServ, Starting, Loaders
  <2> QED BY <2>1 DEF Release, StartHttp, Done, Failed, runner
<1>4. ASSUME NEW h \in Handlers, Request(h) \/ RequestEnd(h) PROVE Served'
  BY <1>4 DEF Request, RequestEnd, runner
<1>5. ASSUME NEW h \in Handlers, Clean(h) \/ CleanEnd(h) PROVE Served'
  BY <1>5 DEF Clean, CleanEnd, Up, ServingStatuses, runner
<1>6. CASE Toggle
  BY <1>6 DEF Toggle, ServingStatuses, runner
<1>7. CASE StopServ
  <2>1. CanSet(status, "stopping")
    BY DEF CanSet, Successors, ServingStatuses
  <2> QED BY <1>7, <2>1, Zenon DEF StopServ
<1>8. CASE ShutdownHttp \/ ShutdownReturns \/ StopGuard \/ StopOther \/ Exit
  BY <1>8 DEF ShutdownHttp, ShutdownReturns, StopGuard, StopOther, Exit, runner
<1>9. CASE UNCHANGED vars
  BY <1>9 DEF vars, runner
<1> QED BY <1>2, <1>3, <1>4, <1>5, <1>6, <1>7, <1>8, <1>9 DEF Next, Run, Stop

\* A process that has served once never ends in a panic.
THEOREM ExitsCorrect == Spec => ServedExitsCleanly
<1>1. Grouped /\ StartsInOrder /\ Up /\ http = "serving" => Served
  BY DEF Up, Shut, Served, Grouped, Rest, ServStatuses, ServingStatuses
<1>2. Served => main # "panicked"
  BY DEF Served
<1> QED BY <1>1, <1>2, ServedStays, GroupedCorrect, OrderCorrect, UpCorrect, PTL
        DEF Spec, ServedExitsCleanly

=============================================================================
