----------------------------- MODULE Lifecycle -----------------------------
(***************************************************************************)
(* The processes of the system and their lives: main of the Data Source,   *)
(* the launcher with its job object, and one child process per node of     *)
(* nodes.csv, from its start to its exit event and its end.                *)
(*                                                                         *)
(* What a child does while it runs is the subject of other modules.  Here  *)
(* it starts, creates its exit event, obeys it and exits, or hangs when    *)
(* its main waits for a thread that it failed to tell to end; a Data       *)
(* Destination cannot exit while its parent is connected to it.  A call of *)
(* the system that can fail does so in at most MaxFailures steps.          *)
(***************************************************************************)
EXTENDS NodeLoader, FiniteSets

CONSTANTS
    Files,          \* the contents that nodes.csv may have
    MaxNodes,       \* bound: the lines of a file
    MaxFailures     \* bound: in how many steps a call of the system fails

ASSUME LifecycleAssumption ==
    /\ MaxNodes \in Nat /\ MaxFailures \in Nat
    /\ \A f \in Files : Len(f) \in 1..MaxNodes /\ DOMAIN f = 1..Len(f)

VARIABLES
    file,       \* nodes.csv; empty once it has been read
    nodes,      \* the array that node_load_all returned
    main,       \* where main of the Data Source is
    child,      \* child[i]: the process for node i
    job,        \* g_job: "none", or a "plain" or "kill" on close job object
    bound,      \* the children in a job that ends them when it is closed
    handles,    \* the children whose handles are open (g_cpProcs, g_ddProcs)
    done,       \* the nodes that the loop main is in has dealt with
    sleeping,   \* the sender waits for an item, and nobody will leave one
    told,       \* the children whose exit event is set
    linked,     \* the destinations their parent has connected to
    failures    \* how many steps have failed

procVars == <<child, told, linked>>
jobVars  == <<job, bound, handles>>
vars == <<file, nodes, main, procVars, jobVars, done, sleeping, failures>>

Child == DOMAIN nodes
Kind(i) == IF nodes[i].type = "DESTINATION" THEN "DD" ELSE "CP"
Of(kind) == {i \in Child : Kind(i) = kind}
Alive(i) == child[i] \in {"starting", "running", "stopping", "hung"}

Init ==
    /\ file \in Files
    /\ nodes = <<>>
    /\ main = "load"
    /\ child = <<>>
    /\ job = "none"
    /\ bound = {}
    /\ handles = {}
    /\ done = {}
    /\ sleeping = FALSE
    /\ told = {}
    /\ linked = {}
    /\ failures = 0

Fails == failures < MaxFailures /\ failures' = failures + 1

\* TerminateProcess on the children of S that are still there.
Kill(S) == child' = [i \in Child |-> IF i \in S /\ Alive(i) THEN "killed" ELSE child[i]]

\* main returns EXIT_FAILURE; the end of the process closes the job object too.
Abort ==
    /\ main' = "failed"
    /\ Kill(bound)
    /\ UNCHANGED done

\* main goes from one loop to the next.
GoTo(point) == main' = point /\ done' = {}

load_root ==
    /\ main = "load"
    /\ \/ /\ nodes' = node_load_all(file)
          /\ child' = [i \in DOMAIN nodes' |-> "none"]
          /\ GoTo("launchCP")
          /\ UNCHANGED failures
       \/ /\ Fails                              \* no file, or no memory
          /\ main' = "failed"
          /\ UNCHANGED <<nodes, child, done>>
    /\ file' = <<>>
    /\ UNCHANGED <<told, linked, jobVars, sleeping>>

-----------------------------------------------------------------------------
(* cp_launch_all and dd_launch_all *)

Launching(kind) == main = IF kind = "CP" THEN "launchCP" ELSE "launchDD"
AfterLaunch(kind) == IF kind = "CP" THEN "launchDD" ELSE "await"

\* The launcher returns NULL and leaves the caller's count as it was: an
\* uninitialized variable of main, which ends the process unless it is 0.
ReturnsGarbage(kind) ==
    \/ GoTo(AfterLaunch(kind)) /\ UNCHANGED child
    \/ Abort

\* The launcher finds no job object and makes one; it may be made and not get
\* its limit.
create_job_object(kind) ==
    /\ Launching(kind) /\ done = {} /\ job = "none"
    /\ \/ /\ job' = "kill"
          /\ UNCHANGED <<main, child, done, failures>>
       \/ /\ Fails
          /\ job' \in {"none", "plain"}
          /\ ReturnsGarbage(kind)
    /\ UNCHANGED <<file, nodes, told, linked, bound, handles, sleeping>>

HasJob(kind) == Launching(kind) /\ job # "none"

\* There is nothing to launch, or everything is launched.
LaunchEnds(kind) ==
    /\ HasJob(kind)
    /\ done = Of(kind)
    /\ GoTo(AfterLaunch(kind))
    /\ UNCHANGED <<file, nodes, procVars, jobVars, sleeping, failures>>

\* The array of process handles cannot be allocated.
LaunchWithoutMemory(kind) ==
    /\ HasJob(kind) /\ done = {} /\ Of(kind) # {}
    /\ Fails
    /\ ReturnsGarbage(kind)
    /\ UNCHANGED <<file, nodes, told, linked, jobVars, sleeping>>

\* The rows are taken in order.
Turn(kind) == Min(Of(kind) \ done)

\* CreateProcessA, then AssignProcessToJobObject, whose result is not tested.
Launch(kind) ==
    /\ HasJob(kind) /\ done # Of(kind)
    /\ LET i == Turn(kind) IN
       /\ child' = [child EXCEPT ![i] = "starting"]
       /\ handles' = handles \cup {i}
       /\ done' = done \cup {i}
       /\ \/ bound' = (IF job = "kill" THEN bound \cup {i} ELSE bound) /\ UNCHANGED failures
          \/ Fails /\ UNCHANGED bound
    /\ UNCHANGED <<file, nodes, main, told, linked, job, sleeping>>

\* Mutant: the launcher keeps what it has launched so far.
KeepsTheLaunched(kind) ==
    /\ HasJob(kind) /\ done # Of(kind)
    /\ Fails
    /\ GoTo(AfterLaunch(kind))
    /\ UNCHANGED <<file, nodes, procVars, jobVars, sleeping>>

\* CreateProcessA fails: what was launched is ended, the job is closed, and the
\* count becomes 0, for which main goes on.
LaunchFails(kind) ==
    /\ HasJob(kind) /\ done # Of(kind)
    /\ Fails
    /\ Kill(done \cup bound)
    /\ job' = "none"
    /\ handles' = handles \ Of(kind)
    /\ GoTo(AfterLaunch(kind))
    /\ UNCHANGED <<file, nodes, told, linked, bound, sleeping>>

launch_all(kind) ==
    \/ create_job_object(kind)
    \/ LaunchWithoutMemory(kind)
    \/ Launch(kind)
    \/ LaunchFails(kind)
    \/ LaunchEnds(kind)

-----------------------------------------------------------------------------
(* The rest of main *)

\* The calls of main between two loops; one that fails ends the process.
Goes(from, to) ==
    /\ main = from
    /\ \/ GoTo(to) /\ UNCHANGED <<child, failures>>
       \/ Fails /\ Abort
    /\ UNCHANGED <<file, nodes, told, linked, jobVars, sleeping>>

\* It waits for time to pass, or for a child to end, not for the children to be
\* ready, and uses what malloc returns without a test.
await_cp_and_dd_propagation_objects == Goes("await", "start")

\* The queue, the stop event and the two threads.
MainStarts == Goes("start", "run")

\* The sender has found the stop event reset and waits for ever: without a
\* destination the generator has returned and left no sentinel; otherwise there was
\* no memory for the sentinel, or no generator thread.
SenderSleeps ==
    /\ ~sleeping /\ sleeping' = TRUE
    /\ \/ main = "run" /\ Of("DD") = {} /\ UNCHANGED failures
       \/ main \in {"run", "signalDD", "signalCP", "join"} /\ Fails
    /\ UNCHANGED <<file, nodes, main, procVars, jobVars, done>>

\* The user presses Enter.
Stop ==
    /\ main = "run"
    /\ GoTo("signalDD")
    /\ UNCHANGED <<file, nodes, procVars, jobVars, sleeping, failures>>

\* Mutant: the event is taken to be there because its name is known.
SameName(i) == {j \in Of(Kind(i)) : nodes[j].id = nodes[i].id}

\* A child has its event from ChildStarts on; a destination that hangs and was never
\* told could not create it.
HasEvent(i) ==
    \/ child[i] \in {"running", "stopping"}
    \/ child[i] = "hung" /\ (i \in told \/ Kind(i) = "CP")

\* The processes that hold the event of node i: one name per kind and id.
Listening(i) == {j \in Of(Kind(i)) : nodes[j].id = nodes[i].id /\ HasEvent(j)}

\* The pass of main over the nodes of one kind, in order: a turn, and the end.
TakesTurn(kind, point) ==
    /\ main = point
    /\ done # Of(kind)
    /\ done' = done \cup {Turn(kind)}
    /\ UNCHANGED <<file, nodes, main, sleeping, failures>>

PassEnds(kind, point, next) ==
    /\ main = point
    /\ done = Of(kind)
    /\ GoTo(next)
    /\ UNCHANGED <<file, nodes, procVars, jobVars, sleeping, failures>>

\* OpenEventA finds the event if some process has created it.
SetsEvent(i) ==
    /\ told' = told \cup Listening(i)
    /\ UNCHANGED <<child, linked, jobVars>>

SignalDestinations ==
    \/ TakesTurn("DD", "signalDD") /\ SetsEvent(Turn("DD"))
    \/ PassEnds("DD", "signalDD", "signalCP")

SignalPropagators ==
    \/ TakesTurn("CP", "signalCP") /\ SetsEvent(Turn("CP"))
    \/ PassEnds("CP", "signalCP", "join")

\* The generator leaves a sentinel, so that the sender returns unless it waits
\* for one that is not coming (module Propagation).
JoinThreads ==
    /\ main = "join" /\ ~sleeping
    /\ GoTo("closeCP")
    /\ UNCHANGED <<file, nodes, procVars, jobVars, sleeping, failures>>

\* gracefully_close_all: EnumWindows returns FALSE when the callback has found a
\* window of the process and stopped, and the process is terminated; it returns
\* TRUE when there is no window, and the process is left alone.
ClosesWindow(i) ==
    /\ \/ i \in handles /\ Kill({i})
       \/ UNCHANGED child
    /\ UNCHANGED <<told, linked, jobVars>>

CloseWindowsOfPropagators ==
    \/ TakesTurn("CP", "closeCP") /\ ClosesWindow(Turn("CP"))
    \/ PassEnds("CP", "closeCP", "closeDD")

CloseWindowsOfDestinations ==
    \/ TakesTurn("DD", "closeDD") /\ ClosesWindow(Turn("DD"))
    \/ PassEnds("DD", "closeDD", "closeJob")

\* Mutant: the job object lets its members live.
CloseJobKillsNobody ==
    /\ main = "closeJob"
    /\ job' = "none"
    /\ GoTo("waitCP")
    /\ UNCHANGED <<file, nodes, procVars, bound, handles, sleeping, failures>>

\* cp_terminate_all closes the job object ...
CloseJob ==
    /\ main = "closeJob"
    /\ Kill(bound)
    /\ job' = "none"
    /\ GoTo("waitCP")
    /\ UNCHANGED <<file, nodes, told, linked, bound, handles, sleeping, failures>>

\* Mutant: handles are closed without waiting for their processes.
ClosesHandle(i) ==
    /\ handles' = handles \ {i}
    /\ UNCHANGED <<procVars, job, bound>>

\* ... and waits for every process before it closes its handles.
AwaitsExit(i) ==
    /\ i \in handles => ~Alive(i)
    /\ handles' = handles \ {i}
    /\ UNCHANGED <<procVars, job, bound>>

WaitForPropagators ==
    \/ TakesTurn("CP", "waitCP") /\ AwaitsExit(Turn("CP"))
    \/ PassEnds("CP", "waitCP", "waitDD")

\* The rest of main releases memory and returns.
WaitForDestinations ==
    \/ TakesTurn("DD", "waitDD") /\ AwaitsExit(Turn("DD"))
    \/ PassEnds("DD", "waitDD", "exited")

MainStep ==
    \/ load_root
    \/ launch_all("CP") \/ launch_all("DD")
    \/ await_cp_and_dd_propagation_objects \/ MainStarts
    \/ SignalDestinations \/ SignalPropagators
    \/ JoinThreads
    \/ CloseWindowsOfPropagators \/ CloseWindowsOfDestinations
    \/ CloseJob
    \/ WaitForPropagators \/ WaitForDestinations

-----------------------------------------------------------------------------
(* The children *)

\* main of the child up to CreateEventA, which opens the event if there is one.
ChildStarts(i) ==
    /\ child[i] = "starting"
    /\ child' = [child EXCEPT ![i] = "running"]
    /\ told' = IF Listening(i) \cap told # {} THEN told \cup {i} ELSE told
    /\ UNCHANGED <<file, nodes, main, linked, jobVars, done, sleeping, failures>>

\* One of the error paths of main.  A destination without its event calls
\* dd_destroy, a propagator without its listener cp_dispatcher_shutdown, and neither
\* need return.
ChildFails(i) ==
    /\ child[i] \in {"starting", "running"}
    /\ Fails
    /\ \/ child' = [child EXCEPT ![i] = "exited"]
       \/ /\ child[i] = IF Kind(i) = "DD" THEN "starting" ELSE "running"
          /\ child' = [child EXCEPT ![i] = "hung"]
    /\ UNCHANGED <<file, nodes, main, told, linked, jobVars, done, sleeping>>

\* A propagator connects to one of its destinations.
Connect(i) ==
    /\ Kind(i) = "DD" /\ child[i] = "running" /\ i \notin linked
    /\ child[nodes[i].parent] = "running"
    /\ linked' = linked \cup {i}
    /\ UNCHANGED <<file, nodes, main, child, told, jobVars, done, sleeping, failures>>

\* The wait for the exit event returns.
ChildStops(i) ==
    /\ child[i] = "running" /\ i \in told
    /\ child' = [child EXCEPT ![i] = "stopping"]
    /\ UNCHANGED <<file, nodes, main, told, linked, jobVars, done, sleeping, failures>>

\* main of the child waits for a thread that does not end: dd_destroy has closed the
\* field for the listening socket before the listener stored it there, which takes
\* no failing call, or there was no memory for a sentinel (modules DataDestination
\* and CentralPropagator).
ChildHangs(i) ==
    /\ \/ /\ child[i] = "running" /\ i \in told
          /\ Kind(i) = "DD" /\ i \notin linked
          /\ UNCHANGED failures
       \/ child[i] = "stopping" /\ Fails
    /\ child' = [child EXCEPT ![i] = "hung"]
    /\ UNCHANGED <<file, nodes, main, told, linked, jobVars, done, sleeping>>

\* The shutdown is over (modules CentralPropagator and DataDestination).
ChildExits(i) ==
    /\ child[i] = "stopping"
    /\ ~(i \in linked /\ Alive(nodes[i].parent))
    /\ child' = [child EXCEPT ![i] = "exited"]
    /\ UNCHANGED <<file, nodes, main, told, linked, jobVars, done, sleeping, failures>>

\* The user presses Ctrl+C in the window of a child, or closes the window, after
\* which the system ends the process when the handler returns.
console_handler(i) ==
    /\ child[i] \in {"running", "stopping"} /\ i \notin told
    /\ told' = told \cup Listening(i)
    /\ child' \in {child, [child EXCEPT ![i] = "exited"]}
    /\ UNCHANGED <<file, nodes, main, linked, jobVars, done, sleeping, failures>>

ChildRuns(i) == ChildStarts(i) \/ ChildStops(i) \/ ChildExits(i)

ChildStep(i) ==
    ChildRuns(i) \/ ChildHangs(i) \/ ChildFails(i) \/ Connect(i) \/ console_handler(i)

Next == MainStep \/ SenderSleeps \/ Stop \/ \E i \in Child : ChildStep(i)

Spec == Init /\ [][Next]_vars

\* main and the children run on; the user need not do anything.
FairSpec ==
    /\ Spec
    /\ WF_vars(MainStep)
    /\ \A i \in 1..MaxNodes : WF_vars(i \in Child /\ ChildRuns(i))

-----------------------------------------------------------------------------
(* Properties *)

TypeOK ==
    /\ file \in Files \cup {<<>>}
    /\ main \in {"load", "launchCP", "launchDD", "await", "start", "run", "signalDD", "signalCP",
                 "join", "closeCP", "closeDD", "closeJob", "waitCP", "waitDD",
                 "exited", "failed"}
    /\ child \in [Child -> {"none", "starting", "running", "stopping", "hung", "exited",
                          "killed"}]
    /\ job \in {"none", "plain", "kill"}
    /\ bound \cup told \cup handles \subseteq {i \in Child : child[i] # "none"}
    /\ done \subseteq Child
    /\ linked \subseteq Of("DD")
    /\ sleeping \in BOOLEAN
    /\ failures \in 0..MaxFailures

\* From a well formed nodes.csv, node_load_all makes the tree that the file
\* describes: ids, parent and child pointers in both directions, and the node
\* types that main launches and signals by.
LoadsATree ==
    [][main = "load" /\ main' # "failed" /\ WellFormed(file) => Represents(nodes', file)]_vars

\* When main has returned EXIT_SUCCESS no child process is left; when it gave up,
\* only children that no killing job object holds are.
NoOrphans ==
    /\ main = "exited" => \A i \in Child : ~Alive(i)
    /\ main = "failed" => \A i \in Child : Alive(i) => i \notin bound

\* A launcher that cannot start all of its processes leaves none of them running:
\* main, which goes on either way, never runs with some of a kind.
LaunchIsAllOrNothing ==
    \A kind \in {"CP", "DD"} :
       main \notin {"load", "launchCP", "launchDD", "failed"} =>
          \/ \A i \in Of(kind) : child[i] # "none"
          \/ \A i \in Of(kind) : ~Alive(i)

\* A child that closing the job object does not end, and that does not end either:
\* it was not there to be told, or it hangs.
OutOfReach(i) ==
    /\ i \notin bound
    /\ child[i] = "hung" \/ (child[i] = "running" /\ i \notin told)

\* After Enter main ends, whatever the children were doing when it told them,
\* unless the sender waits for a sentinel that nobody leaves, or main for a child
\* that is out of reach.
StopCompletes ==
    main = "signalDD" ~> \/ main = "exited"
                         \/ main = "join" /\ sleeping
                         \/ main \in {"waitCP", "waitDD"} /\ \E i \in handles : OutOfReach(i)

\* "DS announces shutdown by setting named events (...) so each process exits
\* gracefully" (README.md): no process is terminated in an orderly shutdown.
ExitsGracefully == main = "exited" => \A i \in Child : child[i] # "killed"
=============================================================================
