--------------------------- MODULE LifecycleProofs ---------------------------
(***************************************************************************)
(* Main of the Data Source returns with no child left and never runs with  *)
(* some of the processes of a kind, for every nodes.csv, well formed or    *)
(* not, and every number of calls of the system that fail.                 *)
(***************************************************************************)
EXTENDS Lifecycle, FiniteSetTheorems, WellFoundedInduction, TLAPS

\* The nodes are numbered from 1.
Counted == \E n \in Nat : Child = 1..n

\* Before nodes.csv is read there is nothing.
LoadInv == main = "load" => nodes = <<>>

\* main has an open handle of every process that is alive.
HeldInv == \A i \in Child : Alive(i) => i \in handles

\* While the processes of a kind are launched, those are there that had their turn.
LaunchInv ==
    /\ \A kind \in {"CP", "DD"} : Launching(kind) =>
          done \subseteq Of(kind) /\ \A i \in Of(kind) : child[i] = "none" <=> i \notin done
    /\ main = "launchCP" => \A i \in Of("DD") : child[i] = "none"

\* The other passes of main are over the nodes of one kind, too.
PassInv ==
    /\ main \in {"signalCP", "closeCP", "waitCP"} => done \subseteq Of("CP")
    /\ main \in {"signalDD", "closeDD", "waitDD"} => done \subseteq Of("DD")

\* All processes of a kind have been started, or none of them is alive.
AllOrNothing(kind) ==
    \/ \A i \in Of(kind) : child[i] # "none"
    \/ \A i \in Of(kind) : ~Alive(i)

\* A kind whose launch is over is running as a whole or not at all.
LaunchedInv ==
    /\ main \notin {"load", "launchCP", "failed"} => AllOrNothing("CP")
    /\ main \notin {"load", "launchCP", "launchDD", "failed"} => AllOrNothing("DD")

\* The handles are closed in order, the propagators' first.
WaitInv ==
    /\ main = "waitCP" => handles \cap done = {}
    /\ main = "waitDD" => handles \cap Of("CP") = {} /\ handles \cap done = {}
    /\ main = "exited" => handles = {}

\* The end of main has closed the job object.
FailedInv == main = "failed" => \A i \in bound : ~Alive(i)

\* Where main is decides about the rest.
MainInv == LoadInv /\ LaunchInv /\ PassInv /\ LaunchedInv /\ WaitInv /\ FailedInv

\* The inductive invariant.
IInv == TypeOK /\ Counted /\ HeldInv /\ MainInv

-----------------------------------------------------------------------------
(* Rows and turns *)

\* A set of nodes has a first one.
LEMMA Least ==
    ASSUME NEW S \in SUBSET Nat, S # {}
    PROVE  \E x \in S : \A y \in S : x <= y
<1> DEFINE R == OpToRel(<, Nat)
<1>1. IsWellFoundedOn(R, Nat)
  BY NatLessThanWellFounded
<1>2. \A x, y \in Nat : y < x => <<y, x>> \in R
  BY DEF OpToRel
<1> HIDE DEF R
<1>3. PICK x \in S : \A y \in S : ~(<<y, x>> \in R)
  BY <1>1, WFMin
<1>4. \A y \in S : ~(y < x)
  BY <1>2, <1>3
<1>5. \A y \in S : x <= y
  BY <1>4
<1> QED
  BY <1>5

\* A pass that is not over has a next node.
LEMMA TurnIn ==
    ASSUME Counted, NEW kind, done \subseteq Of(kind), done # Of(kind)
    PROVE  Turn(kind) \in Of(kind) /\ Turn(kind) \notin done
<1> DEFINE S == Of(kind) \ done
<1>1. S \in SUBSET Nat /\ S # {}
  <2>1. Child \subseteq Nat
    BY DEF Counted
  <2>2. Of(kind) \subseteq Nat
    BY <2>1 DEF Of
  <2> QED
    BY <2>2
<1> HIDE DEF S
<1>2. \E x \in S : \A y \in S : x <= y
  BY <1>1, Least
<1>3. Min(S) \in S
  BY <1>2 DEF Min
<1> QED
  BY <1>3 DEF S, Turn

\* The rows of the array are numbered, whatever the file.
LEMMA RowsCounted ==
    ASSUME NEW f \in Files \cup {<<>>}
    PROVE  \E n \in Nat : DOMAIN node_load_all(f) = 1..n
<1> DEFINE kept == {l \in DOMAIN f : Len(Tokens(f[l])) >= 3}
<1>1. \E m \in Nat : DOMAIN f = 1..m
  <2>1. CASE f \in Files
    BY <2>1, LifecycleAssumption
  <2>2. CASE f = <<>>
    BY <2>2
  <2> QED
    BY <2>1, <2>2
<1>2. IsFiniteSet(DOMAIN f)
  BY <1>1, FS_Interval
<1>3. IsFiniteSet(kept)
  BY <1>2, FS_Subset
<1>4. Cardinality(kept) \in Nat
  BY <1>3, FS_CardinalityType
<1>5. DOMAIN node_load_all(f) = 1..Cardinality(kept)
  BY DEF node_load_all, Rows
<1> QED
  BY <1>4, <1>5

-----------------------------------------------------------------------------
(* What a step does to the children *)

\* The states of a process.
Status == {"none", "starting", "running", "stopping", "hung", "exited", "killed"}

\* No process is started, and none comes back.
Fades ==
    /\ nodes' = nodes
    /\ child' \in [Child -> Status]
    /\ \A i \in Child : /\ child'[i] = "none" <=> child[i] = "none"
                        /\ Alive(i)' => Alive(i)

\* What holds of processes still holds when some have ended.
LEMMA Faded ==
    ASSUME TypeOK, Fades
    PROVE  /\ Child' = Child
           /\ Of("CP")' = Of("CP") /\ Of("DD")' = Of("DD")
           /\ Counted => Counted'
           /\ HeldInv /\ handles' = handles => HeldInv'
           /\ AllOrNothing("CP") => AllOrNothing("CP")'
           /\ AllOrNothing("DD") => AllOrNothing("DD")'
<1>1. Child' = Child
  BY DEF Fades, Child
<1>2. Of("CP")' = Of("CP") /\ Of("DD")' = Of("DD")
  BY DEF Fades, Of, Child, Kind
<1>3. Counted => Counted'
  BY <1>1 DEF Counted
<1>4. HeldInv /\ handles' = handles => HeldInv'
  BY <1>1 DEF HeldInv, Fades
<1>5. Of("CP") \subseteq Child /\ Of("DD") \subseteq Child
  BY DEF Of
<1>6. AllOrNothing("CP") => AllOrNothing("CP")'
  BY <1>2, <1>5 DEF AllOrNothing, Fades
<1>7. AllOrNothing("DD") => AllOrNothing("DD")'
  BY <1>2, <1>5 DEF AllOrNothing, Fades
<1> QED
  BY <1>1, <1>2, <1>3, <1>4, <1>6, <1>7

\* TerminateProcess ends processes.
LEMMA KillFades ==
    ASSUME TypeOK, NEW S, Kill(S), nodes' = nodes
    PROVE  Fades /\ \A i \in Child : i \in S => ~Alive(i)'
<1>1. \A i \in Child : child'[i] = IF i \in S /\ Alive(i) THEN "killed" ELSE child[i]
  BY DEF Kill
<1>2. child' \in [Child -> Status]
  BY DEF Kill, TypeOK, Status
<1> QED
  BY <1>1, <1>2 DEF Fades, Alive

\* A step that leaves the processes alone starts none.
LEMMA SameFades ==
    ASSUME TypeOK, UNCHANGED <<nodes, child>>
    PROVE  Fades
BY DEF TypeOK, Status, Fades, Alive

\* The variables that nothing else depends on keep their types.
Rest ==
    /\ file' \in Files \cup {<<>>}
    /\ job' \in {"none", "plain", "kill"}
    /\ told' \subseteq {i \in Child : child[i] # "none"}
    /\ linked' \subseteq Of("DD")
    /\ sleeping' \in BOOLEAN
    /\ failures' \in 0..MaxFailures

\* A step that starts no process and closes at most some handles keeps IInv, if
\* it keeps what depends on the position of main.
LEMMA Keeps ==
    ASSUME IInv, Fades, Rest, handles' \subseteq handles, bound' = bound, HeldInv',
           main' \in {"load", "launchCP", "launchDD", "await", "start", "run", "signalDD",
                      "signalCP", "join", "closeCP", "closeDD", "closeJob", "waitCP",
                      "waitDD", "exited", "failed"},
           done' \subseteq Child, MainInv'
    PROVE  IInv'
<1>1. Child' = Child /\ Of("DD")' = Of("DD") /\ Counted'
  BY Faded DEF IInv
<1>2. \A i \in Child : child'[i] = "none" <=> child[i] = "none"
  BY DEF Fades
<1>3. bound' \cup told' \cup handles' \subseteq {i \in Child : child'[i] # "none"}
  BY <1>2 DEF IInv, TypeOK, Rest
<1>4. TypeOK'
  BY <1>1, <1>3 DEF TypeOK, Rest, Fades, Status
<1> QED
  BY <1>1, <1>4 DEF IInv
-----------------------------------------------------------------------------
(* The children *)

\* A child that runs, stops, connects or is interrupted preserves IInv.
LEMMA ChildStepInv ==
    ASSUME IInv, NEW i \in Child, ChildStep(i)
    PROVE  IInv'
<1>1. UNCHANGED <<file, nodes, main, handles, bound, job, done, sleeping>>
  BY DEF ChildStep, ChildRuns, ChildStarts, ChildStops, ChildExits, ChildHangs,
     ChildFails, Connect,
     console_handler, jobVars
<1>2. TypeOK
  BY DEF IInv
<1>3. Fades
  <2>1. \/ child' = child
        \/ Alive(i) /\ \E s \in {"running", "stopping", "hung", "exited"} : child' = [child EXCEPT ![i] = s]
    BY DEF ChildStep, ChildRuns, ChildStarts, ChildStops, ChildExits, ChildHangs,
     ChildFails, Connect,
       console_handler, Alive
  <2>2. CASE child' = child
    BY <1>1, <1>2, <2>2, SameFades
  <2>3. ASSUME Alive(i), NEW s \in {"running", "stopping", "hung", "exited"}, child' = [child EXCEPT ![i] = s]
        PROVE  Fades
    <3>1. child \in [Child -> Status]
      BY <1>2 DEF TypeOK, Status
    <3>2. child' \in [Child -> Status]
      BY <2>3, <3>1 DEF Status
    <3>3. \A j \in Child : child'[j] = IF j = i THEN s ELSE child[j]
      BY <2>3, <3>1
    <3>4. \A j \in Child : (child'[j] = "none" <=> child[j] = "none") /\ (Alive(j)' => Alive(j))
      BY <2>3, <3>3 DEF Alive
    <3> QED
      BY <1>1, <3>2, <3>4 DEF Fades
  <2> QED
    BY <2>1, <2>2, <2>3
<1>4. Rest
  <2>1. told' \subseteq told \cup {i} \cup Listening(i)
    BY DEF ChildStep, ChildRuns, ChildStarts, ChildStops, ChildExits, ChildHangs,
     ChildFails, Connect,
       console_handler
  <2>2. told' = told \/ child[i] # "none"
    BY DEF ChildStep, ChildRuns, ChildStarts, ChildStops, ChildExits, ChildHangs,
     ChildFails, Connect,
       console_handler
  <2>3. Listening(i) \subseteq {j \in Child : child[j] # "none"}
    BY DEF Listening, HasEvent, Of
  <2>4. told \subseteq {j \in Child : child[j] # "none"}
    BY <1>2 DEF TypeOK
  <2>5. told' \subseteq {j \in Child : child[j] # "none"}
    BY <2>1, <2>2, <2>3, <2>4
  <2>6. linked' \subseteq Of("DD")
    BY <1>2 DEF ChildStep, ChildRuns, ChildStarts, ChildStops, ChildExits, ChildHangs,
     ChildFails, Connect,
       console_handler, Of, TypeOK
  <2>7. failures' \in 0..MaxFailures
    BY <1>2, LifecycleAssumption DEF ChildStep, ChildRuns, ChildStarts, ChildStops, ChildExits,
       ChildHangs, ChildFails, Connect, console_handler, Fails, TypeOK
  <2> QED
    BY <1>1, <1>2, <2>5, <2>6, <2>7 DEF Rest, TypeOK
<1>5. /\ Of("CP")' = Of("CP") /\ Of("DD")' = Of("DD") /\ HeldInv'
      /\ AllOrNothing("CP") => AllOrNothing("CP")'
      /\ AllOrNothing("DD") => AllOrNothing("DD")'
  BY <1>1, <1>2, <1>3, Faded DEF IInv
<1>6. LaunchInv'
  <2>1. Of("CP") \subseteq Child /\ Of("DD") \subseteq Child
    BY DEF Of
  <2>2. \A j \in Child : child'[j] = "none" <=> child[j] = "none"
    BY <1>3 DEF Fades
  <2> QED
    BY <1>1, <1>5, <2>1, <2>2 DEF IInv, MainInv, LaunchInv, Launching
<1>7. FailedInv'
  <2>1. bound \subseteq Child
    BY <1>2 DEF TypeOK
  <2> QED
    BY <1>1, <1>3, <2>1 DEF IInv, MainInv, FailedInv, Fades
<1>8. LoadInv' /\ PassInv' /\ LaunchedInv' /\ WaitInv'
  BY <1>1, <1>5 DEF IInv, MainInv, LoadInv, PassInv, LaunchedInv, WaitInv
<1> QED
  BY <1>1, <1>2, <1>3, <1>4, <1>5, <1>6, <1>7, <1>8, Keeps DEF MainInv, TypeOK

-----------------------------------------------------------------------------
(* main *)

\* main gives up: the job object is closed with the process.
LEMMA AbortInv ==
    ASSUME IInv, Abort, UNCHANGED <<file, nodes, told, linked, bound, handles, sleeping>>,
           job' \in {"none", "plain", "kill"}, failures' \in 0..MaxFailures
    PROVE  IInv'
<1>1. TypeOK
  BY DEF IInv
<1>2. Fades /\ \A i \in Child : i \in bound => ~Alive(i)'
  BY <1>1, KillFades DEF Abort
<1>3. main' = "failed" /\ done' = done
  BY DEF Abort
<1>4. HeldInv'
  BY <1>1, <1>2, Faded DEF IInv
<1>5. MainInv'
  <2>1. bound \subseteq Child
    BY <1>1 DEF TypeOK
  <2>2. FailedInv'
    BY <1>2, <2>1 DEF FailedInv
  <2> QED
    BY <1>3, <2>2 DEF MainInv, LoadInv, LaunchInv, Launching, PassInv, LaunchedInv, WaitInv
<1>6. Rest
  BY <1>1 DEF Rest, TypeOK
<1> QED
  BY <1>1, <1>2, <1>3, <1>4, <1>5, <1>6, Keeps DEF TypeOK

\* main goes from one loop to the next, after the launch.
LEMMA GoToInv ==
    ASSUME IInv, Fades, UNCHANGED <<file, told, linked, bound, sleeping>>,
           handles' \subseteq handles, HeldInv',
           job' \in {"none", "plain", "kill"}, failures' \in 0..MaxFailures,
           NEW to \in {"await", "start", "run", "signalDD", "signalCP", "join", "closeCP", "closeDD",
                       "closeJob", "waitCP", "waitDD", "exited"}, GoTo(to),
           AllOrNothing("CP")', AllOrNothing("DD")',
           to = "waitDD" => handles' \cap Of("CP") = {},
           to = "exited" => handles' = {}
    PROVE  IInv'
<1>1. TypeOK
  BY DEF IInv
<1>2. main' = to /\ done' = {}
  BY DEF GoTo
<1>3. Of("CP")' = Of("CP") /\ Of("DD")' = Of("DD")
  BY <1>1, Faded
<1>4. MainInv'
  BY <1>2, <1>3 DEF MainInv, LoadInv, LaunchInv, Launching, PassInv, LaunchedInv, WaitInv, FailedInv
<1>5. Rest
  BY <1>1 DEF Rest, TypeOK
<1> QED
  BY <1>1, <1>2, <1>3, <1>4, <1>5, Keeps

\* One turn of a pass after the launch.
LEMMA TurnInv ==
    ASSUME IInv, Fades, NEW kind \in {"CP", "DD"}, NEW point,
           point \in (IF kind = "CP" THEN {"signalCP", "closeCP", "waitCP"}
                                     ELSE {"signalDD", "closeDD", "waitDD"}),
           TakesTurn(kind, point), UNCHANGED <<linked, job, bound>>,
           told' \subseteq {i \in Child : child[i] # "none"},
           handles' \subseteq handles, HeldInv',
           point \in {"waitCP", "waitDD"} => Turn(kind) \notin handles'
    PROVE  IInv'
<1>1. TypeOK
  BY DEF IInv
<1>2. /\ main = point /\ main' = main /\ done' = done \cup {Turn(kind)} /\ done # Of(kind)
      /\ UNCHANGED <<file, nodes, sleeping, failures>>
  BY DEF TakesTurn
<1>3. done \subseteq Of(kind)
  BY <1>2 DEF IInv, MainInv, PassInv
<1>4. Turn(kind) \in Of(kind)
  BY <1>2, <1>3, TurnIn DEF IInv
<1>5. /\ Of("CP")' = Of("CP") /\ Of("DD")' = Of("DD")
      /\ AllOrNothing("CP") => AllOrNothing("CP")'
      /\ AllOrNothing("DD") => AllOrNothing("DD")'
  BY <1>1, Faded
<1>6. done' \subseteq Of(kind)
  BY <1>2, <1>3, <1>4
<1>7. PassInv'
  BY <1>2, <1>5, <1>6 DEF PassInv
<1>8. LaunchedInv'
  BY <1>2, <1>5 DEF IInv, MainInv, LaunchedInv
<1>9. WaitInv'
  <2>1. ASSUME main \in {"waitCP", "waitDD"} PROVE handles' \cap done' = {}
    BY <1>2, <2>1 DEF IInv, MainInv, WaitInv
  <2>2. ASSUME main = "waitDD" PROVE handles' \cap Of("CP")' = {}
    BY <1>5, <2>2 DEF IInv, MainInv, WaitInv
  <2> QED
    BY <1>2, <2>1, <2>2 DEF WaitInv
<1>10. LoadInv' /\ LaunchInv' /\ FailedInv'
  BY <1>2 DEF LoadInv, LaunchInv, Launching, FailedInv
<1>11. Rest
  BY <1>1, <1>2 DEF Rest, TypeOK
<1>12. done' \subseteq Child
  BY <1>6 DEF Of
<1> QED
  BY <1>1, <1>2, <1>7, <1>8, <1>9, <1>10, <1>11, <1>12, Keeps DEF MainInv, TypeOK

\* A step that none of the conjuncts is about.
LEMMA StillInv ==
    ASSUME IInv, UNCHANGED <<nodes, main, child, told, linked, handles, bound, done>>,
           file' \in Files \cup {<<>>}, job' \in {"none", "plain", "kill"},
           sleeping' \in BOOLEAN, failures' \in 0..MaxFailures
    PROVE  IInv'
<1>1. Child' = Child /\ Of("CP")' = Of("CP") /\ Of("DD")' = Of("DD")
  BY DEF Child, Of, Kind
<1>2. \A i : Alive(i)' <=> Alive(i)
  BY DEF Alive
<1>3. TypeOK' /\ Counted' /\ HeldInv'
  BY <1>1, <1>2 DEF IInv, TypeOK, Counted, HeldInv
<1>4. LoadInv' /\ LaunchInv' /\ PassInv'
  BY <1>1 DEF IInv, MainInv, LoadInv, LaunchInv, Launching, PassInv
<1>5. LaunchedInv' /\ WaitInv' /\ FailedInv'
  BY <1>1, <1>2 DEF IInv, MainInv, LaunchedInv, AllOrNothing, WaitInv, FailedInv
<1> QED
  BY <1>3, <1>4, <1>5 DEF IInv, MainInv

\* After load_root there are nodes and no processes.
LEMMA LoadInvStep ==
    ASSUME IInv, load_root
    PROVE  IInv'
<1>1. main = "load" /\ nodes = <<>> /\ file' = <<>>
  BY DEF load_root, IInv, MainInv, LoadInv
<1>2. Child = {}
  BY <1>1 DEF Child
<1>3. /\ UNCHANGED <<told, linked, job, bound, handles, sleeping>>
      /\ told = {} /\ linked = {} /\ bound = {} /\ handles = {} /\ done = {}
      /\ job \in {"none", "plain", "kill"} /\ sleeping \in BOOLEAN
      /\ file \in Files \cup {<<>>} /\ failures \in 0..MaxFailures
  BY <1>2 DEF load_root, jobVars, IInv, TypeOK, Of
<1>4. CASE /\ nodes' = node_load_all(file)
           /\ child' = [i \in DOMAIN nodes' |-> "none"]
           /\ GoTo("launchCP")
           /\ UNCHANGED failures
  <2>1. main' = "launchCP" /\ done' = {} /\ Child' = DOMAIN nodes'
    BY <1>4 DEF GoTo, Child
  <2>2. Counted'
    BY <1>3, <1>4, <2>1, RowsCounted DEF Counted
  <2>3. \A i \in Child' : child'[i] = "none"
    BY <1>4, <2>1
  <2>4. \A kind : Of(kind)' \subseteq Child'
    BY DEF Of
  <2>5. TypeOK'
    BY <1>1, <1>3, <1>4, <2>1 DEF TypeOK
  <2>6. HeldInv'
    BY <2>3 DEF HeldInv, Alive
  <2>7. LaunchInv'
    BY <2>1, <2>3, <2>4 DEF LaunchInv, Launching
  <2>8. LoadInv' /\ PassInv' /\ LaunchedInv' /\ WaitInv' /\ FailedInv'
    BY <2>1 DEF LoadInv, PassInv, LaunchedInv, WaitInv, FailedInv
  <2> QED
    BY <2>2, <2>5, <2>6, <2>7, <2>8 DEF IInv, MainInv
<1>5. CASE Fails /\ main' = "failed" /\ UNCHANGED <<nodes, child, done>>
  <2>1. Fades
    BY <1>5, SameFades DEF IInv
  <2>2. Rest
    BY <1>1, <1>3, <1>5, LifecycleAssumption DEF Rest, Fails
  <2>3. HeldInv'
    BY <1>3, <2>1, Faded DEF IInv
  <2>4. MainInv'
    BY <1>3, <1>5 DEF MainInv, LoadInv, LaunchInv, Launching, PassInv, LaunchedInv, WaitInv, FailedInv
  <2> QED
    BY <1>3, <1>5, <2>1, <2>2, <2>3, <2>4, Keeps
<1> QED
  BY <1>4, <1>5 DEF load_root

-----------------------------------------------------------------------------
(* The launch *)

\* A launcher returns, whether it has launched its processes or none.
LEMMA AfterLaunchInv ==
    ASSUME IInv, Fades, NEW kind \in {"CP", "DD"}, Launching(kind), GoTo(AfterLaunch(kind)),
           UNCHANGED <<file, told, linked, bound, sleeping>>,
           handles' \subseteq handles, HeldInv',
           job' \in {"none", "plain", "kill"}, failures' \in 0..MaxFailures,
           AllOrNothing(kind)'
    PROVE  IInv'
<1>1. TypeOK
  BY DEF IInv
<1>2. /\ Of("CP")' = Of("CP") /\ Of("DD")' = Of("DD")
      /\ AllOrNothing("CP") => AllOrNothing("CP")'
  BY <1>1, Faded
<1>3. CASE kind = "DD"
  <2>1. main = "launchDD" /\ GoTo("await")
    BY <1>3 DEF Launching, AfterLaunch
  <2>2. AllOrNothing("CP")'
    BY <1>2, <2>1 DEF IInv, MainInv, LaunchedInv
  <2> QED
    BY <1>3, <2>1, <2>2, GoToInv
<1>4. CASE kind = "CP"
  <2>1. main = "launchCP" /\ main' = "launchDD" /\ done' = {}
    BY <1>4 DEF Launching, AfterLaunch, GoTo
  <2>2. \A i \in Of("DD") : child'[i] = "none"
    <3>1. Of("DD") \subseteq Child
      BY DEF Of
    <3> QED
      BY <2>1, <3>1 DEF IInv, MainInv, LaunchInv, Fades
  <2>3. LaunchInv'
    BY <1>2, <2>1, <2>2 DEF LaunchInv, Launching
  <2>4. LoadInv' /\ PassInv' /\ LaunchedInv' /\ WaitInv' /\ FailedInv'
    BY <1>4, <2>1 DEF LoadInv, PassInv, LaunchedInv, WaitInv, FailedInv
  <2>5. Rest
    BY <1>1 DEF Rest, TypeOK
  <2> QED
    BY <2>1, <2>3, <2>4, <2>5, Keeps DEF MainInv
<1> QED
  BY <1>3, <1>4

\* The launcher returns before it has launched anything.
LEMMA GarbageInv ==
    ASSUME IInv, NEW kind \in {"CP", "DD"}, Launching(kind), done = {}, ReturnsGarbage(kind),
           UNCHANGED <<file, nodes, told, linked, bound, handles, sleeping>>,
           job' \in {"none", "plain", "kill"}, failures' \in 0..MaxFailures
    PROVE  IInv'
<1>1. CASE Abort
  BY <1>1, AbortInv
<1>2. CASE GoTo(AfterLaunch(kind)) /\ UNCHANGED child
  <2>1. Fades
    BY <1>2, SameFades DEF IInv
  <2>2. HeldInv'
    BY <2>1, Faded DEF IInv
  <2>3. AllOrNothing(kind)
    BY DEF IInv, MainInv, LaunchInv, AllOrNothing, Alive
  <2>4. AllOrNothing(kind)'
    BY <2>1, <2>3, Faded DEF IInv
  <2> QED
    BY <1>2, <2>1, <2>2, <2>4, AfterLaunchInv
<1> QED
  BY <1>1, <1>2 DEF ReturnsGarbage

\* A process is launched.
LEMMA LaunchStep ==
    ASSUME IInv, NEW kind \in {"CP", "DD"}, Launch(kind)
    PROVE  IInv'
<1>1. TypeOK /\ Launching(kind)
  BY DEF IInv, Launch, HasJob
<1>2. done \subseteq Of(kind) /\ done # Of(kind)
  BY <1>1 DEF Launch, IInv, MainInv, LaunchInv
<1>3. PICK i : i = Turn(kind)
  OBVIOUS
<1>4. i \in Of(kind) /\ i \notin done /\ i \in Child /\ Kind(i) = kind
  BY <1>2, <1>3, TurnIn DEF IInv, Of
<1>5. /\ child' = [child EXCEPT ![i] = "starting"]
      /\ handles' = handles \cup {i} /\ done' = done \cup {i}
      /\ bound' = bound \/ bound' = bound \cup {i}
      /\ failures' \in 0..MaxFailures
      /\ UNCHANGED <<file, nodes, main, told, linked, job, sleeping>>
  BY <1>1, <1>3, LifecycleAssumption DEF Launch, Fails, TypeOK
<1>6. Child' = Child /\ Of("CP")' = Of("CP") /\ Of("DD")' = Of("DD") /\ Counted'
  BY <1>5 DEF IInv, Counted, Child, Of, Kind
<1>7. \A j \in Child : child'[j] = IF j = i THEN "starting" ELSE child[j]
  BY <1>1, <1>5 DEF TypeOK
<1>8. TypeOK'
  <2>1. child' \in [Child -> Status]
    BY <1>1, <1>5 DEF TypeOK, Status
  <2>2. bound' \cup told' \cup handles' \subseteq {j \in Child : child'[j] # "none"}
    BY <1>1, <1>4, <1>5, <1>7 DEF TypeOK
  <2> QED
    BY <1>1, <1>4, <1>5, <1>6, <2>1, <2>2 DEF TypeOK, Status
<1>9. HeldInv'
  BY <1>5, <1>6, <1>7 DEF IInv, HeldInv, Alive
<1>10. \A k \in {"CP", "DD"} : k # kind => i \notin Of(k)
  BY <1>4 DEF Of
<1>11. Of("CP") \subseteq Child /\ Of("DD") \subseteq Child
  BY DEF Of
<1>12. LaunchInv'
  <2>1. CASE kind = "CP"
    BY <1>1, <1>2, <1>4, <1>5, <1>6, <1>7, <1>10, <1>11, <2>1 DEF IInv, MainInv, LaunchInv, Launching
  <2>2. CASE kind = "DD"
    BY <1>1, <1>2, <1>4, <1>5, <1>6, <1>7, <1>10, <1>11, <2>2 DEF IInv, MainInv, LaunchInv, Launching
  <2> QED
    BY <2>1, <2>2
<1>13. LaunchedInv'
  <2>1. CASE kind = "CP"
    BY <1>1, <1>5, <2>1 DEF LaunchedInv, Launching
  <2>2. CASE kind = "DD"
    <3>1. main = "launchDD" /\ AllOrNothing("CP")
      BY <1>1, <2>2 DEF IInv, MainInv, LaunchedInv, Launching
    <3>2. \A j \in Of("CP") : child'[j] = child[j]
      BY <1>7, <1>10, <1>11, <2>2
    <3>3. AllOrNothing("CP")'
      BY <1>6, <3>1, <3>2 DEF AllOrNothing, Alive
    <3> QED
      BY <1>5, <3>1, <3>3 DEF LaunchedInv
  <2> QED
    BY <2>1, <2>2
<1>14. LoadInv' /\ PassInv' /\ WaitInv' /\ FailedInv'
  BY <1>1, <1>5 DEF LoadInv, PassInv, WaitInv, FailedInv, Launching
<1> QED
  BY <1>6, <1>8, <1>9, <1>12, <1>13, <1>14 DEF IInv, MainInv

\* A launcher, at any of its steps.
LEMMA LaunchAllInv ==
    ASSUME IInv, NEW kind \in {"CP", "DD"}, launch_all(kind)
    PROVE  IInv'
<1>1. TypeOK
  BY DEF IInv
<1>2. Fails => failures' \in 0..MaxFailures
  BY <1>1, LifecycleAssumption DEF Fails, TypeOK
<1>3. CASE create_job_object(kind)
  <2>1. CASE job' = "kill" /\ UNCHANGED <<main, child, done, failures>>
    BY <1>1, <1>3, <2>1, StillInv DEF create_job_object, TypeOK
  <2>2. CASE Fails /\ job' \in {"none", "plain"} /\ ReturnsGarbage(kind)
    <3>1. /\ Launching(kind) /\ done = {}
          /\ UNCHANGED <<file, nodes, told, linked, bound, handles, sleeping>>
      BY <1>3 DEF create_job_object
    <3> QED
      BY <1>2, <2>2, <3>1, GarbageInv
  <2> QED
    BY <1>3, <2>1, <2>2 DEF create_job_object
<1>4. CASE LaunchWithoutMemory(kind)
  <2>1. /\ Launching(kind) /\ done = {} /\ ReturnsGarbage(kind) /\ Fails
        /\ UNCHANGED <<file, nodes, told, linked, job, bound, handles, sleeping>>
    BY <1>4 DEF LaunchWithoutMemory, HasJob, jobVars
  <2> QED
    BY <1>1, <1>2, <2>1, GarbageInv DEF TypeOK
<1>5. CASE Launch(kind)
  BY <1>5, LaunchStep
<1>6. CASE LaunchFails(kind)
  <2>1. /\ Launching(kind) /\ Kill(done \cup bound) /\ Fails /\ job' = "none"
        /\ handles' = handles \ Of(kind) /\ GoTo(AfterLaunch(kind))
        /\ UNCHANGED <<file, nodes, told, linked, bound, sleeping>>
    BY <1>6 DEF LaunchFails, HasJob
  <2>2. Fades /\ \A i \in Child : i \in done \cup bound => ~Alive(i)'
    BY <1>1, <2>1, KillFades
  <2>3. \A i \in Of(kind) : i \in Child /\ ~Alive(i)'
    <3>1. ASSUME NEW i \in Of(kind), i \notin done PROVE ~Alive(i)
      BY <2>1, <3>1 DEF IInv, MainInv, LaunchInv, Alive
    <3>2. Of(kind) \subseteq Child
      BY DEF Of
    <3> QED
      BY <2>2, <3>1, <3>2 DEF Fades
  <2>4. Child' = Child /\ Of(kind)' = Of(kind)
    BY <1>1, <2>2, Faded
  <2>5. AllOrNothing(kind)'
    BY <2>3, <2>4 DEF AllOrNothing
  <2>6. HeldInv'
    BY <2>1, <2>2, <2>3, <2>4 DEF IInv, HeldInv, Fades
  <2> QED
    BY <1>2, <2>1, <2>2, <2>5, <2>6, AfterLaunchInv
<1>7. CASE LaunchEnds(kind)
  <2>1. /\ Launching(kind) /\ done = Of(kind) /\ GoTo(AfterLaunch(kind))
        /\ UNCHANGED <<file, nodes, child, told, linked, job, bound, handles, sleeping, failures>>
    BY <1>7 DEF LaunchEnds, HasJob, procVars, jobVars
  <2>2. Fades
    BY <1>1, <2>1, SameFades
  <2>3. AllOrNothing(kind)
    BY <2>1 DEF IInv, MainInv, LaunchInv, AllOrNothing
  <2>4. AllOrNothing(kind)' /\ HeldInv'
    BY <1>1, <2>1, <2>2, <2>3, Faded DEF IInv
  <2> QED
    BY <1>1, <2>1, <2>2, <2>4, AfterLaunchInv DEF TypeOK
<1> QED
  BY <1>3, <1>4, <1>5, <1>6, <1>7 DEF launch_all

-----------------------------------------------------------------------------
(* The rest of main *)

\* After the launch no step makes a kind partly running.
LEMMA LaunchedFrom ==
    ASSUME IInv, Fades, main \notin {"load", "launchCP", "launchDD", "failed"}
    PROVE  AllOrNothing("CP")' /\ AllOrNothing("DD")'
BY Faded DEF IInv, MainInv, LaunchedInv

\* The calls between the launch and the run: they succeed, or main gives up.
LEMMA GoesInv ==
    ASSUME IInv, NEW from \in {"await", "start"}, NEW to \in {"start", "run"}, Goes(from, to)
    PROVE  IInv'
<1>1. TypeOK
  BY DEF IInv
<1>2. main = from /\ UNCHANGED <<file, nodes, told, linked, job, bound, handles, sleeping>>
  BY DEF Goes, jobVars
<1>3. CASE GoTo(to) /\ UNCHANGED <<child, failures>>
  <2>1. Fades
    BY <1>1, <1>2, <1>3, SameFades
  <2>2. HeldInv'
    BY <1>1, <1>2, <2>1, Faded DEF IInv
  <2>3. AllOrNothing("CP")' /\ AllOrNothing("DD")'
    BY <1>2, <2>1, LaunchedFrom
  <2> QED
    BY <1>1, <1>2, <1>3, <2>1, <2>2, <2>3, GoToInv DEF TypeOK
<1>4. CASE Fails /\ Abort
  <2>1. failures' \in 0..MaxFailures
    BY <1>1, <1>4, LifecycleAssumption DEF Fails, TypeOK
  <2> QED
    BY <1>1, <1>2, <1>4, <2>1, AbortInv DEF TypeOK
<1> QED
  BY <1>3, <1>4 DEF Goes

\* main leaves a loop after the launch, and changes nothing else.
LEMMA LeavesInv ==
    ASSUME IInv, main \in {"run", "signalDD", "signalCP", "join", "closeCP", "closeDD", "waitCP", "waitDD"},
           NEW to \in {"signalDD", "signalCP", "join", "closeCP", "closeDD", "closeJob", "waitDD", "exited"},
           GoTo(to), UNCHANGED <<file, nodes, procVars, jobVars, sleeping, failures>>,
           to = "waitDD" => main = "waitCP" /\ done = Of("CP"),
           to = "exited" => main = "waitDD" /\ done = Of("DD")
    PROVE  IInv'
<1>1. TypeOK
  BY DEF IInv
<1>2. UNCHANGED <<file, nodes, child, told, linked, job, bound, handles, sleeping, failures>>
  BY DEF procVars, jobVars
<1>3. Fades
  BY <1>1, <1>2, SameFades
<1>4. HeldInv'
  BY <1>1, <1>2, <1>3, Faded DEF IInv
<1>5. AllOrNothing("CP")' /\ AllOrNothing("DD")'
  BY <1>3, LaunchedFrom
<1>6. to = "waitDD" => handles' \cap Of("CP") = {}
  BY <1>2 DEF IInv, MainInv, WaitInv
<1>7. to = "exited" => handles' = {}
  <2>1. \A i \in handles : i \in Of("CP") \/ i \in Of("DD")
    BY <1>1 DEF TypeOK, Of, Kind
  <2>2. to = "exited" => handles \cap Of("CP") = {} /\ handles \cap Of("DD") = {}
    BY DEF IInv, MainInv, WaitInv
  <2> QED
    BY <1>2, <2>1, <2>2
<1> QED
  BY <1>1, <1>2, <1>3, <1>4, <1>5, <1>6, <1>7, GoToInv DEF TypeOK

\* The passes that set the exit events.
LEMMA SignalInv ==
    ASSUME IInv, SignalDestinations \/ SignalPropagators
    PROVE  IInv'
<1>1. ASSUME NEW kind \in {"CP", "DD"}, NEW point,
             point = IF kind = "CP" THEN "signalCP" ELSE "signalDD",
             TakesTurn(kind, point), SetsEvent(Turn(kind))
      PROVE  IInv'
  <2>1. TypeOK
    BY DEF IInv
  <2>2. UNCHANGED <<nodes, child, linked, job, bound, handles>> /\ told' = told \cup Listening(Turn(kind))
    BY <1>1 DEF TakesTurn, SetsEvent, jobVars
  <2>3. Fades
    BY <2>1, <2>2, SameFades
  <2>4. HeldInv'
    BY <2>1, <2>2, <2>3, Faded DEF IInv
  <2>5. told' \subseteq {i \in Child : child[i] # "none"}
    <3>1. Listening(Turn(kind)) \subseteq {i \in Child : child[i] # "none"}
      BY DEF Listening, HasEvent, Of
    <3> QED
      BY <2>1, <2>2, <3>1 DEF TypeOK
  <2> QED
    BY <1>1, <2>2, <2>3, <2>4, <2>5, TurnInv
<1>2. CASE TakesTurn("DD", "signalDD") /\ SetsEvent(Turn("DD"))
  BY <1>1, <1>2
<1>3. CASE TakesTurn("CP", "signalCP") /\ SetsEvent(Turn("CP"))
  BY <1>1, <1>3
<1>4. CASE PassEnds("DD", "signalDD", "signalCP") \/ PassEnds("CP", "signalCP", "join")
  BY <1>4, LeavesInv DEF PassEnds
<1> QED
  BY <1>2, <1>3, <1>4 DEF SignalDestinations, SignalPropagators

\* gracefully_close_all.
LEMMA CloseInv ==
    ASSUME IInv, CloseWindowsOfPropagators \/ CloseWindowsOfDestinations
    PROVE  IInv'
<1>1. ASSUME NEW kind \in {"CP", "DD"}, NEW point,
             point = IF kind = "CP" THEN "closeCP" ELSE "closeDD",
             TakesTurn(kind, point), ClosesWindow(Turn(kind))
      PROVE  IInv'
  <2>1. TypeOK
    BY DEF IInv
  <2>2. UNCHANGED <<nodes, told, linked, job, bound, handles>>
    BY <1>1 DEF TakesTurn, ClosesWindow, jobVars
  <2>3. Fades
    <3>1. Kill({Turn(kind)}) \/ UNCHANGED child
      BY <1>1 DEF ClosesWindow
    <3> QED
      BY <2>1, <2>2, <3>1, KillFades, SameFades
  <2>4. HeldInv'
    BY <2>1, <2>2, <2>3, Faded DEF IInv
  <2>5. told' \subseteq {i \in Child : child[i] # "none"}
    BY <2>1, <2>2 DEF TypeOK
  <2> QED
    BY <1>1, <2>2, <2>3, <2>4, <2>5, TurnInv
<1>2. CASE TakesTurn("CP", "closeCP") /\ ClosesWindow(Turn("CP"))
  BY <1>1, <1>2
<1>3. CASE TakesTurn("DD", "closeDD") /\ ClosesWindow(Turn("DD"))
  BY <1>1, <1>3
<1>4. CASE PassEnds("CP", "closeCP", "closeDD") \/ PassEnds("DD", "closeDD", "closeJob")
  BY <1>4, LeavesInv DEF PassEnds
<1> QED
  BY <1>2, <1>3, <1>4 DEF CloseWindowsOfPropagators, CloseWindowsOfDestinations

\* cp_terminate_all closes the job object, which ends its processes.
LEMMA CloseJobInv ==
    ASSUME IInv, CloseJob
    PROVE  IInv'
<1>1. TypeOK
  BY DEF IInv
<1>2. /\ main = "closeJob" /\ Kill(bound) /\ job' = "none" /\ GoTo("waitCP")
      /\ UNCHANGED <<file, nodes, told, linked, bound, handles, sleeping, failures>>
  BY DEF CloseJob
<1>3. Fades
  BY <1>1, <1>2, KillFades
<1>4. HeldInv'
  BY <1>1, <1>2, <1>3, Faded DEF IInv
<1>5. AllOrNothing("CP")' /\ AllOrNothing("DD")'
  BY <1>2, <1>3, LaunchedFrom
<1> QED
  BY <1>1, <1>2, <1>3, <1>4, <1>5, GoToInv DEF TypeOK

\* The waits for the processes: a handle that is closed is that of a process that
\* has ended.
LEMMA WaitStep ==
    ASSUME IInv, WaitForPropagators \/ WaitForDestinations
    PROVE  IInv'
<1>1. ASSUME NEW kind \in {"CP", "DD"}, NEW point,
             point = IF kind = "CP" THEN "waitCP" ELSE "waitDD",
             TakesTurn(kind, point), AwaitsExit(Turn(kind))
      PROVE  IInv'
  <2>1. TypeOK
    BY DEF IInv
  <2>2. PICK i : i = Turn(kind)
    OBVIOUS
  <2>3. /\ i \in handles => ~Alive(i)
        /\ handles' = handles \ {i}
        /\ UNCHANGED <<nodes, child, told, linked, job, bound>>
    BY <1>1, <2>2 DEF TakesTurn, AwaitsExit, procVars
  <2>4. Fades
    BY <2>1, <2>3, SameFades
  <2>5. HeldInv'
    BY <2>3 DEF IInv, HeldInv, Child, Alive
  <2>6. told' \subseteq {j \in Child : child[j] # "none"}
    BY <2>1, <2>3 DEF TypeOK
  <2>7. Turn(kind) \notin handles' /\ handles' \subseteq handles
    BY <2>2, <2>3
  <2> QED
    BY <1>1, <2>3, <2>4, <2>5, <2>6, <2>7, TurnInv
<1>2. CASE TakesTurn("CP", "waitCP") /\ AwaitsExit(Turn("CP"))
  BY <1>1, <1>2
<1>3. CASE TakesTurn("DD", "waitDD") /\ AwaitsExit(Turn("DD"))
  BY <1>1, <1>3
<1>4. CASE PassEnds("CP", "waitCP", "waitDD") \/ PassEnds("DD", "waitDD", "exited")
  BY <1>4, LeavesInv DEF PassEnds
<1> QED
  BY <1>2, <1>3, <1>4 DEF WaitForPropagators, WaitForDestinations

-----------------------------------------------------------------------------
\* Before main has read nodes.csv, IInv holds.
LEMMA InitIInv == Init => IInv
<1> SUFFICES ASSUME Init PROVE IInv
  OBVIOUS
<1>1. Child = {} /\ \A kind : Of(kind) = {}
  BY DEF Init, Child, Of
<1>2. Counted
  <2>1. Child = 1..0 /\ 0 \in Nat
    BY <1>1
  <2> QED
    BY <2>1 DEF Counted
<1>3. TypeOK
  <2>1. child \in [Child -> {"none", "starting", "running", "stopping", "exited", "killed"}]
    BY <1>1 DEF Init
  <2>2. failures \in 0..MaxFailures
    BY LifecycleAssumption DEF Init
  <2>3. bound \cup told \cup handles = {} /\ done = {} /\ linked = {}
    BY DEF Init
  <2>4. sleeping \in BOOLEAN
    BY DEF Init
  <2> QED
    BY <2>1, <2>2, <2>3, <2>4 DEF Init, TypeOK
<1>4. HeldInv /\ MainInv
  BY <1>1 DEF Init, HeldInv, MainInv, LoadInv, LaunchInv, Launching, PassInv, LaunchedInv,
     WaitInv, FailedInv
<1> QED
  BY <1>2, <1>3, <1>4 DEF IInv

\* Every step of main and of the children preserves IInv.
LEMMA NextIInv == IInv /\ [Next]_vars => IInv'
<1> SUFFICES ASSUME IInv, [Next]_vars PROVE IInv'
  OBVIOUS
<1>1. CASE load_root
  BY <1>1, LoadInvStep
<1>2. CASE launch_all("CP") \/ launch_all("DD")
  BY <1>2, LaunchAllInv
<1>3. CASE await_cp_and_dd_propagation_objects \/ MainStarts
  BY <1>3, GoesInv DEF await_cp_and_dd_propagation_objects, MainStarts
<1>4. CASE SignalDestinations \/ SignalPropagators
  BY <1>4, SignalInv
<1>5. CASE JoinThreads
  BY <1>5, LeavesInv DEF JoinThreads
<1>6. CASE CloseWindowsOfPropagators \/ CloseWindowsOfDestinations
  BY <1>6, CloseInv
<1>7. CASE CloseJob
  BY <1>7, CloseJobInv
<1>8. CASE WaitForPropagators \/ WaitForDestinations
  BY <1>8, WaitStep
<1>9. CASE SenderSleeps
  <2>1. /\ UNCHANGED <<file, nodes, main, child, told, linked, job, handles, bound, done>>
        /\ sleeping' \in BOOLEAN
    BY <1>9 DEF SenderSleeps, procVars, jobVars
  <2>2. failures' \in 0..MaxFailures
    BY <1>9, LifecycleAssumption DEF SenderSleeps, Fails, IInv, TypeOK
  <2> QED
    BY <2>1, <2>2, StillInv DEF IInv, TypeOK
<1>10. CASE Stop
  BY <1>10, LeavesInv DEF Stop
<1>11. CASE \E i \in Child : ChildStep(i)
  BY <1>11, ChildStepInv
<1>12. CASE UNCHANGED vars
  <2>1. UNCHANGED <<file, nodes, main, child, told, linked, job, handles, bound, done, sleeping, failures>>
    BY <1>12 DEF vars, procVars, jobVars
  <2> QED
    BY <2>1, StillInv DEF IInv, TypeOK
<1> QED
  BY <1>1, <1>2, <1>3, <1>4, <1>5, <1>6, <1>7, <1>8, <1>9, <1>10, <1>11, <1>12
     DEF Next, MainStep

\* IInv holds in every reachable state.
LEMMA IInvHolds == Spec => []IInv
BY InitIInv, NextIInv, PTL DEF Spec

\* Type correctness, for every nodes.csv: in particular the tables of processes
\* and handles only ever name nodes that were launched.
THEOREM TypeCorrect == Spec => []TypeOK
<1>1. IInv => TypeOK
  BY DEF IInv
<1> QED
  BY <1>1, IInvHolds, PTL

\* When main has returned no child process is left, and when it gave up none that
\* its job object holds, for every nodes.csv and any number of failed calls.
THEOREM NoOrphansHolds == Spec => []NoOrphans
<1>1. IInv => NoOrphans
  <2> SUFFICES ASSUME IInv PROVE NoOrphans
    OBVIOUS
  <2>1. main = "exited" => \A i \in Child : ~Alive(i)
    BY DEF IInv, HeldInv, MainInv, WaitInv
  <2>2. main = "failed" => \A i \in Child : Alive(i) => i \notin bound
    BY DEF IInv, MainInv, FailedInv
  <2> QED
    BY <2>1, <2>2 DEF NoOrphans
<1> QED
  BY <1>1, IInvHolds, PTL

\* Main never runs with some of the processes of a kind: a launcher that fails
\* half way has ended what it started, for every nodes.csv.
THEOREM LaunchIsAllOrNothingHolds == Spec => []LaunchIsAllOrNothing
<1>1. IInv => LaunchIsAllOrNothing
  <2> SUFFICES ASSUME IInv, main \notin {"load", "launchCP", "launchDD", "failed"},
                      NEW kind \in {"CP", "DD"}
               PROVE  AllOrNothing(kind)
    BY DEF LaunchIsAllOrNothing, AllOrNothing
  <2> QED
    BY DEF IInv, MainInv, LaunchedInv
<1> QED
  BY <1>1, IInvHolds, PTL
=============================================================================
