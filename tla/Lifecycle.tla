----------------------------- MODULE Lifecycle -----------------------------
(***************************************************************************)
(* The life of actors: spawning, stopping, passivation, supervision and    *)
(* restart (actor/pid.go), the tree that registers them                    *)
(* (actor/pid_tree.go), the death watch that cleans it                     *)
(* (actor/death_watch.go) and the shared supervision consumer              *)
(* (actor/supervision.go).                                                 *)
(*                                                                         *)
(* An actor is named (its path); every spawn of a name makes a new PID,    *)
(* <<name, incarnation>>.  Operations of the code that span several steps  *)
(* run on goroutines of their own, the tasks of this module: a task has a  *)
(* program counter, and a task that calls another waits until no task      *)
(* names it as its caller.                                                 *)
(***************************************************************************)
EXTENDS Integers, FiniteSets, Sequences, Functions

CONSTANTS
  Names,       \* names of user actors
  Root,        \* the user guardian, parent of the top-level actors
  Families,    \* the parents that the names may have
  Directive,   \* the supervisor directive of every name
  FailStart,   \* names whose PreStart may fail when restarted
  FailStop,    \* names whose PostStop may fail
  Ops,         \* <<operation, name>>: what the environment may start
  None,        \* no PID
  MaxInc,      \* bound on the incarnations of a name
  Scenarios,   \* the supervisors and the number of operations that the
               \* environment starts
  MaxTasks     \* bound on the tasks alive at once

ASSUME LifecycleAssumption ==
  /\ Root \notin Names
  /\ Families \subseteq [Names -> Names \cup {Root}]
  /\ Directive \in [Names -> {"stop", "restart", "resume", "escalate"}]
  /\ Scenarios \subseteq [oneForAll : SUBSET Names, retries : Nat, ops : Nat]
  /\ FailStart \subseteq Names /\ FailStop \subseteq Names
  /\ Ops \subseteq {"shutdown", "passivate", "restart", "spawn", "fail",
                    "reinstate"} \X Names
  /\ {MaxInc, MaxTasks} \subseteq Nat \ {0}

VARIABLES
  state,       \* PID.state: the flags that are set
  lock,        \* PID.stopLocker: the task that holds it, 0 when free
  armed,       \* PIDs registered with the passivation manager
  tree,        \* the actor tree
  terminated,  \* the death watch's mailbox: paths of Terminated messages
  counter,     \* actorSystem.actorsCounter
  failures,    \* supervision.queue: PIDs whose handler failed
  panicking,   \* Panicking messages on their way to the parents
  abandoned,   \* PIDs left suspended: the parent did not take the report,
               \* or the directive could not stop the actor
  tasks,       \* the goroutines at work
  supervisors, \* oneForAll: the names whose strategy includes the siblings,
               \* retries: the restarts that a directive with a retry window
               \* tries, 0 without one
  ops,         \* operations the environment may still start
  starts,      \* how often PreStart succeeded, by PID
  stops        \* how often PostStop ran, by PID

registry == <<tree, terminated, counter>>
reports == <<failures, panicking, abandoned>>
hooks == <<starts, stops>>
env == <<supervisors, ops>>
vars == <<state, lock, armed, registry, reports, tasks, env, hooks>>

Flags == {"running", "stopping", "suspended", "passivating", "paused",
          "skipNext"}
Pids == Names \X (1 .. MaxInc)
Guardian == <<Root, 0>>
Name(p) == p[1]
Ids == 1 .. MaxTasks

-----------------------------------------------------------------------------
(* The actor tree: pure operations on the value of the variable tree.      *)
(*   over[n]  the parent in the path of n, fixed when n is named            *)
(*   node[n]  the PID registered under n, or None                          *)
(*   kids[n]  the names in the node's descendants map                      *)
(*   up[n]    the node's parentNode points to a node still in the tree     *)
(*   watched  names whose watchers include the death watch                 *)

Registered(t, n) == n = Root \/ t.node[n] # None

\* n and every node reached from it through the descendants maps.
Subtree(t, n) ==
  {m \in Names : \A S \in SUBSET Names :
     (n \in S /\ \A x \in S : t.kids[x] \subseteq S) => m \in S}

AddNode(t, p) ==
  LET n == Name(p)
  IN  IF t.node[n] # None \/ ~Registered(t, t.over[n])
      THEN t
      ELSE [over    |-> t.over,
            node    |-> [t.node EXCEPT ![n] = p],
            kids    |-> [t.kids EXCEPT ![n] = {}, ![t.over[n]] = @ \cup {n}],
            up      |-> [t.up EXCEPT ![n] = TRUE],
            watched |-> t.watched \ {n}]

AttachNode(t, p) ==
  LET n == Name(p)
  IN  [t EXCEPT !.kids[t.over[n]] = @ \cup {n}, !.up[n] = TRUE]

AddOrAttachNode(t, p) ==
  IF t.node[Name(p)] # None THEN AttachNode(t, p) ELSE AddNode(t, p)

RemoveDescendant(t, n) == [t EXCEPT !.kids[t.over[n]] = @ \ {n}]

AddWatcher(t, n) ==
  IF t.node[n] = None THEN t ELSE [t EXCEPT !.watched = @ \cup {n}]

\* Mutant of DeleteNode: the parent keeps its link to the deleted node.
DeleteNodeKeepLink(t, n) ==
  LET D == Subtree(t, n)
  IN  IF t.node[n] = None
      THEN t
      ELSE [t EXCEPT !.node = [m \in Names |-> IF m \in D THEN None ELSE @[m]],
                     !.up   = [m \in Names |->
                                 @[m] /\ m \notin D /\ t.over[m] \notin D],
                     !.watched = @ \ D]

DeleteNode(t, n) ==
  LET D == Subtree(t, n)
  IN  IF t.node[n] = None
      THEN t
      ELSE [over    |-> t.over,
            node    |-> [m \in Names |-> IF m \in D THEN None ELSE t.node[m]],
            kids    |-> [m \in Names \cup {Root} |->
                           IF m \in D THEN {}
                           ELSE t.kids[m] \ {x \in D : t.up[x]}],
            up      |-> [m \in Names |->
                           t.up[m] /\ m \notin D /\ t.over[m] \notin D],
            watched |-> t.watched \ D]

Parent(t, n) ==
  CASE t.node[n] = None \/ ~t.up[n] -> None
    [] t.over[n] = Root           -> Guardian
    [] OTHER                        -> t.node[t.over[n]]

Siblings(t, n) ==
  IF t.node[n] = None \/ ~t.up[n] THEN {} ELSE t.kids[t.over[n]] \ {n}

-----------------------------------------------------------------------------
(* Flags and tasks.                                                        *)

Unavailable == {"stopping", "passivating", "suspended"}

IsRunning(p) ==
  p # Guardian => "running" \in state[p] /\ state[p] \cap Unavailable = {}

IsSuspended(p) == "suspended" \in state[p]

Alive(p) == IsSuspended(p) \/ IsRunning(p)

\* The passivation manager has one entry for a name.
Disarm(p) == {q \in armed : Name(q) # Name(p)}
Arm(p) == Disarm(p) \cup {p}

Idle == [op |-> "idle"]
Active == {i \in Ids : tasks[i] # Idle}

Task(op, p, pc, by) ==
  [op |-> op, pid |-> p, pc |-> pc, by |-> by, failed |-> FALSE,
   subtree |-> {}, parent |-> None, count |-> FALSE, then |-> "done",
   for |-> None, tries |-> 0]

\* The tasks S start, each in a free slot.
Fork(ts, S) ==
  LET f == CHOOSE f \in Injection(S, {i \in Ids : ts[i] = Idle}) : TRUE
  IN  [i \in Ids |-> IF \E s \in S : f[s] = i
                     THEN CHOOSE s \in S : f[s] = i
                     ELSE ts[i]]

\* Task i returns to its caller, with an error when ok is FALSE; the
\* goroutine of a supervisor directive goes on with what the call is for.
Return(ts, i, ok) ==
  [j \in Ids |->
     CASE j = i /\ ts[i].then = "done" -> Idle
       [] j = i /\ ts[i].then # "done" ->
            [Task(ts[i].then, ts[i].pid, "returned", 0) EXCEPT
               !.failed = ~ok, !.for = ts[i].for, !.tries = ts[i].tries]
       [] j = ts[i].by /\ ~ok -> [ts[j] EXCEPT !.failed = TRUE]
       [] OTHER -> ts[j]]

GoTo(i, pc) == [tasks EXCEPT ![i].pc = pc]

\* Mutant of Waiting: a call that does not wait for its goroutines.
NeverWaiting(i) == FALSE

Waiting(i) == \E j \in Active : tasks[j].by = i

At(i, op, pc) == i \in Active /\ tasks[i].op = op /\ tasks[i].pc = pc

Stops == {"shutdown", "passivate"}
AtStop(i, pc) == i \in Active /\ tasks[i].op \in Stops /\ tasks[i].pc = pc

-----------------------------------------------------------------------------
(* Stopping: Shutdown and tryPassivation up to the lock, then doStop.      *)

\* Shutdown of an actor that is not running returns at once.
ShutdownOffline(i) ==
  /\ At(i, "shutdown", "lock") /\ lock[tasks[i].pid] = 0
  /\ "running" \notin state[tasks[i].pid]
  /\ tasks' = Return(tasks, i, TRUE)
  /\ UNCHANGED <<state, lock, armed, registry, reports, env, hooks>>

\* Mutant of ShutdownLock: it does not look at the running flag.
ShutdownLockBlindly(i) ==
  LET p == tasks[i].pid
  IN  /\ At(i, "shutdown", "lock") /\ lock[p] = 0
      /\ state' = [state EXCEPT ![p] = @ \cup {"stopping"}]
      /\ lock' = [lock EXCEPT ![p] = i]
      /\ armed' = Disarm(p)
      /\ tasks' = GoTo(i, "children")
      /\ UNCHANGED <<registry, reports, env, hooks>>

\* Shutdown takes the stop lock and marks the actor as stopping.
ShutdownLock(i) ==
  LET p == tasks[i].pid
  IN  /\ At(i, "shutdown", "lock") /\ lock[p] = 0
      /\ "running" \in state[p]
      /\ state' = [state EXCEPT ![p] = @ \cup {"stopping"}]
      /\ lock' = [lock EXCEPT ![p] = i]
      /\ armed' = Disarm(p)
      /\ tasks' = GoTo(i, "children")
      /\ UNCHANGED <<registry, reports, env, hooks>>

\* tryPassivation before the lock: a skip mark or an unfit state ends it.
PassivationCheck(i) ==
  LET p == tasks[i].pid
  IN  /\ At(i, "passivate", "check")
      /\ \/ /\ "skipNext" \in state[p]
            /\ state' = [state EXCEPT ![p] = @ \ {"skipNext"}]
            /\ tasks' = Return(tasks, i, TRUE)
         \/ /\ "skipNext" \notin state[p]
            /\ state[p] \cap {"stopping", "suspended", "paused"} # {}
            /\ tasks' = Return(tasks, i, TRUE)
            /\ UNCHANGED state
         \/ /\ state[p] \cap {"skipNext", "stopping", "suspended", "paused"}
                  = {}
            /\ tasks' = GoTo(i, "mark")
            /\ UNCHANGED state
      /\ UNCHANGED <<lock, armed, registry, reports, env, hooks>>

\* ... and the actor is marked, whatever happened since.
PassivationMark(i) ==
  /\ At(i, "passivate", "mark")
  /\ state' = [state EXCEPT ![tasks[i].pid] = @ \cup {"passivating"}]
  /\ tasks' = GoTo(i, "lock")
  /\ UNCHANGED <<lock, armed, registry, reports, env, hooks>>

\* tryPassivation with the lock: only the skip mark is read again.
PassivationLock(i) ==
  LET p == tasks[i].pid
  IN  /\ At(i, "passivate", "lock") /\ lock[p] = 0
      /\ \/ /\ "skipNext" \in state[p]
            /\ state' = [state EXCEPT ![p] = @ \ {"skipNext", "passivating"}]
            /\ tasks' = Return(tasks, i, TRUE)
            /\ UNCHANGED <<lock, armed>>
         \/ /\ "skipNext" \notin state[p]
            /\ lock' = [lock EXCEPT ![p] = i]
            /\ armed' = Disarm(p)
            /\ tasks' = GoTo(i, "children")
            /\ UNCHANGED state
      /\ UNCHANGED <<registry, reports, env, hooks>>

\* freeChildren: every child of the node gets a goroutine that disowns it.
FreeChildren(i) ==
  LET n == Name(tasks[i].pid)
      children == {tree.node[c] : c \in tree.kids[n]}
  IN  /\ AtStop(i, "children")
      /\ tasks' = Fork(GoTo(i, "disowning"),
                       {Task("shutdown", c, "disown", i) : c \in children})
      /\ UNCHANGED <<state, lock, armed, registry, reports, env, hooks>>

\* One child leaves the descendants of its parent; it is shut down, and
\* waited for, unless it is neither running nor suspended.
Disown(i) ==
  LET p == tasks[i].pid
  IN  /\ At(i, "shutdown", "disown")
      /\ tree' = RemoveDescendant(tree, Name(p))
      /\ tasks' = IF Alive(p) THEN GoTo(i, "lock") ELSE Return(tasks, i, TRUE)
      /\ UNCHANGED <<state, lock, armed, terminated, counter, reports, env,
                     hooks>>

\* Mutant of ResetAndUnlock: an error return that keeps the stop lock.
ResetOnly(i, ok) ==
  /\ state' = [state EXCEPT ![tasks[i].pid] = {}]
  /\ tasks' = Return(tasks, i, ok)
  /\ UNCHANGED lock

\* doStop's deferred reset, and the release of the stop lock.
ResetAndUnlock(i, ok) ==
  /\ state' = [state EXCEPT ![tasks[i].pid] = {}]
  /\ lock' = [lock EXCEPT ![tasks[i].pid] = 0]
  /\ tasks' = Return(tasks, i, ok)

\* A child could not be stopped: doStop returns before the PostStop hook.
ChildrenNotFreed(i) ==
  /\ AtStop(i, "disowning") /\ ~Waiting(i) /\ tasks[i].failed
  /\ ResetAndUnlock(i, FALSE)
  /\ UNCHANGED <<armed, registry, reports, env, hooks>>

\* Mutant of Tell: nobody is told.
TellNobody(n) == terminated

\* freeWatchers: the death watch is told if it watches the node.
Tell(n) == IF n \in tree.watched THEN Append(terminated, n) ELSE terminated

\* The PostStop hook, once the children are gone, then freeWatchers: the
\* death watch is told if it watches the node, and stops watching it.  When
\* the hook fails, doStop returns before the watchers are told.
PostStop(i) ==
  LET p == tasks[i].pid
      n == Name(p)
  IN  /\ AtStop(i, "disowning") /\ ~Waiting(i) /\ ~tasks[i].failed
      /\ stops' = [stops EXCEPT ![p] = @ + 1]
      /\ \/ /\ terminated' = Tell(n)
            /\ tree' = [tree EXCEPT !.watched = @ \ {n}]
            /\ ResetAndUnlock(i, TRUE)
         \/ /\ n \in FailStop
            /\ ResetAndUnlock(i, FALSE)
            /\ UNCHANGED <<tree, terminated>>
      /\ UNCHANGED <<armed, counter, reports, env, starts>>

\* Mutant of HandleTerminated: the counter is left alone.
HandleTerminatedUncounted ==
  /\ terminated # <<>>
  /\ terminated' = Tail(terminated)
  /\ tree' = DeleteNode(tree, Head(terminated))
  /\ UNCHANGED <<state, lock, armed, counter, reports, tasks, env, hooks>>

\* The death watch removes what is registered under the path of a Terminated
\* message, whichever incarnation that is.
HandleTerminated ==
  LET n == Head(terminated)
  IN  /\ terminated # <<>>
      /\ terminated' = Tail(terminated)
      /\ tree' = DeleteNode(tree, n)
      /\ counter' = IF tree.node[n] # None THEN counter - 1 ELSE counter
      /\ UNCHANGED <<state, lock, armed, reports, tasks, env, hooks>>

-----------------------------------------------------------------------------
(* Restart.                                                                *)

\* Restart remembers the living part of the subtree and the parent.
RestartSnapshot(i) ==
  LET n == Name(tasks[i].pid)
      below == {tree.node[m] : m \in Subtree(tree, n) \ {n}}
  IN  /\ At(i, "restart", "snapshot")
      /\ tasks' = [tasks EXCEPT ![i].subtree = {p \in below : Alive(p)},
                                ![i].parent  = Parent(tree, n),
                                ![i].pc      = "begin"]
      /\ UNCHANGED <<state, lock, armed, registry, reports, env, hooks>>

\* A running actor is shut down first; any other is initialised as it is.
RestartBegin(i) ==
  LET p == tasks[i].pid
  IN  /\ At(i, "restart", "begin")
      /\ tasks' = IF IsRunning(p)
                  THEN Fork([tasks EXCEPT ![i].pc = "stopping",
                                          ![i].count = TRUE],
                            {Task("shutdown", p, "lock", i)})
                  ELSE [tasks EXCEPT ![i].pc = "init",
                                     ![i].count = tree.node[Name(p)] = None]
      /\ UNCHANGED <<state, lock, armed, registry, reports, env, hooks>>

\* After its Shutdown the restart polls until the actor is not running.
RestartStopped(i) ==
  /\ At(i, "restart", "stopping") /\ ~Waiting(i)
  /\ \/ /\ tasks[i].failed
        /\ tasks' = Return(tasks, i, FALSE)
     \/ /\ ~tasks[i].failed /\ ~IsRunning(tasks[i].pid)
        /\ tasks' = GoTo(i, "init")
  /\ UNCHANGED <<state, lock, armed, registry, reports, env, hooks>>

\* init: the PreStart hook, then the running flag.
RestartInit(i) ==
  LET p == tasks[i].pid
  IN  /\ At(i, "restart", "init")
      /\ \/ /\ state' = [state EXCEPT ![p] = @ \cup {"running"}]
            /\ starts' = [starts EXCEPT ![p] = @ + 1]
            /\ tasks' = GoTo(i, "attach")
         \/ /\ Name(p) \in FailStart
            /\ tasks' = Return(tasks, i, FALSE)
            /\ UNCHANGED <<state, starts>>
      /\ UNCHANGED <<lock, armed, registry, reports, env, stops>>

\* The node is attached or added again, and the children are restarted; a
\* parent that left the tree is an error.
RestartAttach(i) ==
  LET p == tasks[i].pid
      n == Name(p)
      lost == tasks[i].parent # None /\ ~Registered(tree, tree.over[n])
      t == IF tasks[i].parent = None THEN tree ELSE AddOrAttachNode(tree, p)
      children == {c \in tasks[i].subtree : tree.over[Name(c)] = n}
  IN  /\ At(i, "restart", "attach")
      /\ \/ /\ lost
            /\ tasks' = Return(tasks, i, FALSE)
            /\ UNCHANGED tree
         \/ /\ ~lost
            /\ tree' = AddWatcher(t, n)
            /\ tasks' = Fork(GoTo(i, "rebuilding"),
                             {[Task("restart", c, "begin", i) EXCEPT
                                 !.subtree = tasks[i].subtree, !.parent = p]
                               : c \in children})
      /\ UNCHANGED <<state, lock, armed, terminated, counter, reports, env,
                     hooks>>

\* The children are done: the actor takes messages again, or is left
\* stopping when one of them failed.
RestartRebuilt(i) ==
  LET p == tasks[i].pid
  IN  /\ At(i, "restart", "rebuilding") /\ ~Waiting(i)
      /\ \/ /\ tasks[i].failed
            /\ state' = [state EXCEPT ![p] =
                            (@ \cup {"stopping"}) \ {"running"}]
            /\ tasks' = Return(tasks, i, FALSE)
            /\ UNCHANGED armed
         \/ /\ ~tasks[i].failed
            /\ state' = [state EXCEPT ![p] = @ \ {"suspended"}]
            /\ armed' = Arm(p)
            /\ tasks' = GoTo(i, "probe")
      /\ UNCHANGED <<lock, registry, reports, env, hooks>>

\* healthCheck asks the actor; one that does not answer is shut down.
RestartProbe(i) ==
  LET p == tasks[i].pid
  IN  /\ At(i, "restart", "probe")
      /\ \/ /\ IsRunning(p)
            /\ counter' = IF tasks[i].count THEN counter + 1 ELSE counter
            /\ tasks' = Return(tasks, i, TRUE)
         \/ /\ ~IsRunning(p)
            /\ tasks' = Fork(GoTo(i, "probeFailed"),
                             {Task("shutdown", p, "lock", i)})
            /\ UNCHANGED counter
      /\ UNCHANGED <<state, lock, armed, tree, terminated, reports, env, hooks>>

RestartProbeFailed(i) ==
  /\ At(i, "restart", "probeFailed") /\ ~Waiting(i)
  /\ tasks' = Return(tasks, i, FALSE)
  /\ UNCHANGED <<state, lock, armed, registry, reports, env, hooks>>

-----------------------------------------------------------------------------
(* Supervision.                                                            *)

Suspended(p) == [state EXCEPT ![p] = @ \cup {"suspended", "paused"}]

\* notifyParent: the actor is resumed, or suspended and reported to its
\* parent, whose mailbox refuses the report when the parent itself is not
\* running.
NotifyParent(p) ==
  LET parent == Parent(tree, Name(p))
      reachable == parent # None /\ IsRunning(parent)
      resumed == parent # None /\ Directive[Name(p)] = "resume"
  IN  \/ /\ resumed
         /\ state' = [state EXCEPT ![p] = @ \cup {"skipNext"}]
         /\ UNCHANGED <<armed, panicking, abandoned>>
      \/ /\ ~resumed
         /\ state' = Suspended(p)
         /\ armed' = Disarm(p)
         /\ \/ /\ reachable
               /\ panicking' = Append(panicking, p)
               /\ UNCHANGED abandoned
            \/ /\ ~reachable
               /\ abandoned' = abandoned \cup {p}
               /\ UNCHANGED panicking

\* The shared consumer takes the next failure.  Only a running actor is
\* acted upon.
SupervisionRun ==
  /\ failures # <<>>
  /\ failures' = Tail(failures)
  /\ \/ /\ ~IsRunning(Head(failures))
        /\ UNCHANGED <<state, armed, panicking, abandoned>>
     \/ /\ IsRunning(Head(failures))
        /\ NotifyParent(Head(failures))
  /\ UNCHANGED <<lock, registry, tasks, env, hooks>>

\* Mutant of Targets: the strategy leaves out the actor that failed.
SiblingsOnly(p) == {tree.node[m] : m \in Siblings(tree, Name(p))}

\* The actors a directive is for: the one that failed and, under one-for-all,
\* its siblings.
Targets(p) ==
  {p} \cup {tree.node[m] : m \in IF Name(p) \in supervisors.oneForAll
                                THEN Siblings(tree, Name(p)) ELSE {}}

\* handleRestartDirective for the target q: with a retry window it is the actor
\* that failed which is restarted, once for every target.
DirectiveRestarts(p, q, tries) ==
  [Task("restart", p, "snapshot", 0) EXCEPT
     !.then = "restartDirective", !.for = q, !.tries = tries]

\* The parent's turn handles a Panicking message: the directive runs for
\* every target on a goroutine.  The turn lasts until a stop directive is done.
HandlePanicking ==
  LET p == Head(panicking)
      n == Name(p)
      retries == supervisors.retries
      busy == \E i \in Active :
                /\ "stopDirective" \in {tasks[i].op, tasks[i].then}
                /\ tree.over[Name(tasks[i].pid)] = tree.over[n]
      calls == CASE Directive[n] = "stop" ->
                      {[Task("shutdown", q, "lock", 0) EXCEPT
                          !.then = "stopDirective"] : q \in Targets(p)}
                 [] Directive[n] = "restart" ->
                      {DirectiveRestarts(IF retries = 0 THEN q ELSE p, q, retries)
                        : q \in Targets(p)}
                 [] OTHER -> {}
  IN  /\ panicking # <<>> /\ ~busy
      /\ panicking' = Tail(panicking)
      /\ tasks' = Fork(tasks, calls)
      /\ UNCHANGED <<state, lock, armed, registry, failures, abandoned, env,
                     hooks>>

\* handleStopDirective after Shutdown: the node is deleted; an actor that
\* could not be stopped is suspended.
StopDirective(i) ==
  LET p == tasks[i].pid
      failed == tasks[i].failed
  IN  /\ At(i, "stopDirective", "returned")
      /\ state' = IF failed THEN Suspended(p) ELSE state
      /\ armed' = IF failed THEN Disarm(p) ELSE armed
      /\ abandoned' = IF failed THEN abandoned \cup {p} ELSE abandoned
      /\ tree' = IF failed THEN tree ELSE DeleteNode(tree, Name(p))
      /\ tasks' = Return(tasks, i, TRUE)
      /\ UNCHANGED <<lock, terminated, counter, failures, panicking, env,
                     hooks>>

\* handleRestartDirective after Restart: when it failed and is not tried again,
\* Shutdown of the target ...
RestartDirective(i) ==
  LET shutdown == [Task("shutdown", tasks[i].for, "lock", 0) EXCEPT
                     !.then = "giveUp"]
      again == DirectiveRestarts(tasks[i].pid, tasks[i].for, tasks[i].tries - 1)
  IN  /\ At(i, "restartDirective", "returned")
      /\ tasks' = CASE ~tasks[i].failed -> Return(tasks, i, TRUE)
                    [] tasks[i].failed /\ tasks[i].tries > 1 ->
                         [tasks EXCEPT ![i] = again]
                    [] tasks[i].failed /\ tasks[i].tries <= 1 ->
                         [tasks EXCEPT ![i] = shutdown]
      /\ UNCHANGED <<state, lock, armed, registry, reports, env, hooks>>

\* ... and when that failed too, the actor is suspended.
GiveUp(i) ==
  LET p == tasks[i].pid
      failed == tasks[i].failed
  IN  /\ At(i, "giveUp", "returned")
      /\ state' = IF failed THEN Suspended(p) ELSE state
      /\ armed' = IF failed THEN Disarm(p) ELSE armed
      /\ abandoned' = IF failed THEN abandoned \cup {p} ELSE abandoned
      /\ tasks' = Return(tasks, i, TRUE)
      /\ UNCHANGED <<lock, registry, failures, panicking, env, hooks>>

-----------------------------------------------------------------------------
(* Spawning a child.                                                       *)

\* spawnChildLocal up to newPID: the parent must be running, and a running
\* child of that name is returned as it is.
SpawnCheck(i) ==
  LET p == tasks[i].pid
      parent == tasks[i].parent
      found == tree.node[Name(p)] # None /\ IsRunning(tree.node[Name(p)])
  IN  /\ At(i, "spawn", "check")
      /\ tasks' = IF IsRunning(parent) /\ ~found
                  THEN GoTo(i, "create") ELSE Return(tasks, i, TRUE)
      /\ UNCHANGED <<state, lock, armed, registry, reports, env, hooks>>

\* newPID starts the next incarnation; addNode's error is not looked at, and
\* the death watch is added to whatever node has the name.
SpawnCreate(i) ==
  LET n == Name(tasks[i].pid)
      p == <<n, Cardinality({k \in 1 .. MaxInc : starts[<<n, k>>] > 0}) + 1>>
  IN  /\ At(i, "spawn", "create")
      /\ p \in Pids
      /\ starts' = [starts EXCEPT ![p] = 1]
      /\ state' = [state EXCEPT ![p] = {"running"}]
      /\ armed' = Arm(p)
      /\ counter' = counter + 1
      /\ tree' = AddWatcher(AddNode(tree, p), n)
      /\ tasks' = Return(tasks, i, TRUE)
      /\ UNCHANGED <<lock, terminated, reports, env, stops>>

-----------------------------------------------------------------------------
(* The environment: callers, failing handlers, the passivation manager.    *)

Known == {p \in Pids : starts[p] > 0}

Start(op, n) ==
  <<op, n>> \in Ops /\ ops > 0 /\ ops' = ops - 1 /\ UNCHANGED supervisors

CallShutdown(p) ==
  /\ Start("shutdown", Name(p))
  /\ tasks' = Fork(tasks, {Task("shutdown", p, "lock", 0)})
  /\ UNCHANGED <<state, lock, armed, registry, reports, hooks>>

CallRestart(p) ==
  /\ Start("restart", Name(p))
  /\ tasks' = Fork(tasks, {Task("restart", p, "snapshot", 0)})
  /\ UNCHANGED <<state, lock, armed, registry, reports, hooks>>

CallSpawn(parent, n) ==
  /\ Start("spawn", n)
  /\ parent # Guardian => parent \in Known
  /\ tree.over[n] = Name(parent)
  /\ tasks' = Fork(tasks, {[Task("spawn", <<n, 0>>, "check", 0) EXCEPT
                              !.parent = parent]})
  /\ UNCHANGED <<state, lock, armed, registry, reports, hooks>>

\* The deadline of a registered actor passes; the passivation manager makes
\* one attempt at a time.
Trigger(p) ==
  /\ Start("passivate", Name(p)) /\ p \in armed
  /\ \A i \in Active : tasks[i].op # "passivate"
  /\ tasks' = Fork(tasks, {Task("passivate", p, "check", 0)})
  /\ UNCHANGED <<state, lock, armed, registry, reports, hooks>>

\* The queue of failures is not full: a turn waits for room instead.
Submit(p) == failures' = Append(failures, p)

\* A handler panics: recovery submits the failure.
Fail(p) ==
  /\ Start("fail", Name(p)) /\ IsRunning(p)
  /\ Submit(p)
  /\ UNCHANGED <<state, lock, armed, registry, panicking, abandoned, tasks,
                 hooks>>

\* Reinstate of a suspended actor that is still registered.
Reinstate(p) ==
  /\ Start("reinstate", Name(p)) /\ IsSuspended(p) /\ tree.node[Name(p)] # None
  /\ state' = [state EXCEPT ![p] =
                  (@ \ {"suspended", "paused"}) \cup {"skipNext"}]
  /\ armed' = Arm(p)
  /\ UNCHANGED <<lock, registry, reports, tasks, hooks>>

-----------------------------------------------------------------------------
Init ==
  LET first == {<<n, 1>> : n \in Names}
  IN  /\ state = [p \in Pids |-> IF p \in first THEN {"running"} ELSE {}]
      /\ lock = [p \in Pids |-> 0]
      /\ armed = first
      /\ \E over \in Families :
           tree = [over    |-> over,
                   node    |-> [n \in Names |-> <<n, 1>>],
                   kids    |-> [n \in Names \cup {Root} |->
                                  {m \in Names : over[m] = n}],
                   up      |-> [n \in Names |-> TRUE],
                   watched |-> Names]
      /\ terminated = <<>>
      /\ counter = Cardinality(Names)
      /\ failures = <<>>
      /\ panicking = <<>>
      /\ abandoned = {}
      /\ tasks = [i \in Ids |-> Idle]
      /\ \E s \in Scenarios :
           /\ supervisors = [oneForAll |-> s.oneForAll, retries |-> s.retries]
           /\ ops = s.ops
      /\ starts = [p \in Pids |-> IF p \in first THEN 1 ELSE 0]
      /\ stops = [p \in Pids |-> 0]

StopStep(i) ==
  \/ ShutdownOffline(i) \/ ShutdownLock(i)
  \/ PassivationCheck(i) \/ PassivationMark(i) \/ PassivationLock(i)
  \/ FreeChildren(i) \/ Disown(i) \/ ChildrenNotFreed(i)
  \/ PostStop(i)

RestartStep(i) ==
  \/ RestartSnapshot(i) \/ RestartBegin(i) \/ RestartStopped(i)
  \/ RestartInit(i) \/ RestartAttach(i) \/ RestartRebuilt(i)
  \/ RestartProbe(i) \/ RestartProbeFailed(i)

TaskStep(i) ==
  \/ StopStep(i) \/ RestartStep(i)
  \/ StopDirective(i) \/ RestartDirective(i) \/ GiveUp(i)
  \/ SpawnCheck(i) \/ SpawnCreate(i)

Call ==
  \/ \E p \in Known : CallShutdown(p) \/ CallRestart(p) \/ Trigger(p)
                        \/ Fail(p) \/ Reinstate(p)
  \/ \E parent \in Known \cup {Guardian}, n \in Names : CallSpawn(parent, n)

System ==
  \/ \E i \in Ids : TaskStep(i)
  \/ SupervisionRun \/ HandlePanicking \/ HandleTerminated

Next == Call \/ System

Spec == Init /\ [][Next]_vars

\* The goroutines at work are scheduled; nobody need call anything.
Fairness == WF_vars(System)

FairSpec == Spec /\ Fairness

-----------------------------------------------------------------------------
(* Properties.                                                             *)

\* Every variable has its type, and a task that was called has a caller that
\* still waits for it (errgroup.Wait in freeChildren and restartSubtree).
TypeOK ==
  /\ state \in [Pids -> SUBSET Flags]
  /\ lock \in [Pids -> 0 .. MaxTasks]
  /\ armed \subseteq Pids
  /\ tree.over \in Families
  /\ tree.node \in [Names -> Pids \cup {None}]
  /\ tree.kids \in [Names \cup {Root} -> SUBSET Names]
  /\ tree.up \in [Names -> BOOLEAN]
  /\ tree.watched \subseteq Names
  /\ terminated \in Seq(Names)
  /\ counter \in Int
  /\ failures \in Seq(Pids) /\ panicking \in Seq(Pids)
  /\ abandoned \subseteq Pids
  /\ starts \in [Pids -> Nat] /\ stops \in [Pids -> Nat]
  /\ \A i \in Active : tasks[i].by \in Active \cup {0}

\* Nothing is under way.
Quiet ==
  Active = {} /\ terminated = <<>> /\ failures = <<>> /\ panicking = <<>>

\* PostStop runs at most once for every start of an actor, however many
\* Shutdown calls, supervisor directives and restarts race on it.
PostStopOnce == \A p \in Pids : stops[p] <= starts[p]

\* The maps of pid_tree.go agree at every moment: a listed descendant is a
\* registered node whose parentNode is the node that lists it, a parentNode
\* that is followed leads to a registered node, and only registered nodes
\* have watchers.
TreeConsistent ==
  \A n \in Names :
    /\ \A m \in Names \cup {Root} :
         n \in tree.kids[m] => /\ tree.over[n] = m
                               /\ tree.node[n] # None /\ tree.up[n]
    /\ tree.up[n] => tree.node[n] # None /\ Registered(tree, tree.over[n])
    /\ n \in tree.watched => tree.node[n] # None

\* Once nothing is under way, every actor that was not stopped is registered
\* in the tree under its path, so that it can be looked up, supervised and
\* stopped with its parent.
RunningIsRegistered ==
  Quiet => \A p \in Pids : "running" \in state[p] => tree.node[Name(p)] = p

\* Moreover, the tree then holds no stopped actor: the death watch was told of
\* every stop, whoever caused it, and removed that actor and no other.
RegistryExact ==
  /\ RunningIsRegistered
  /\ Quiet => \A n \in Names :
                tree.node[n] # None => "running" \in state[tree.node[n]]

\* Once nothing is under way, actorsCounter is the number of actors that were
\* not stopped.
CounterExact ==
  Quiet => counter = Cardinality({p \in Pids : "running" \in state[p]})

\* An actor suspended by a failure does not stay so, unless its parent did not
\* take the report or could not stop it: every report that reaches the parent
\* ends in a stop or a restart, whatever races with the directive.
SuspensionHandled ==
  Quiet => \A p \in Pids :
             {"running", "suspended"} \subseteq state[p] => p \in abandoned

\* "OneForAllStrategy ... applies the supervisor's directive to all sibling child
\* actors" (supervisor.go): the goroutine of a restart directive restarts the
\* actor it is for.
\* Does not hold with a retry window: handleRestartDirective hands cid.Restart
\* to every retrier, so that the siblings are not restarted and the actor that
\* failed is restarted once for each of them.
TargetRestarted ==
  \A i \in Active : tasks[i].op = "restart" /\ tasks[i].then = "restartDirective"
                     => tasks[i].pid = tasks[i].for

\* Every Shutdown and passivation comes to an end: no set of goroutines waits
\* for each other's stop locks and children for ever.
OperationsFinish == <>[](Active = {})

=============================================================================
