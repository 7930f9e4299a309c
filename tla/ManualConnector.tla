--------------------------- MODULE ManualConnector ---------------------------
(***************************************************************************)
(* ManualConnectorManager (connector/manual.rs): the connectors a user     *)
(* configured are kept connected.  A routine looks for dead ones every     *)
(* second, moves each from connectors to reconnecting and starts a task    *)
(* that tries to connect and moves it back; a removal is a note in         *)
(* removed_conn_urls that every look for dead connectors carries out.      *)
(*                                                                         *)
(* The sets are DashSets that the routine, the tasks and the calls of the  *)
(* management interface change on several threads, without a lock over     *)
(* two of them.  Each access to a set is a step; an iteration over a set   *)
(* sees it as it was at its start.  The error of a connection attempt, the *)
(* IP versions it tries and its time budget come down to whether it        *)
(* succeeds.                                                               *)
(***************************************************************************)
EXTENDS Naturals, FiniteSets

CONSTANTS
    Urls,           \* URLs a user may configure
    Initial,        \* connectors of the configuration file
    Addable,        \* URLs the user adds while the program runs
    Callers,        \* callers of the management interface
    MaxCalls,       \* bound: list, remove and clear calls
    MaxAdds,        \* bound: add calls
    MaxDrops,       \* bound: connections that break
    MaxEvents       \* bound: all of these together

ASSUME ConnectorAssumption ==
    /\ IsFiniteSet(Urls) /\ Initial \cup Addable \subseteq Urls
    /\ "routine" \notin Callers
    /\ {MaxCalls, MaxAdds, MaxDrops, MaxEvents} \subseteq Nat

VARIABLES
    connectors, reconnecting, removed,      \* as in ConnectorManagerData
    alive,      \* URLs with a client connection (PeerMap::alive_client_urls)
    proc,       \* proc[p]: what the routine or a caller is doing
    task,       \* task[u]: the reconnect task of u
    wanted,     \* URLs that were added and whose removal was not accepted
    calls, adds, drops

bounds == <<calls, adds, drops>>

vars == <<connectors, reconnecting, removed, alive, proc, task, wanted, bounds>>

Room == calls + adds + drops < MaxEvents

Procs == Callers \cup {"routine"}

\* todo, at and later: the URLs handle_remove_connector still has to visit, the
\* one at hand (also of the routine) and remove_later; seen: the dead URLs of
\* the routine, or the URLs a caller has listed; arg: what a caller wants
\* removed.
Idle == [pc |-> "idle", todo |-> {}, at |-> {}, later |-> {}, seen |-> {}, arg |-> {}]
Panicked == [Idle EXCEPT !.pc = "panicked"]

At(p, pc) == proc[p].pc = pc
-----------------------------------------------------------------------------
\* handle_remove_connector, called by collect_dead_conns

RemoveConnectors(p, u) ==
    /\ At(p, "scan") /\ u \in proc[p].todo
    /\ connectors' = connectors \ {u}
    /\ proc' = IF u \in connectors
               THEN [proc EXCEPT ![p].todo = @ \ {u}]
               ELSE [proc EXCEPT ![p].pc = "look", ![p].todo = @ \ {u},
                                 ![p].at = {u}]
    /\ UNCHANGED <<reconnecting, removed, alive, task, wanted, bounds>>

LookReconnecting(p) ==
    /\ At(p, "look")
    /\ proc' = [proc EXCEPT ![p].pc = "scan", ![p].at = {},
                            ![p].later = @ \cup (proc[p].at \cap reconnecting)]
    /\ UNCHANGED <<connectors, reconnecting, removed, alive, task, wanted, bounds>>

ClearRemoved(p) ==
    /\ At(p, "scan") /\ proc[p].todo = {}
    /\ removed' = {}
    /\ proc' = [proc EXCEPT ![p].pc = "collect"]
    /\ UNCHANGED <<connectors, reconnecting, alive, task, wanted, bounds>>

RemoveLater(p, u) ==
    /\ At(p, "collect") /\ u \in proc[p].later
    /\ removed' = removed \cup {u}
    /\ proc' = [proc EXCEPT ![p].later = @ \ {u}]
    /\ UNCHANGED <<connectors, reconnecting, alive, task, wanted, bounds>>

\* The rest of collect_dead_conns.  A caller only uses it for the status.
CollectDeadConns(p) ==
    /\ At(p, "collect") /\ proc[p].later = {}
    /\ proc' = IF p = "routine"
               THEN [proc EXCEPT ![p].pc = "spawn", ![p].seen = connectors \ alive]
               ELSE [proc EXCEPT ![p].pc = "list"]
    /\ UNCHANGED <<connectors, reconnecting, removed, alive, task, wanted, bounds>>
-----------------------------------------------------------------------------
\* conn_mgr_reconn_routine

Tick ==
    /\ At("routine", "idle")
    /\ proc' = [proc EXCEPT !["routine"] = [Idle EXCEPT !.pc = "scan", !.todo = removed]]
    /\ UNCHANGED <<connectors, reconnecting, removed, alive, task, wanted, bounds>>

\* A panic ends the routine; with its JoinSet the tasks that are connecting are
\* aborted.  (So a build that unwinds; the release profile aborts the process.)
Panic ==
    /\ proc' = [proc EXCEPT !["routine"] = Panicked]
    /\ task' = [u \in Urls |-> IF task[u] = "run" THEN "none" ELSE task[u]]

\* Mutant: contains instead of remove.
TakeDeadKept(u) ==
    /\ At("routine", "spawn") /\ u \in proc["routine"].seen \cap connectors
    /\ proc' = [proc EXCEPT !["routine"].pc = "insert",
                            !["routine"].seen = @ \ {u},
                            !["routine"].at = {u}]
    /\ UNCHANGED <<connectors, reconnecting, removed, alive, task, wanted, bounds>>

\* data.connectors.remove(&dead_url).unwrap()
TakeDead(u) ==
    /\ At("routine", "spawn") /\ u \in proc["routine"].seen
    /\ connectors' = connectors \ {u}
    /\ IF u \in connectors
       THEN /\ proc' = [proc EXCEPT !["routine"].pc = "insert",
                                    !["routine"].seen = @ \ {u},
                                    !["routine"].at = {u}]
            /\ UNCHANGED task
       ELSE Panic
    /\ UNCHANGED <<reconnecting, removed, alive, wanted, bounds>>

\* reconnecting.insert, assert!(insert_succ), spawn
SpawnReconnect ==
    /\ At("routine", "insert")
    /\ LET U == proc["routine"].at
       IN  /\ reconnecting' = reconnecting \cup U
           /\ IF U \cap reconnecting = {}
              THEN /\ proc' = [proc EXCEPT !["routine"].pc = "spawn",
                                           !["routine"].at = {}]
                   /\ task' = [u \in Urls |-> IF u \in U THEN "run" ELSE task[u]]
              ELSE Panic
    /\ UNCHANGED <<connectors, removed, alive, wanted, bounds>>

\* Mutant: the loop over the dead URLs is left after the first one.
RoutineBreaks ==
    /\ At("routine", "spawn")
    /\ proc' = [proc EXCEPT !["routine"].pc = "idle"]
    /\ UNCHANGED <<connectors, reconnecting, removed, alive, task, wanted, bounds>>

RoutineDone ==
    /\ At("routine", "spawn") /\ proc["routine"].seen = {}
    /\ proc' = [proc EXCEPT !["routine"] = Idle]
    /\ UNCHANGED <<connectors, reconnecting, removed, alive, task, wanted, bounds>>

\* conn_reconnect ends, with a connection (ok) or with an error.
Reconnect(u, ok) ==
    /\ task[u] = "run"
    /\ alive' = IF ok THEN alive \cup {u} ELSE alive
    /\ task' = [task EXCEPT ![u] = "done"]
    /\ UNCHANGED <<connectors, reconnecting, removed, proc, wanted, bounds>>

\* Mutant: an error ends the task.
LeaveIfAlive(u) ==
    /\ task[u] = "done" /\ u \in alive
    /\ reconnecting' = reconnecting \ {u}
    /\ task' = [task EXCEPT ![u] = "back"]
    /\ UNCHANGED <<connectors, removed, alive, proc, wanted, bounds>>

\* reconnecting.remove(&dead_url), then connectors.insert(dead_url)
LeaveReconnecting(u) ==
    /\ task[u] = "done"
    /\ reconnecting' = reconnecting \ {u}
    /\ task' = [task EXCEPT ![u] = "back"]
    /\ UNCHANGED <<connectors, removed, alive, proc, wanted, bounds>>

\* Mutant: a connector that could not connect is dropped.
ReturnIfAlive(u) ==
    /\ task[u] = "back"
    /\ connectors' = connectors \cup ({u} \cap alive)
    /\ task' = [task EXCEPT ![u] = "none"]
    /\ UNCHANGED <<reconnecting, removed, alive, proc, wanted, bounds>>

ReturnToConnectors(u) ==
    /\ task[u] = "back"
    /\ connectors' = connectors \cup {u}
    /\ task' = [task EXCEPT ![u] = "none"]
    /\ UNCHANGED <<reconnecting, removed, alive, proc, wanted, bounds>>
-----------------------------------------------------------------------------
\* The management interface

AddConnector(u) ==
    /\ u \in Addable
    /\ adds < MaxAdds /\ Room /\ adds' = adds + 1
    /\ connectors' = connectors \cup {u}
    /\ wanted' = wanted \cup {u}
    /\ UNCHANGED <<reconnecting, removed, alive, proc, task, calls, drops>>

\* list_connectors starts, for itself (U is empty), for remove_connector (U
\* is its URL) or for clear_connectors (U is everything).
Call(p, U) ==
    /\ At(p, "idle") /\ calls < MaxCalls /\ Room /\ calls' = calls + 1
    /\ proc' = [proc EXCEPT ![p] = [Idle EXCEPT !.pc = "scan", !.todo = removed,
                                                !.arg = U]]
    /\ UNCHANGED <<connectors, reconnecting, removed, alive, task, wanted, adds, drops>>

ListConnectors(p) ==
    /\ At(p, "list")
    /\ proc' = [proc EXCEPT ![p].pc = "listmore", ![p].seen = connectors]
    /\ UNCHANGED <<connectors, reconnecting, removed, alive, task, wanted, bounds>>

ListReconnecting(p) ==
    /\ At(p, "listmore")
    /\ proc' = [proc EXCEPT ![p].pc = "note", ![p].seen = @ \cup reconnecting]
    /\ UNCHANGED <<connectors, reconnecting, removed, alive, task, wanted, bounds>>

\* What is asked for and was listed is noted for removal ...
NoteRemoved(p, u) ==
    /\ At(p, "note") /\ u \in proc[p].seen \cap proc[p].arg
    /\ removed' = removed \cup {u}
    /\ wanted' = wanted \ {u}
    /\ proc' = [proc EXCEPT ![p].arg = @ \ {u}]
    /\ UNCHANGED <<connectors, reconnecting, alive, task, bounds>>

\* ... and the rest is NotFound.
Return(p) ==
    /\ At(p, "note") /\ proc[p].seen \cap proc[p].arg = {}
    /\ proc' = [proc EXCEPT ![p] = Idle]
    /\ UNCHANGED <<connectors, reconnecting, removed, alive, task, wanted, bounds>>

\* A connection breaks.
Drop(u) ==
    /\ u \in alive /\ drops < MaxDrops /\ Room /\ drops' = drops + 1
    /\ alive' = alive \ {u}
    /\ UNCHANGED <<connectors, reconnecting, removed, proc, task, wanted, calls, adds>>
-----------------------------------------------------------------------------
Init ==
    /\ connectors = Initial /\ wanted = Initial
    /\ reconnecting = {} /\ removed = {} /\ alive = {}
    /\ proc = [p \in Procs |-> Idle]
    /\ task = [u \in Urls |-> "none"]
    /\ calls = 0 /\ adds = 0 /\ drops = 0

Removal(p) ==
    \/ \E u \in Urls : RemoveConnectors(p, u)
    \/ LookReconnecting(p)
    \/ ClearRemoved(p)
    \/ \E u \in Urls : RemoveLater(p, u)
    \/ CollectDeadConns(p)

Routine ==
    \/ Tick
    \/ Removal("routine")
    \/ \E u \in Urls : TakeDead(u)
    \/ SpawnReconnect
    \/ RoutineDone

Task(u) ==
    \/ \E ok \in BOOLEAN : Reconnect(u, ok)
    \/ LeaveReconnecting(u)
    \/ ReturnToConnectors(u)

Caller(p) ==
    \/ Removal(p)
    \/ ListConnectors(p)
    \/ ListReconnecting(p)
    \/ \E u \in Urls : NoteRemoved(p, u)
    \/ Return(p)

Next ==
    \/ Routine
    \/ \E u \in Urls : Task(u)
    \/ \E u \in Urls : AddConnector(u)
    \/ \E p \in Callers, U \in {{u} : u \in Urls} \cup {{}, Urls} : Call(p, U)
    \/ \E p \in Callers : Caller(p)
    \/ \E u \in Urls : Drop(u)

Spec == Init /\ [][Next]_vars

\* The runtime runs every task; an attempt that is repeated for ever succeeds
\* at last.
FairSpec ==
    /\ Spec
    /\ WF_vars(Routine)
    /\ \A p \in Callers : WF_vars(Caller(p))
    /\ \A u \in Urls : WF_vars(Task(u)) /\ SF_vars(Reconnect(u, TRUE))
-----------------------------------------------------------------------------
\* The sets hold URLs, and nothing of an iteration outlives the call it
\* belongs to.
TypeOK ==
    /\ connectors \subseteq Urls /\ reconnecting \subseteq Urls
    /\ removed \subseteq Urls /\ alive \subseteq Urls /\ wanted \subseteq Urls
    /\ task \in [Urls -> {"none", "run", "done", "back"}]
    /\ proc \in [Procs ->
          [pc : {"idle", "scan", "look", "collect", "spawn", "insert",
                 "list", "listmore", "note", "panicked"},
           todo : SUBSET Urls, at : SUBSET Urls, 
           later : SUBSET Urls, seen : SUBSET Urls,
           arg : SUBSET Urls]]
    /\ \A p \in Procs : At(p, "idle") => proc[p] = Idle
    /\ calls \in 0..MaxCalls /\ adds \in 0..MaxAdds /\ drops \in 0..MaxDrops

\* Where a URL is when it is in neither set.
OnTheMove == {u \in Urls : task[u] = "back"}
             \cup (IF At("routine", "insert") THEN proc["routine"].at ELSE {})

\* A connector that nobody asked to remove is never lost on its way between
\* connectors and reconnecting.
WantedIsKept == wanted \subseteq connectors \cup reconnecting \cup OnTheMove

\* The routine's assertions hold: the dead URL is still among the connectors,
\* and it is not being reconnected already.
RoutineNeverPanics == ~At("routine", "panicked")

\* A URL is in one place only: one attempt at a time.
OnePlace ==
    /\ connectors \cap reconnecting = {}
    /\ OnTheMove \cap (connectors \cup reconnecting) = {}

\* A connector that stays configured is connected again and again, whatever
\* breaks and whatever else is removed, unless the routine panics.
StaysConnected ==
    \A u \in Urls : []<>(u \in alive \/ u \notin wanted \/ At("routine", "panicked"))
=============================================================================
