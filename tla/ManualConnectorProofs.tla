------------------------ MODULE ManualConnectorProofs ------------------------
(***************************************************************************)
(* Proofs about ManualConnector, for any number of URLs, callers, calls,   *)
(* additions and broken connections.                                       *)
(*                                                                         *)
(* The code keeps what it promises unless the management interface does    *)
(* one of three things at the wrong moment; each theorem names the ones it *)
(* excludes.                                                               *)
(***************************************************************************)
EXTENDS ManualConnector, TLAPS

\* Most leaves of these proofs are first-order, and Zenon is their prover.  A leaf
\* that needs arithmetic, or more of functions and records, names SMT.
USE Zenon

\* The URLs whose removal was noted and is not carried out yet.
Noted ==
    {u \in Urls : \/ u \in removed
                  \/ \E p \in Procs : \/ u \in proc[p].todo \cup proc[p].later
                                      \/ At(p, "look") /\ u \in proc[p].at}

\* add_connector is not called with a URL that is on its way between the two
\* sets, or being reconnected.
AddsUnmoved ==
    \A u \in Urls : AddConnector(u) => u \notin reconnecting \cup OnTheMove

\* add_connector is not called with a URL whose removal is noted.
AddsUnnoted == \A u \in Urls : AddConnector(u) => u \notin Noted

\* The list_connectors of a caller carries out no removal of a URL that the
\* routine has just found dead.
RemovalsWait ==
    \A p \in Callers, u \in Urls :
        RemoveConnectors(p, u) => u \notin proc["routine"].seen

-----------------------------------------------------------------------------
ProcStates ==
    [pc : {"idle", "scan", "look", "collect", "spawn", "insert",
           "list", "listmore", "note", "panicked"},
     todo : SUBSET Urls, at : SUBSET Urls, later : SUBSET Urls,
     seen : SUBSET Urls, arg : SUBSET Urls]

\* A step changes the state of process p only, to these fields.
Becomes(p, pc, todo, at, later, seen, arg) ==
    /\ proc' \in [Procs -> ProcStates]
    /\ \A q \in Procs : q # p => proc'[q] = proc[q]
    /\ proc'[p].pc = pc /\ proc'[p].todo = todo /\ proc'[p].at = at
    /\ proc'[p].later = later /\ proc'[p].seen = seen /\ proc'[p].arg = arg
    /\ pc = "idle" => proc'[p] = Idle

LEMMA BecomesOne ==
  ASSUME TypeOK, NEW p \in Procs, NEW r \in ProcStates,
         proc' = [proc EXCEPT ![p] = r], r.pc = "idle" => r = Idle
  PROVE  Becomes(p, r.pc, r.todo, r.at, r.later, r.seen, r.arg)
BY DEF TypeOK, Becomes, ProcStates

LEMMA FieldTypes ==
  ASSUME NEW r \in ProcStates, NEW x \in SUBSET Urls,
         NEW pc \in {"idle", "scan", "look", "collect", "spawn", "insert",
                     "list", "listmore", "note", "panicked"}
  PROVE  /\ [r EXCEPT !.pc = pc] \in ProcStates /\ [r EXCEPT !.todo = x] \in ProcStates
         /\ [r EXCEPT !.at = x] \in ProcStates /\ [r EXCEPT !.later = x] \in ProcStates
         /\ [r EXCEPT !.seen = x] \in ProcStates /\ [r EXCEPT !.arg = x] \in ProcStates
BY DEF ProcStates

LEMMA IdleType ==
  /\ Idle \in ProcStates /\ Panicked \in ProcStates
  /\ Idle.pc = "idle" /\ Idle.todo = {} /\ Idle.at = {} /\ Idle.later = {}
  /\ Idle.seen = {} /\ Idle.arg = {}
  /\ Panicked.pc = "panicked" /\ Panicked.todo = {} /\ Panicked.at = {}
  /\ Panicked.later = {} /\ Panicked.seen = {} /\ Panicked.arg = {}
BY DEF Idle, Panicked, ProcStates

LEMMA RemoveConnectorsBecomes ==
  ASSUME TypeOK, NEW p \in Procs, NEW u \in Urls, RemoveConnectors(p, u)
  PROVE  \/ u \in connectors /\ Becomes(p, "scan", proc[p].todo \ {u}, proc[p].at,
                                      proc[p].later, proc[p].seen, proc[p].arg)
         \/ u \notin connectors /\ Becomes(p, "look", proc[p].todo \ {u}, {u},
                                      proc[p].later, proc[p].seen, proc[p].arg)
<1>0. proc \in [Procs -> ProcStates] /\ proc[p] \in ProcStates /\ proc[p].pc = "scan"
  BY DEF TypeOK, ProcStates, RemoveConnectors, At
<1>1. CASE u \in connectors
  <2> DEFINE r == [proc[p] EXCEPT !.todo = @ \ {u}]
  <2>1. proc' = [proc EXCEPT ![p] = r]
    BY <1>0, <1>1 DEF RemoveConnectors, ProcStates
  <2>2. r \in ProcStates
    BY <1>0 DEF ProcStates
  <2>3. /\ r.pc = "scan" /\ r.todo = proc[p].todo \ {u} /\ r.at = proc[p].at
        /\ r.later = proc[p].later /\ r.seen = proc[p].seen /\ r.arg = proc[p].arg
    BY <1>0 DEF ProcStates
  <2> HIDE DEF r
  <2>4. Becomes(p, r.pc, r.todo, r.at, r.later, r.seen, r.arg)
    BY <2>1, <2>2, <2>3, BecomesOne
  <2> QED
    BY <1>1, <2>3, <2>4
<1>2. CASE u \notin connectors
  <2> DEFINE r == [proc[p] EXCEPT !.pc = "look", !.todo = @ \ {u}, !.at = {u}]
  <2>1. proc' = [proc EXCEPT ![p] = r]
    BY <1>0, <1>2 DEF RemoveConnectors, ProcStates
  <2>2. r \in ProcStates
    <3>1. [proc[p] EXCEPT !.pc = "look"] \in ProcStates
      BY <1>0 DEF ProcStates
    <3>2. [proc[p] EXCEPT !.pc = "look", !.todo = @ \ {u}] \in ProcStates
      BY <3>1 DEF ProcStates
    <3> QED
      BY <3>2 DEF ProcStates
  <2>3. /\ r.pc = "look" /\ r.todo = proc[p].todo \ {u} /\ r.at = {u}
        /\ r.later = proc[p].later /\ r.seen = proc[p].seen /\ r.arg = proc[p].arg
    BY <1>0 DEF ProcStates
  <2> HIDE DEF r
  <2>4. Becomes(p, r.pc, r.todo, r.at, r.later, r.seen, r.arg)
    BY <2>1, <2>2, <2>3, BecomesOne
  <2> QED
    BY <1>2, <2>3, <2>4
<1> QED
  BY <1>1, <1>2

LEMMA LookReconnectingBecomes ==
  ASSUME TypeOK, NEW p \in Procs, LookReconnecting(p)
  PROVE  Becomes(p, "scan", proc[p].todo, {},
                 proc[p].later \cup (proc[p].at \cap reconnecting), proc[p].seen, proc[p].arg)
<1>0. proc \in [Procs -> ProcStates] /\ p \in Procs /\ proc[p] \in ProcStates /\ reconnecting \subseteq Urls
  BY DEF TypeOK, ProcStates, LookReconnecting, At, Procs
<1> DEFINE r == [proc[p] EXCEPT !.pc = "scan", !.at = {}, !.later = @ \cup (proc[p].at \cap reconnecting)]
<1>1. proc' = [proc EXCEPT ![p] = r]
  BY <1>0 DEF LookReconnecting, ProcStates
<1>2. r \in ProcStates
  <2>1. [proc[p] EXCEPT !.pc = "scan"] \in ProcStates
    BY <1>0, IdleType DEF ProcStates
  <2>2. [proc[p] EXCEPT !.pc = "scan", !.at = {}] \in ProcStates
    BY <1>0, <2>1 DEF ProcStates
  <2> QED
    BY <1>0, <2>2 DEF ProcStates
<1>3. /\ r.pc = "scan" /\ r.todo = proc[p].todo /\ r.at = {}
      /\ r.later = proc[p].later \cup (proc[p].at \cap reconnecting) /\ r.seen = proc[p].seen
      /\ r.arg = proc[p].arg
  BY <1>0, IdleType DEF ProcStates
<1> HIDE DEF r
<1>4. Becomes(p, r.pc, r.todo, r.at, r.later, r.seen, r.arg)
  BY <1>0, <1>1, <1>2, <1>3, BecomesOne
<1> QED
  BY <1>3, <1>4

LEMMA ClearRemovedBecomes ==
  ASSUME TypeOK, NEW p \in Procs, ClearRemoved(p)
  PROVE  Becomes(p, "collect", proc[p].todo, proc[p].at,
                 proc[p].later, proc[p].seen, proc[p].arg)
<1>0. proc \in [Procs -> ProcStates] /\ p \in Procs /\ proc[p] \in ProcStates
  BY DEF TypeOK, ProcStates, ClearRemoved, At, Procs
<1> DEFINE r == [proc[p] EXCEPT !.pc = "collect"]
<1>1. proc' = [proc EXCEPT ![p] = r]
  BY <1>0 DEF ClearRemoved, ProcStates
<1>2. r \in ProcStates
  BY <1>0, IdleType DEF ProcStates
<1>3. /\ r.pc = "collect" /\ r.todo = proc[p].todo /\ r.at = proc[p].at
      /\ r.later = proc[p].later /\ r.seen = proc[p].seen
      /\ r.arg = proc[p].arg
  BY <1>0, IdleType DEF ProcStates
<1> HIDE DEF r
<1>4. Becomes(p, r.pc, r.todo, r.at, r.later, r.seen, r.arg)
  BY <1>0, <1>1, <1>2, <1>3, BecomesOne
<1> QED
  BY <1>3, <1>4

LEMMA RemoveLaterBecomes ==
  ASSUME TypeOK, NEW p \in Procs, NEW u \in Urls, RemoveLater(p, u)
  PROVE  Becomes(p, "collect", proc[p].todo, proc[p].at,
                 proc[p].later \ {u}, proc[p].seen, proc[p].arg)
<1>0. proc \in [Procs -> ProcStates] /\ p \in Procs /\ proc[p] \in ProcStates /\ proc[p].pc = "collect"
  BY DEF TypeOK, ProcStates, RemoveLater, At, Procs
<1> DEFINE r == [proc[p] EXCEPT !.later = @ \ {u}]
<1>1. proc' = [proc EXCEPT ![p] = r]
  BY <1>0 DEF RemoveLater, ProcStates
<1>2. r \in ProcStates
  BY <1>0, IdleType DEF ProcStates
<1>3. /\ r.pc = "collect" /\ r.todo = proc[p].todo /\ r.at = proc[p].at
      /\ r.later = proc[p].later \ {u} /\ r.seen = proc[p].seen
      /\ r.arg = proc[p].arg
  BY <1>0, IdleType DEF ProcStates
<1> HIDE DEF r
<1>4. Becomes(p, r.pc, r.todo, r.at, r.later, r.seen, r.arg)
  BY <1>0, <1>1, <1>2, <1>3, BecomesOne
<1> QED
  BY <1>3, <1>4

LEMMA CollectRoutineBecomes ==
  ASSUME TypeOK, CollectDeadConns("routine")
  PROVE  Becomes("routine", "spawn", proc["routine"].todo, proc["routine"].at,
                 proc["routine"].later, connectors \ alive, proc["routine"].arg)
<1>0. proc \in [Procs -> ProcStates] /\ "routine" \in Procs /\ proc["routine"] \in ProcStates /\ connectors \subseteq Urls
  BY DEF TypeOK, ProcStates, CollectDeadConns, At, Procs
<1> DEFINE r == [proc["routine"] EXCEPT !.pc = "spawn", !.seen = connectors \ alive]
<1>1. proc' = [proc EXCEPT !["routine"] = r]
  BY <1>0 DEF CollectDeadConns, ProcStates
<1>2. r \in ProcStates
  <2>1. [proc["routine"] EXCEPT !.pc = "spawn"] \in ProcStates
    BY <1>0, IdleType DEF ProcStates
  <2> QED
    BY <1>0, <2>1 DEF ProcStates
<1>3. /\ r.pc = "spawn" /\ r.todo = proc["routine"].todo /\ r.at = proc["routine"].at
      /\ r.later = proc["routine"].later /\ r.seen = connectors \ alive
      /\ r.arg = proc["routine"].arg
  BY <1>0, IdleType DEF ProcStates
<1> HIDE DEF r
<1>4. Becomes("routine", r.pc, r.todo, r.at, r.later, r.seen, r.arg)
  BY <1>0, <1>1, <1>2, <1>3, BecomesOne
<1> QED
  BY <1>3, <1>4

LEMMA CollectCallerBecomes ==
  ASSUME TypeOK, NEW p \in Procs, p # "routine", CollectDeadConns(p)
  PROVE  Becomes(p, "list", proc[p].todo, proc[p].at,
                 proc[p].later, proc[p].seen, proc[p].arg)
<1>0. proc \in [Procs -> ProcStates] /\ p \in Procs /\ proc[p] \in ProcStates
  BY DEF TypeOK, ProcStates, CollectDeadConns, At, Procs
<1> DEFINE r == [proc[p] EXCEPT !.pc = "list"]
<1>1. proc' = [proc EXCEPT ![p] = r]
  BY <1>0 DEF CollectDeadConns, ProcStates
<1>2. r \in ProcStates
  BY <1>0, IdleType DEF ProcStates
<1>3. /\ r.pc = "list" /\ r.todo = proc[p].todo /\ r.at = proc[p].at
      /\ r.later = proc[p].later /\ r.seen = proc[p].seen
      /\ r.arg = proc[p].arg
  BY <1>0, IdleType DEF ProcStates
<1> HIDE DEF r
<1>4. Becomes(p, r.pc, r.todo, r.at, r.later, r.seen, r.arg)
  BY <1>0, <1>1, <1>2, <1>3, BecomesOne
<1> QED
  BY <1>3, <1>4

LEMMA TickBecomes ==
  ASSUME TypeOK, Tick
  PROVE  Becomes("routine", "scan", removed, {},
                 {}, {}, {})
<1>0. proc \in [Procs -> ProcStates] /\ "routine" \in Procs /\ proc["routine"] \in ProcStates /\ removed \subseteq Urls
  BY DEF TypeOK, ProcStates, Tick, At, Procs
<1> DEFINE r == [Idle EXCEPT !.pc = "scan", !.todo = removed]
<1>1. proc' = [proc EXCEPT !["routine"] = r]
  BY <1>0 DEF Tick, ProcStates
<1>2. r \in ProcStates
  <2>1. [Idle EXCEPT !.pc = "scan"] \in ProcStates
    BY <1>0, IdleType DEF ProcStates
  <2> QED
    BY <1>0, <2>1 DEF ProcStates
<1>3. /\ r.pc = "scan" /\ r.todo = removed /\ r.at = {}
      /\ r.later = {} /\ r.seen = {}
      /\ r.arg = {}
  BY <1>0, IdleType DEF ProcStates
<1> HIDE DEF r
<1>4. Becomes("routine", r.pc, r.todo, r.at, r.later, r.seen, r.arg)
  BY <1>0, <1>1, <1>2, <1>3, BecomesOne
<1> QED
  BY <1>3, <1>4

LEMMA CallBecomes ==
  ASSUME TypeOK, NEW p \in Procs, NEW U \in SUBSET Urls, Call(p, U)
  PROVE  Becomes(p, "scan", removed, {},
                 {}, {}, U)
<1>0. proc \in [Procs -> ProcStates] /\ p \in Procs /\ proc[p] \in ProcStates /\ removed \subseteq Urls
  BY DEF TypeOK, ProcStates, Call, At, Procs
<1> DEFINE r == [Idle EXCEPT !.pc = "scan", !.todo = removed, !.arg = U]
<1>1. proc' = [proc EXCEPT ![p] = r]
  BY <1>0 DEF Call, ProcStates
<1>2. r \in ProcStates
  <2>1. [Idle EXCEPT !.pc = "scan"] \in ProcStates
    BY <1>0, IdleType DEF ProcStates
  <2>2. [Idle EXCEPT !.pc = "scan", !.todo = removed] \in ProcStates
    BY <1>0, <2>1 DEF ProcStates
  <2> QED
    BY <1>0, <2>2 DEF ProcStates
<1>3. /\ r.pc = "scan" /\ r.todo = removed /\ r.at = {}
      /\ r.later = {} /\ r.seen = {}
      /\ r.arg = U
  BY <1>0, IdleType DEF ProcStates
<1> HIDE DEF r
<1>4. Becomes(p, r.pc, r.todo, r.at, r.later, r.seen, r.arg)
  BY <1>0, <1>1, <1>2, <1>3, BecomesOne
<1> QED
  BY <1>3, <1>4

LEMMA TakeDeadBecomes ==
  ASSUME TypeOK, NEW u \in Urls, u \in connectors, TakeDead(u)
  PROVE  Becomes("routine", "insert", proc["routine"].todo, {u},
                 proc["routine"].later, proc["routine"].seen \ {u}, proc["routine"].arg)
<1>0. proc \in [Procs -> ProcStates] /\ "routine" \in Procs /\ proc["routine"] \in ProcStates
  BY DEF TypeOK, ProcStates, TakeDead, At, Procs
<1> DEFINE r == [proc["routine"] EXCEPT !.pc = "insert", !.seen = @ \ {u}, !.at = {u}]
<1>1. proc' = [proc EXCEPT !["routine"] = r]
  BY <1>0 DEF TakeDead, ProcStates
<1>2. r \in ProcStates
  <2>1. [proc["routine"] EXCEPT !.pc = "insert"] \in ProcStates
    BY <1>0, IdleType DEF ProcStates
  <2>2. [proc["routine"] EXCEPT !.pc = "insert", !.seen = @ \ {u}] \in ProcStates
    BY <1>0, <2>1 DEF ProcStates
  <2> QED
    BY <1>0, <2>2 DEF ProcStates
<1>3. /\ r.pc = "insert" /\ r.todo = proc["routine"].todo /\ r.at = {u}
      /\ r.later = proc["routine"].later /\ r.seen = proc["routine"].seen \ {u}
      /\ r.arg = proc["routine"].arg
  BY <1>0, IdleType DEF ProcStates
<1> HIDE DEF r
<1>4. Becomes("routine", r.pc, r.todo, r.at, r.later, r.seen, r.arg)
  BY <1>0, <1>1, <1>2, <1>3, BecomesOne
<1> QED
  BY <1>3, <1>4

LEMMA SpawnReconnectBecomes ==
  ASSUME TypeOK, proc["routine"].at \cap reconnecting = {}, SpawnReconnect
  PROVE  Becomes("routine", "spawn", proc["routine"].todo, {},
                 proc["routine"].later, proc["routine"].seen, proc["routine"].arg)
<1>0. proc \in [Procs -> ProcStates] /\ "routine" \in Procs /\ proc["routine"] \in ProcStates
  BY DEF TypeOK, ProcStates, SpawnReconnect, At, Procs
<1> DEFINE r == [proc["routine"] EXCEPT !.pc = "spawn", !.at = {}]
<1>1. proc' = [proc EXCEPT !["routine"] = r]
  BY <1>0 DEF SpawnReconnect, ProcStates
<1>2. r \in ProcStates
  <2>1. [proc["routine"] EXCEPT !.pc = "spawn"] \in ProcStates
    BY <1>0, IdleType DEF ProcStates
  <2> QED
    BY <1>0, <2>1 DEF ProcStates
<1>3. /\ r.pc = "spawn" /\ r.todo = proc["routine"].todo /\ r.at = {}
      /\ r.later = proc["routine"].later /\ r.seen = proc["routine"].seen
      /\ r.arg = proc["routine"].arg
  BY <1>0, IdleType DEF ProcStates
<1> HIDE DEF r
<1>4. Becomes("routine", r.pc, r.todo, r.at, r.later, r.seen, r.arg)
  BY <1>0, <1>1, <1>2, <1>3, BecomesOne
<1> QED
  BY <1>3, <1>4

LEMMA ListConnectorsBecomes ==
  ASSUME TypeOK, NEW p \in Procs, ListConnectors(p)
  PROVE  Becomes(p, "listmore", proc[p].todo, proc[p].at,
                 proc[p].later, connectors, proc[p].arg)
<1>0. proc \in [Procs -> ProcStates] /\ p \in Procs /\ proc[p] \in ProcStates /\ connectors \subseteq Urls
  BY DEF TypeOK, ProcStates, ListConnectors, At, Procs
<1> DEFINE r == [proc[p] EXCEPT !.pc = "listmore", !.seen = connectors]
<1>1. proc' = [proc EXCEPT ![p] = r]
  BY <1>0 DEF ListConnectors, ProcStates
<1>2. r \in ProcStates
  <2>1. [proc[p] EXCEPT !.pc = "listmore"] \in ProcStates
    BY <1>0, IdleType DEF ProcStates
  <2> QED
    BY <1>0, <2>1 DEF ProcStates
<1>3. /\ r.pc = "listmore" /\ r.todo = proc[p].todo /\ r.at = proc[p].at
      /\ r.later = proc[p].later /\ r.seen = connectors
      /\ r.arg = proc[p].arg
  BY <1>0, IdleType DEF ProcStates
<1> HIDE DEF r
<1>4. Becomes(p, r.pc, r.todo, r.at, r.later, r.seen, r.arg)
  BY <1>0, <1>1, <1>2, <1>3, BecomesOne
<1> QED
  BY <1>3, <1>4

LEMMA ListReconnectingBecomes ==
  ASSUME TypeOK, NEW p \in Procs, ListReconnecting(p)
  PROVE  Becomes(p, "note", proc[p].todo, proc[p].at,
                 proc[p].later, proc[p].seen \cup reconnecting, proc[p].arg)
<1>0. proc \in [Procs -> ProcStates] /\ p \in Procs /\ proc[p] \in ProcStates /\ reconnecting \subseteq Urls
  BY DEF TypeOK, ProcStates, ListReconnecting, At, Procs
<1> DEFINE r == [proc[p] EXCEPT !.pc = "note", !.seen = @ \cup reconnecting]
<1>1. proc' = [proc EXCEPT ![p] = r]
  BY <1>0 DEF ListReconnecting, ProcStates
<1>2. r \in ProcStates
  <2>1. [proc[p] EXCEPT !.pc = "note"] \in ProcStates
    BY <1>0, IdleType DEF ProcStates
  <2> QED
    BY <1>0, <2>1 DEF ProcStates
<1>3. /\ r.pc = "note" /\ r.todo = proc[p].todo /\ r.at = proc[p].at
      /\ r.later = proc[p].later /\ r.seen = proc[p].seen \cup reconnecting
      /\ r.arg = proc[p].arg
  BY <1>0, IdleType DEF ProcStates
<1> HIDE DEF r
<1>4. Becomes(p, r.pc, r.todo, r.at, r.later, r.seen, r.arg)
  BY <1>0, <1>1, <1>2, <1>3, BecomesOne
<1> QED
  BY <1>3, <1>4

LEMMA NoteRemovedBecomes ==
  ASSUME TypeOK, NEW p \in Procs, NEW u \in Urls, NoteRemoved(p, u)
  PROVE  Becomes(p, "note", proc[p].todo, proc[p].at,
                 proc[p].later, proc[p].seen, proc[p].arg \ {u})
<1>0. proc \in [Procs -> ProcStates] /\ p \in Procs /\ proc[p] \in ProcStates /\ proc[p].pc = "note"
  BY DEF TypeOK, ProcStates, NoteRemoved, At, Procs
<1> DEFINE r == [proc[p] EXCEPT !.arg = @ \ {u}]
<1>1. proc' = [proc EXCEPT ![p] = r]
  BY <1>0 DEF NoteRemoved, ProcStates
<1>2. r \in ProcStates
  BY <1>0, IdleType DEF ProcStates
<1>3. /\ r.pc = "note" /\ r.todo = proc[p].todo /\ r.at = proc[p].at
      /\ r.later = proc[p].later /\ r.seen = proc[p].seen
      /\ r.arg = proc[p].arg \ {u}
  BY <1>0, IdleType DEF ProcStates
<1> HIDE DEF r
<1>4. Becomes(p, r.pc, r.todo, r.at, r.later, r.seen, r.arg)
  BY <1>0, <1>1, <1>2, <1>3, BecomesOne
<1> QED
  BY <1>3, <1>4

LEMMA RestsBecomes ==
  ASSUME TypeOK, NEW p \in Procs, proc' = [proc EXCEPT ![p] = Idle]
  PROVE  Becomes(p, "idle", {}, {}, {}, {}, {})
BY IdleType, BecomesOne

LEMMA PanicBecomes ==
  ASSUME TypeOK, Panic
  PROVE  Becomes("routine", "panicked", {}, {}, {}, {}, {})
<1>1. proc' = [proc EXCEPT !["routine"] = Panicked] /\ "routine" \in Procs
  BY DEF Panic, Procs
<1>2. Becomes("routine", Panicked.pc, Panicked.todo, Panicked.at,
                         Panicked.later, Panicked.seen, Panicked.arg)
  BY <1>1, IdleType, BecomesOne
<1> QED
  BY <1>2, IdleType

-----------------------------------------------------------------------------
\* The types.
SetsOK ==
    /\ connectors \subseteq Urls /\ reconnecting \subseteq Urls
    /\ removed \subseteq Urls /\ alive \subseteq Urls /\ wanted \subseteq Urls
    /\ task \in [Urls -> {"none", "run", "done", "back"}]
    /\ calls \in 0..MaxCalls /\ adds \in 0..MaxAdds /\ drops \in 0..MaxDrops
ProcsOK ==
    /\ proc \in [Procs -> ProcStates]
    /\ \A p \in Procs : At(p, "idle") => proc[p] = Idle

LEMMA TypeParts == TypeOK <=> SetsOK /\ ProcsOK
BY DEF TypeOK, SetsOK, ProcsOK, ProcStates

LEMMA TypePartsNext == SetsOK' /\ ProcsOK' => TypeOK'
BY DEF TypeOK, SetsOK, ProcsOK, ProcStates

LEMMA ConstantTypes ==
  /\ Initial \subseteq Urls /\ Addable \subseteq Urls
  /\ MaxCalls \in Nat /\ MaxAdds \in Nat /\ MaxDrops \in Nat
  /\ "routine" \notin Callers /\ "routine" \in Procs /\ Callers \subseteq Procs
BY ConnectorAssumption DEF Procs

LEMMA BecomesTypes ==
  ASSUME TypeOK, NEW p \in Procs, NEW pc, NEW todo, NEW at, NEW later, NEW seen, NEW arg,
         Becomes(p, pc, todo, at, later, seen, arg)
  PROVE  ProcsOK'
BY DEF TypeOK, ProcsOK, Becomes, At

LEMMA InitTypes == Init => TypeOK
<1> SUFFICES ASSUME Init PROVE SetsOK /\ ProcsOK
  BY TypeParts
<1>1. SetsOK
  BY SMT, ConstantTypes DEF Init, SetsOK
<1>2. ProcsOK
  BY IdleType DEF Init, ProcsOK
<1> QED
  BY <1>1, <1>2

LEMMA RemovalTypes ==
  ASSUME TypeOK, NEW p \in Procs, Removal(p)
  PROVE  TypeOK'
<1>1. SetsOK'
  BY TypeParts DEF SetsOK, Removal, RemoveConnectors, LookReconnecting, ClearRemoved,
     RemoveLater, CollectDeadConns, bounds
<1>2. ASSUME NEW u \in Urls, RemoveConnectors(p, u) PROVE ProcsOK'
  BY <1>2, RemoveConnectorsBecomes, BecomesTypes
<1>3. ASSUME LookReconnecting(p) PROVE ProcsOK'
  BY <1>3, LookReconnectingBecomes, BecomesTypes
<1>4. ASSUME ClearRemoved(p) PROVE ProcsOK'
  BY <1>4, ClearRemovedBecomes, BecomesTypes
<1>5. ASSUME NEW u \in Urls, RemoveLater(p, u) PROVE ProcsOK'
  BY <1>5, RemoveLaterBecomes, BecomesTypes
<1>6. ASSUME CollectDeadConns(p) PROVE ProcsOK'
  <2>1. CASE p = "routine"
    BY <1>6, <2>1, CollectRoutineBecomes, BecomesTypes
  <2>2. CASE p # "routine"
    BY <1>6, <2>2, CollectCallerBecomes, BecomesTypes
  <2> QED
    BY <2>1, <2>2
<1> QED
  BY <1>1, <1>2, <1>3, <1>4, <1>5, <1>6, TypePartsNext DEF Removal

LEMMA PanicTypes ==
  ASSUME TypeOK, Panic
  PROVE  ProcsOK' /\ task' \in [Urls -> {"none", "run", "done", "back"}]
<1>1. ProcsOK'
  BY PanicBecomes, BecomesTypes, ConstantTypes
<1>2. task' \in [Urls -> {"none", "run", "done", "back"}]
  BY DEF Panic, TypeOK
<1> QED
  BY <1>1, <1>2

LEMMA RoutineTypes ==
  ASSUME TypeOK, Routine
  PROVE  TypeOK'
<1> USE ConstantTypes
<1>1. CASE Tick
  <2>1. SetsOK'
    BY <1>1, TypeParts DEF SetsOK, Tick, bounds
  <2> QED
    BY <1>1, <2>1, TickBecomes, BecomesTypes, TypePartsNext
<1>2. CASE Removal("routine")
  BY <1>2, RemovalTypes
<1>3. ASSUME NEW u \in Urls, TakeDead(u) PROVE TypeOK'
  <2>1. CASE u \in connectors
    <3>1. SetsOK'
      BY <1>3, <2>1, TypeParts DEF SetsOK, TakeDead, bounds
    <3> QED
      BY <1>3, <2>1, <3>1, TakeDeadBecomes, BecomesTypes, TypePartsNext
  <2>2. CASE u \notin connectors
    <3>1. Panic
      BY <1>3, <2>2 DEF TakeDead
    <3>2. SetsOK'
      BY <1>3, <3>1, PanicTypes, TypeParts DEF SetsOK, TakeDead, bounds
    <3> QED
      BY <3>1, <3>2, PanicTypes, TypePartsNext
  <2> QED
    BY <2>1, <2>2
<1>4. CASE SpawnReconnect
  <2>0. proc["routine"].at \subseteq Urls
    BY DEF TypeOK
  <2>1. CASE proc["routine"].at \cap reconnecting = {}
    <3>1. SetsOK'
      BY <1>4, <2>0, <2>1, TypeParts DEF SetsOK, SpawnReconnect, bounds
    <3> QED
      BY <1>4, <2>1, <3>1, SpawnReconnectBecomes, BecomesTypes, TypePartsNext
  <2>2. CASE proc["routine"].at \cap reconnecting # {}
    <3>1. Panic
      BY <1>4, <2>2 DEF SpawnReconnect
    <3>2. SetsOK'
      BY <1>4, <2>0, <3>1, PanicTypes, TypeParts DEF SetsOK, SpawnReconnect, bounds
    <3> QED
      BY <3>1, <3>2, PanicTypes, TypePartsNext
  <2> QED
    BY <2>1, <2>2
<1>5. CASE RoutineDone
  <2>1. SetsOK' /\ proc' = [proc EXCEPT !["routine"] = Idle]
    BY <1>5, TypeParts DEF SetsOK, RoutineDone, bounds
  <2> QED
    BY <2>1, RestsBecomes, BecomesTypes, TypePartsNext
<1> QED
  BY <1>1, <1>2, <1>3, <1>4, <1>5 DEF Routine

LEMMA TaskTypes ==
  ASSUME TypeOK, NEW u \in Urls, Task(u)
  PROVE  TypeOK'
<1>1. SetsOK'
  BY TypeParts DEF SetsOK, Task, Reconnect, LeaveReconnecting, ReturnToConnectors, bounds
<1>2. ProcsOK'
  BY TypeParts DEF ProcsOK, At, Task, Reconnect, LeaveReconnecting, ReturnToConnectors
<1> QED
  BY <1>1, <1>2, TypePartsNext

LEMMA CallerTypes ==
  ASSUME TypeOK, NEW p \in Callers, Caller(p)
  PROVE  TypeOK'
<1> USE ConstantTypes
<1>1. CASE Removal(p)
  BY <1>1, RemovalTypes
<1>2. CASE ListConnectors(p)
  <2>1. SetsOK'
    BY <1>2, TypeParts DEF SetsOK, ListConnectors, bounds
  <2> QED
    BY <1>2, <2>1, ListConnectorsBecomes, BecomesTypes, TypePartsNext
<1>3. CASE ListReconnecting(p)
  <2>1. SetsOK'
    BY <1>3, TypeParts DEF SetsOK, ListReconnecting, bounds
  <2> QED
    BY <1>3, <2>1, ListReconnectingBecomes, BecomesTypes, TypePartsNext
<1>4. ASSUME NEW u \in Urls, NoteRemoved(p, u) PROVE TypeOK'
  <2>1. SetsOK'
    BY <1>4, TypeParts DEF SetsOK, NoteRemoved, bounds
  <2> QED
    BY <1>4, <2>1, NoteRemovedBecomes, BecomesTypes, TypePartsNext
<1>5. CASE Return(p)
  <2>1. SetsOK' /\ proc' = [proc EXCEPT ![p] = Idle]
    BY <1>5, TypeParts DEF SetsOK, Return, bounds
  <2> QED
    BY <2>1, RestsBecomes, BecomesTypes, TypePartsNext
<1> QED
  BY <1>1, <1>2, <1>3, <1>4, <1>5 DEF Caller

LEMMA CallTypes ==
  ASSUME TypeOK, NEW p \in Callers, NEW U \in SUBSET Urls, Call(p, U)
  PROVE  TypeOK'
<1> USE ConstantTypes
<1>1. SetsOK'
  BY SMT, TypeParts DEF SetsOK, Call
<1> QED
  BY <1>1, CallBecomes, BecomesTypes, TypePartsNext

LEMMA AddDropTypes ==
  ASSUME TypeOK, NEW u \in Urls, AddConnector(u) \/ Drop(u)
  PROVE  TypeOK'
<1> USE ConstantTypes
<1>1. SetsOK'
  BY SMT, TypeParts DEF SetsOK, AddConnector, Drop
<1>2. ProcsOK'
  BY TypeParts DEF ProcsOK, At, AddConnector, Drop
<1> QED
  BY <1>1, <1>2, TypePartsNext

LEMMA StutterTypes == TypeOK /\ UNCHANGED vars => TypeOK'
BY SMT DEF TypeOK, At, vars, bounds

LEMMA TypeStep == TypeOK /\ [Next]_vars => TypeOK'
<1> SUFFICES ASSUME TypeOK, Next PROVE TypeOK'
  BY StutterTypes
<1>1. ASSUME NEW p \in Callers, NEW U \in {{u} : u \in Urls} \cup {{}, Urls}, Call(p, U)
      PROVE  TypeOK'
  BY <1>1, CallTypes
<1> QED
  BY <1>1, RoutineTypes, TaskTypes, AddDropTypes, CallerTypes DEF Next

\* The sets of ConnectorManagerData hold configured URLs and nothing of an
\* iteration outlives its call, however the routine, the tasks and the callers
\* of connector/manual.rs interleave.
THEOREM TypesAlways == Spec => []TypeOK
<1>1. Init => TypeOK
  BY InitTypes
<1>2. TypeOK /\ [Next]_vars => TypeOK'
  BY TypeStep
<1> QED
  BY <1>1, <1>2, PTL DEF Spec
-----------------------------------------------------------------------------
\* A connector that stays wanted is kept.  A removal is carried out on noted URLs
\* only, and a URL that is noted is not wanted, as long as none is added while
\* its removal is noted.
NotedIsUnwanted == Noted \cap wanted = {}
KeptInv == TypeOK /\ NotedIsUnwanted /\ WantedIsKept

LEMMA NotedBy ==
  ASSUME TypeOK
  PROVE  /\ removed \subseteq Noted
         /\ \A p \in Procs : /\ proc[p].todo \subseteq Noted /\ proc[p].later \subseteq Noted
                             /\ At(p, "look") => proc[p].at \subseteq Noted
<1>1. removed \subseteq Noted
  BY DEF TypeOK, Noted
<1>2. ASSUME NEW p \in Procs
      PROVE  /\ proc[p].todo \subseteq Noted /\ proc[p].later \subseteq Noted
             /\ At(p, "look") => proc[p].at \subseteq Noted
  <2>1. proc[p].todo \subseteq Urls /\ proc[p].later \subseteq Urls /\ proc[p].at \subseteq Urls
    BY DEF TypeOK
  <2>2. ASSUME NEW u \in proc[p].todo \cup proc[p].later PROVE u \in Noted
    <3>1. /\ u \in Urls
          /\ \E q \in Procs : \/ u \in proc[q].todo \cup proc[q].later
                              \/ At(q, "look") /\ u \in proc[q].at
      BY <2>1
    <3> QED
      BY <3>1 DEF Noted
  <2>3. proc[p].todo \subseteq Noted /\ proc[p].later \subseteq Noted
    BY <2>2
  <2>4. At(p, "look") => proc[p].at \subseteq Noted
    BY <2>1 DEF Noted
  <2> QED
    BY <2>2, <2>3, <2>4
<1> QED
  BY <1>1, <1>2

\* What a step of one process may add to the noted URLs.
LEMMA NotedStep ==
  ASSUME TypeOK, NEW p \in Procs, NEW pc, NEW todo, NEW at, NEW later, NEW seen, NEW arg,
         Becomes(p, pc, todo, at, later, seen, arg), NEW N,
         todo \subseteq Noted, later \subseteq Noted, pc = "look" => at \subseteq Noted,
         removed' \subseteq Noted \cup N
  PROVE  Noted' \subseteq Noted \cup N
<1> SUFFICES ASSUME NEW u \in Noted', u \notin removed' PROVE u \in Noted
  OBVIOUS
<1>1. PICK q \in Procs : \/ u \in proc'[q].todo \cup proc'[q].later
                         \/ proc'[q].pc = "look" /\ u \in proc'[q].at
  BY DEF Noted, At
<1>2. CASE q = p
  BY <1>1, <1>2 DEF Becomes
<1>3. CASE q # p
  <2>1. proc'[q] = proc[q]
    BY <1>3 DEF Becomes
  <2> QED
    BY <1>1, <2>1, NotedBy DEF At
<1> QED
  BY <1>2, <1>3

\* The URL that the routine has taken from connectors.
InHand == IF At("routine", "insert") THEN proc["routine"].at ELSE {}

\* A step that does not concern the way between the two sets.
LEMMA MoveStays ==
  ASSUME TypeOK, NEW p \in Procs, NEW pc, NEW todo, NEW at, NEW later, NEW seen, NEW arg,
         Becomes(p, pc, todo, at, later, seen, arg), UNCHANGED task,
         p = "routine" => pc # "insert" /\ ~At("routine", "insert")
  PROVE  OnTheMove' = OnTheMove /\ InHand' = InHand
<1>1. "routine" \in Procs
  BY ConstantTypes
<1>2. proc'["routine"].pc = "insert" <=> At("routine", "insert")
  BY <1>1 DEF Becomes, At
<1>3. At("routine", "insert") => proc'["routine"].at = proc["routine"].at
  BY <1>1 DEF Becomes
<1> QED
  BY <1>2, <1>3 DEF OnTheMove, InHand, At

\* handle_remove_connector and the rest of collect_dead_conns
LEMMA RemovalEffect ==
  ASSUME TypeOK, NEW p \in Procs, Removal(p)
  PROVE  /\ Noted' \subseteq Noted /\ OnTheMove' = OnTheMove /\ InHand' = InHand
         /\ UNCHANGED <<reconnecting, alive, task, wanted, bounds>>
         /\ connectors' \subseteq connectors /\ connectors \ Noted \subseteq connectors'
<1>0. UNCHANGED <<reconnecting, alive, task, wanted, bounds>>
  BY DEF Removal, RemoveConnectors, LookReconnecting, ClearRemoved, RemoveLater, CollectDeadConns
<1> USE NotedBy
<1>1. ASSUME NEW u \in Urls, RemoveConnectors(p, u)
      PROVE  /\ Noted' \subseteq Noted /\ OnTheMove' = OnTheMove /\ InHand' = InHand
             /\ connectors' \subseteq connectors /\ connectors \ Noted \subseteq connectors'
  <2>1. At(p, "scan") /\ u \in Noted /\ connectors' = connectors \ {u} /\ removed' = removed
    BY <1>1 DEF RemoveConnectors
  <2>2. CASE Becomes(p, "scan", proc[p].todo \ {u}, proc[p].at,
                    proc[p].later, proc[p].seen, proc[p].arg)
    <3>1. Noted' \subseteq Noted \cup {}
      BY SMT, <2>1, <2>2, NotedStep
    <3>2. OnTheMove' = OnTheMove /\ InHand' = InHand
      BY <1>0, <2>1, <2>2, MoveStays DEF At
    <3> QED
      BY <2>1, <3>1, <3>2
  <2>3. CASE Becomes(p, "look", proc[p].todo \ {u}, {u},
                    proc[p].later, proc[p].seen, proc[p].arg)
    <3>1. Noted' \subseteq Noted \cup {}
      BY SMT, <2>1, <2>3, NotedStep
    <3>2. OnTheMove' = OnTheMove /\ InHand' = InHand
      BY <1>0, <2>1, <2>3, MoveStays DEF At
    <3> QED
      BY <2>1, <3>1, <3>2
  <2> QED
    BY <1>1, <2>2, <2>3, RemoveConnectorsBecomes
<1>2. ASSUME LookReconnecting(p)
      PROVE  Noted' \subseteq Noted /\ OnTheMove' = OnTheMove /\ InHand' = InHand /\ connectors' = connectors
  <2>1. At(p, "look") /\ connectors' = connectors /\ removed' = removed
    BY <1>2 DEF LookReconnecting
  <2>2. Becomes(p, "scan", proc[p].todo, {},
                proc[p].later \cup (proc[p].at \cap reconnecting), proc[p].seen, proc[p].arg)
    BY <1>2, LookReconnectingBecomes
  <2>3. Noted' \subseteq Noted \cup {}
    <3>1. proc[p].later \cup (proc[p].at \cap reconnecting) \subseteq Noted
      BY <2>1
    <3> QED
      BY SMT, <2>1, <2>2, <3>1, NotedStep
  <2>4. OnTheMove' = OnTheMove /\ InHand' = InHand
    BY <1>0, <2>1, <2>2, MoveStays DEF At
  <2> QED
    BY <2>1, <2>3, <2>4
<1>3. ASSUME ClearRemoved(p)
      PROVE  Noted' \subseteq Noted /\ OnTheMove' = OnTheMove /\ InHand' = InHand /\ connectors' = connectors
  <2>1. At(p, "scan") /\ connectors' = connectors /\ removed' = {}
    BY <1>3 DEF ClearRemoved
  <2>2. Becomes(p, "collect", proc[p].todo, proc[p].at, proc[p].later, proc[p].seen, proc[p].arg)
    BY <1>3, ClearRemovedBecomes
  <2>3. Noted' \subseteq Noted \cup {}
    BY SMT, <2>1, <2>2, NotedStep
  <2>4. OnTheMove' = OnTheMove /\ InHand' = InHand
    BY <1>0, <2>1, <2>2, MoveStays DEF At
  <2> QED
    BY <2>1, <2>3, <2>4
<1>4. ASSUME NEW u \in Urls, RemoveLater(p, u)
      PROVE  Noted' \subseteq Noted /\ OnTheMove' = OnTheMove /\ InHand' = InHand /\ connectors' = connectors
  <2>1. At(p, "collect") /\ u \in Noted /\ connectors' = connectors /\ removed' = removed \cup {u}
    BY <1>4 DEF RemoveLater
  <2>2. Becomes(p, "collect", proc[p].todo, proc[p].at, proc[p].later \ {u}, proc[p].seen,
                proc[p].arg)
    BY <1>4, RemoveLaterBecomes
  <2>3. Noted' \subseteq Noted \cup {}
    BY SMT, <2>1, <2>2, NotedStep
  <2>4. OnTheMove' = OnTheMove /\ InHand' = InHand
    BY <1>0, <2>1, <2>2, MoveStays DEF At
  <2> QED
    BY <2>1, <2>3, <2>4
<1>5. ASSUME CollectDeadConns(p)
      PROVE  Noted' \subseteq Noted /\ OnTheMove' = OnTheMove /\ InHand' = InHand /\ connectors' = connectors
  <2>1. At(p, "collect") /\ connectors' = connectors /\ removed' = removed
    BY <1>5 DEF CollectDeadConns
  <2>2. CASE p = "routine"
    <3>1. Becomes(p, "spawn", proc[p].todo, proc[p].at, proc[p].later, connectors \ alive,
                  proc[p].arg)
      BY <1>5, <2>2, CollectRoutineBecomes
    <3>2. Noted' \subseteq Noted \cup {}
      BY SMT, <2>1, <3>1, NotedStep
    <3>3. OnTheMove' = OnTheMove /\ InHand' = InHand
      BY <1>0, <2>1, <3>1, MoveStays DEF At
    <3> QED
      BY <2>1, <3>2, <3>3
  <2>3. CASE p # "routine"
    <3>1. Becomes(p, "list", proc[p].todo, proc[p].at, proc[p].later, proc[p].seen, proc[p].arg)
      BY <1>5, <2>3, CollectCallerBecomes
    <3>2. Noted' \subseteq Noted \cup {}
      BY SMT, <2>1, <3>1, NotedStep
    <3>3. OnTheMove' = OnTheMove /\ InHand' = InHand
      BY <1>0, <2>1, <2>3, <3>1, MoveStays DEF At
    <3> QED
      BY <2>1, <3>2, <3>3
  <2> QED
    BY <2>2, <2>3
<1> QED
  BY <1>0, <1>1, <1>2, <1>3, <1>4, <1>5 DEF Removal

LEMMA RoutineKept ==
  ASSUME KeptInv, Routine
  PROVE  KeptInv'
<1> USE ConstantTypes, NotedBy DEF KeptInv
<1>0. TypeOK'
  BY RoutineTypes
<1> DEFINE me == proc["routine"]
<1>1. CASE Tick
  <2>1. At("routine", "idle") /\ UNCHANGED <<connectors, reconnecting, removed, task, wanted>>
    BY <1>1 DEF Tick
  <2>2. Becomes("routine", "scan", removed, {}, {}, {}, {})
    BY <1>1, TickBecomes
  <2>3. Noted' \subseteq Noted \cup {}
    BY SMT, <2>1, <2>2, NotedStep
  <2>4. OnTheMove' = OnTheMove
    BY <2>1, <2>2, MoveStays DEF At
  <2> QED
    BY <1>0, <2>1, <2>3, <2>4 DEF NotedIsUnwanted, WantedIsKept
<1>2. CASE Removal("routine")
  BY <1>0, <1>2, RemovalEffect DEF NotedIsUnwanted, WantedIsKept
<1>3. ASSUME NEW u \in Urls, TakeDead(u) PROVE KeptInv'
  <2>1. /\ At("routine", "spawn") /\ UNCHANGED <<reconnecting, removed, wanted>>
        /\ connectors' = connectors \ {u}
    BY <1>3 DEF TakeDead
  <2>2. CASE u \in connectors
    <3>1. Becomes("routine", "insert", me.todo, {u}, me.later, me.seen \ {u}, me.arg)
      BY <1>3, <2>2, TakeDeadBecomes
    <3>2. Noted' \subseteq Noted \cup {}
      BY SMT, <2>1, <3>1, NotedStep
    <3>3. OnTheMove' = OnTheMove \cup {u}
      <4>1. proc'["routine"].pc = "insert" /\ proc'["routine"].at = {u} /\ task' = task
        BY <1>3, <2>2, <3>1 DEF Becomes, TakeDead
      <4> QED
        BY <2>1, <4>1 DEF OnTheMove, At
    <3> QED
      BY <1>0, <2>1, <3>2, <3>3 DEF NotedIsUnwanted, WantedIsKept
  <2>3. CASE u \notin connectors
    <3>1. Panic /\ connectors' = connectors
      BY <1>3, <2>1, <2>3 DEF TakeDead
    <3>2. Becomes("routine", "panicked", {}, {}, {}, {}, {})
      BY <3>1, PanicBecomes
    <3>3. Noted' \subseteq Noted \cup {}
      BY SMT, <2>1, <3>2, NotedStep
    <3>4. OnTheMove \subseteq OnTheMove'
      <4>1. proc'["routine"].pc = "panicked" /\ proc["routine"].pc = "spawn"
        BY <2>1, <3>2 DEF Becomes, At
      <4> QED
        BY <3>1, <4>1 DEF OnTheMove, At, Panic
    <3> QED
      BY <1>0, <2>1, <3>1, <3>3, <3>4 DEF NotedIsUnwanted, WantedIsKept
  <2> QED
    BY <2>2, <2>3
<1>4. CASE SpawnReconnect
  <2>1. /\ At("routine", "insert") /\ UNCHANGED <<connectors, removed, wanted>>
        /\ reconnecting' = reconnecting \cup me.at
    BY <1>4 DEF SpawnReconnect
  <2>2. CASE me.at \cap reconnecting = {}
    <3>1. Becomes("routine", "spawn", me.todo, {}, me.later, me.seen, me.arg)
      BY <1>4, <2>2, SpawnReconnectBecomes
    <3>2. Noted' \subseteq Noted \cup {}
      BY SMT, <2>1, <3>1, NotedStep
    <3>3. OnTheMove \subseteq OnTheMove' \cup me.at
      <4>1. task' = [u \in Urls |-> IF u \in me.at THEN "run" ELSE task[u]]
        BY <1>4, <2>2 DEF SpawnReconnect
      <4> QED
        BY <4>1 DEF OnTheMove
    <3> QED
      BY <1>0, <2>1, <3>2, <3>3 DEF NotedIsUnwanted, WantedIsKept
  <2>3. CASE me.at \cap reconnecting # {}
    <3>1. Panic
      BY <1>4, <2>3 DEF SpawnReconnect
    <3>2. Becomes("routine", "panicked", {}, {}, {}, {}, {})
      BY <3>1, PanicBecomes
    <3>3. Noted' \subseteq Noted \cup {}
      BY SMT, <2>1, <3>2, NotedStep
    <3>4. OnTheMove \subseteq OnTheMove' \cup me.at
      BY <3>1 DEF OnTheMove, Panic
    <3> QED
      BY <1>0, <2>1, <3>3, <3>4 DEF NotedIsUnwanted, WantedIsKept
  <2> QED
    BY <2>2, <2>3
<1>5. CASE RoutineDone
  <2>1. /\ At("routine", "spawn") /\ proc' = [proc EXCEPT !["routine"] = Idle]
        /\ UNCHANGED <<connectors, reconnecting, removed, task, wanted>>
    BY <1>5 DEF RoutineDone
  <2>2. Becomes("routine", "idle", {}, {}, {}, {}, {})
    BY <2>1, RestsBecomes
  <2>3. Noted' \subseteq Noted \cup {}
    BY SMT, <2>1, <2>2, NotedStep
  <2>4. OnTheMove' = OnTheMove
    BY <2>1, <2>2, MoveStays DEF At
  <2> QED
    BY <1>0, <2>1, <2>3, <2>4 DEF NotedIsUnwanted, WantedIsKept
<1> QED
  BY <1>1, <1>2, <1>3, <1>4, <1>5 DEF Routine

\* What does not touch the processes leaves the notes alone.
LEMMA NotedSame ==
  ASSUME UNCHANGED <<proc, removed>>
  PROVE  Noted' = Noted
BY DEF Noted, At

LEMMA TaskEffect ==
  ASSUME TypeOK, NEW u \in Urls, Task(u)
  PROVE  /\ connectors \cup reconnecting \cup OnTheMove
             \subseteq connectors' \cup reconnecting' \cup OnTheMove'
         /\ Noted' = Noted /\ wanted' = wanted
<1>0. UNCHANGED <<proc, removed, wanted>> /\ task \in [Urls -> {"none", "run", "done", "back"}]
  BY DEF Task, Reconnect, LeaveReconnecting, ReturnToConnectors, TypeOK
<1> DEFINE kept == connectors \cup reconnecting \cup OnTheMove
                     \subseteq connectors' \cup reconnecting' \cup OnTheMove'
<1>1. ASSUME NEW ok \in BOOLEAN, Reconnect(u, ok) PROVE kept
  <2>1. task[u] = "run" /\ task' = [task EXCEPT ![u] = "done"]
        /\ UNCHANGED <<connectors, reconnecting, proc>>
    BY <1>1 DEF Reconnect
  <2> QED
    BY <1>0, <2>1 DEF OnTheMove, At
<1>2. CASE LeaveReconnecting(u)
  <2>1. /\ task' = [task EXCEPT ![u] = "back"] /\ UNCHANGED <<connectors, proc>>
        /\ reconnecting' = reconnecting \ {u}
    BY <1>2 DEF LeaveReconnecting
  <2>2. kept
    BY SMT, <1>0, <2>1 DEF OnTheMove, At
  <2> QED
    BY <1>0, <2>2, NotedSame
<1>3. CASE ReturnToConnectors(u)
  <2>1. /\ task' = [task EXCEPT ![u] = "none"] /\ UNCHANGED <<reconnecting, proc>>
        /\ connectors' = connectors \cup {u}
    BY <1>3 DEF ReturnToConnectors
  <2>2. kept
    BY <1>0, <2>1 DEF OnTheMove, At
  <2> QED
    BY <1>0, <2>2, NotedSame
<1> QED
  BY <1>0, <1>1, <1>2, <1>3, NotedSame DEF Task

LEMMA CallerKept ==
  ASSUME KeptInv, NEW p \in Callers, Caller(p)
  PROVE  KeptInv'
<1> USE ConstantTypes, NotedBy DEF KeptInv
<1>0. TypeOK' /\ p \in Procs /\ p # "routine"
  BY CallerTypes
<1>1. CASE Removal(p)
  BY <1>0, <1>1, RemovalEffect DEF NotedIsUnwanted, WantedIsKept
<1>2. CASE ListConnectors(p)
  <2>1. UNCHANGED <<connectors, reconnecting, removed, task, wanted>>
    BY <1>2 DEF ListConnectors
  <2>2. Becomes(p, "listmore", proc[p].todo, proc[p].at, proc[p].later, connectors, proc[p].arg)
    BY <1>0, <1>2, ListConnectorsBecomes
  <2>3. Noted' \subseteq Noted \cup {}
    BY SMT, <1>0, <2>1, <2>2, NotedStep
  <2>4. OnTheMove' = OnTheMove
    BY <1>0, <2>1, <2>2, MoveStays
  <2> QED
    BY <1>0, <2>1, <2>3, <2>4 DEF NotedIsUnwanted, WantedIsKept
<1>3. CASE ListReconnecting(p)
  <2>1. UNCHANGED <<connectors, reconnecting, removed, task, wanted>>
    BY <1>3 DEF ListReconnecting
  <2>2. Becomes(p, "note", proc[p].todo, proc[p].at, proc[p].later,
                proc[p].seen \cup reconnecting, proc[p].arg)
    BY <1>0, <1>3, ListReconnectingBecomes
  <2>3. Noted' \subseteq Noted \cup {}
    BY SMT, <1>0, <2>1, <2>2, NotedStep
  <2>4. OnTheMove' = OnTheMove
    BY <1>0, <2>1, <2>2, MoveStays
  <2> QED
    BY <1>0, <2>1, <2>3, <2>4 DEF NotedIsUnwanted, WantedIsKept
<1>4. ASSUME NEW u \in Urls, NoteRemoved(p, u) PROVE KeptInv'
  <2>1. /\ UNCHANGED <<connectors, reconnecting, task>>
        /\ removed' = removed \cup {u} /\ wanted' = wanted \ {u}
    BY <1>4 DEF NoteRemoved
  <2>2. Becomes(p, "note", proc[p].todo, proc[p].at, proc[p].later, proc[p].seen,
                proc[p].arg \ {u})
    BY <1>0, <1>4, NoteRemovedBecomes
  <2>3. Noted' \subseteq Noted \cup {u}
    BY SMT, <1>0, <2>1, <2>2, NotedStep
  <2>4. OnTheMove' = OnTheMove
    BY <1>0, <2>1, <2>2, MoveStays
  <2> QED
    BY <1>0, <2>1, <2>3, <2>4 DEF NotedIsUnwanted, WantedIsKept
<1>5. CASE Return(p)
  <2>1. /\ UNCHANGED <<connectors, reconnecting, removed, task, wanted>>
        /\ proc' = [proc EXCEPT ![p] = Idle]
    BY <1>5 DEF Return
  <2>2. Becomes(p, "idle", {}, {}, {}, {}, {})
    BY <1>0, <2>1, RestsBecomes
  <2>3. Noted' \subseteq Noted \cup {}
    BY SMT, <1>0, <2>1, <2>2, NotedStep
  <2>4. OnTheMove' = OnTheMove
    BY <1>0, <2>1, <2>2, MoveStays
  <2> QED
    BY <1>0, <2>1, <2>3, <2>4 DEF NotedIsUnwanted, WantedIsKept
<1> QED
  BY <1>1, <1>2, <1>3, <1>4, <1>5 DEF Caller

LEMMA CallKept ==
  ASSUME KeptInv, NEW p \in Callers, NEW U \in SUBSET Urls, Call(p, U)
  PROVE  KeptInv'
<1> USE ConstantTypes, NotedBy DEF KeptInv
<1>0. TypeOK' /\ p \in Procs /\ p # "routine"
  BY CallTypes
<1>1. UNCHANGED <<connectors, reconnecting, removed, task, wanted>>
  BY DEF Call
<1>2. Becomes(p, "scan", removed, {}, {}, {}, U)
  BY <1>0, CallBecomes
<1>3. Noted' \subseteq Noted \cup {}
  BY SMT, <1>0, <1>1, <1>2, NotedStep
<1>4. OnTheMove' = OnTheMove
  BY <1>0, <1>1, <1>2, MoveStays
<1> QED
  BY <1>0, <1>1, <1>3, <1>4 DEF NotedIsUnwanted, WantedIsKept

LEMMA KeptStep == KeptInv /\ [Next]_vars /\ [AddsUnnoted]_vars => KeptInv'
<1> SUFFICES ASSUME KeptInv, [Next]_vars, [AddsUnnoted]_vars PROVE KeptInv'
  OBVIOUS
<1> USE DEF KeptInv
<1>0. TypeOK'
  BY TypeStep
<1>1. CASE UNCHANGED vars
  <2>1. Noted' = Noted /\ OnTheMove' = OnTheMove
    BY <1>1, NotedSame DEF vars, OnTheMove, At
  <2> QED
    BY <1>0, <1>1, <2>1 DEF vars, NotedIsUnwanted, WantedIsKept
<1>2. CASE Next /\ AddsUnnoted
  <2>1. ASSUME NEW u \in Urls, Task(u) PROVE KeptInv'
    BY <1>0, <2>1, TaskEffect DEF NotedIsUnwanted, WantedIsKept
  <2>2. ASSUME NEW u \in Urls, AddConnector(u) PROVE KeptInv'
    <3>1. u \notin Noted
      BY <1>2, <2>2 DEF AddsUnnoted
    <3>2. /\ connectors' = connectors \cup {u} /\ wanted' = wanted \cup {u}
          /\ UNCHANGED <<reconnecting, removed, proc, task>>
      BY <2>2 DEF AddConnector
    <3>3. Noted' = Noted /\ OnTheMove' = OnTheMove
      BY <3>2, NotedSame DEF OnTheMove, At
    <3> QED
      BY <1>0, <3>1, <3>2, <3>3 DEF NotedIsUnwanted, WantedIsKept
  <2>3. ASSUME NEW u \in Urls, Drop(u) PROVE KeptInv'
    <3>1. UNCHANGED <<connectors, reconnecting, removed, proc, task, wanted>>
      BY <2>3 DEF Drop
    <3>2. Noted' = Noted /\ OnTheMove' = OnTheMove
      BY <3>1, NotedSame DEF OnTheMove, At
    <3> QED
      BY <1>0, <3>1, <3>2 DEF NotedIsUnwanted, WantedIsKept
  <2>4. ASSUME NEW p \in Callers, NEW U \in {{u} : u \in Urls} \cup {{}, Urls}, Call(p, U)
        PROVE  KeptInv'
    BY <2>4, CallKept
  <2> HIDE DEF KeptInv
  <2> QED
    BY <1>2, <2>1, <2>2, <2>3, <2>4, RoutineKept, CallerKept DEF Next
<1> QED
  BY <1>1, <1>2

LEMMA InitKept == Init => KeptInv
<1> SUFFICES ASSUME Init PROVE KeptInv
  OBVIOUS
<1>1. Noted = {}
  BY IdleType DEF Init, Noted, At
<1> QED
  BY <1>1, InitTypes DEF Init, KeptInv, NotedIsUnwanted, WantedIsKept

\* A connector that was configured and whose removal nobody asked for stays in
\* connectors or reconnecting, or is on the way between them, whatever the
\* routine, the reconnect tasks and any number of callers do: unless a URL is
\* added again while its removal is still noted in removed_conn_urls.
THEOREM WantedIsKeptAlways == Spec /\ [][AddsUnnoted]_vars => []WantedIsKept
<1>1. Init => KeptInv
  BY InitKept
<1>2. KeptInv /\ [Next]_vars /\ [AddsUnnoted]_vars => KeptInv'
  BY KeptStep
<1>3. KeptInv => WantedIsKept
  BY DEF KeptInv
<1> QED
  BY <1>1, <1>2, <1>3, PTL DEF Spec

-----------------------------------------------------------------------------
\* A URL is in one place, as long as none is added that is in the other one.
\* A URL whose task has not left reconnecting is there, and the one in the
\* routine's hands has no task that will put it back.
TaskPlaces ==
    /\ \A u \in Urls : task[u] \in {"run", "done"} => u \in reconnecting
    /\ \A u \in InHand : task[u] # "back"
PlaceInv == TypeOK /\ OnePlace /\ TaskPlaces

LEMMA MoveParts == OnTheMove = {u \in Urls : task[u] = "back"} \cup InHand
BY DEF OnTheMove, InHand

\* Nothing moves, and nothing joins connectors.
LEMMA PlaceStays ==
  ASSUME PlaceInv, TypeOK', UNCHANGED <<reconnecting, task>>,
         connectors' \subseteq connectors, OnTheMove' = OnTheMove, InHand' = InHand
  PROVE  PlaceInv'
BY DEF PlaceInv, OnePlace, TaskPlaces

LEMMA PanicPlace ==
  ASSUME PlaceInv, TypeOK', Panic, UNCHANGED <<connectors, reconnecting>>
  PROVE  PlaceInv'
<1> USE DEF PlaceInv
<1>1. proc'["routine"].pc = "panicked"
  BY PanicBecomes DEF Becomes
<1>2. InHand' = {} /\ OnTheMove' \subseteq OnTheMove
  BY <1>1 DEF InHand, OnTheMove, At, Panic
<1>3. TaskPlaces'
  BY <1>2 DEF TaskPlaces, Panic, TypeOK
<1> QED
  BY <1>2, <1>3 DEF OnePlace

LEMMA RoutinePlace ==
  ASSUME PlaceInv, Routine
  PROVE  PlaceInv'
<1> USE ConstantTypes, NotedBy DEF PlaceInv
<1>0. TypeOK'
  BY RoutineTypes
<1> DEFINE me == proc["routine"]
<1>1. CASE Tick
  <2>1. At("routine", "idle") /\ UNCHANGED <<connectors, reconnecting, task>>
    BY <1>1 DEF Tick
  <2>2. Becomes("routine", "scan", removed, {}, {}, {}, {})
    BY <1>1, TickBecomes
  <2>3. OnTheMove' = OnTheMove /\ InHand' = InHand
    BY <2>1, <2>2, MoveStays DEF At
  <2> QED
    BY <1>0, <2>1, <2>3, PlaceStays
<1>2. CASE Removal("routine")
  BY <1>0, <1>2, RemovalEffect, PlaceStays
<1>3. ASSUME NEW u \in Urls, TakeDead(u) PROVE PlaceInv'
  <2>1. UNCHANGED reconnecting /\ connectors' = connectors \ {u} /\ At("routine", "spawn")
    BY <1>3 DEF TakeDead
  <2>2. CASE u \in connectors
    <3>1. proc'["routine"].pc = "insert" /\ proc'["routine"].at = {u}
      BY <1>3, <2>2, TakeDeadBecomes DEF Becomes
    <3>2. task' = task
      BY <1>3, <2>2 DEF TakeDead
    <3>3. InHand' = {u} /\ OnTheMove' = OnTheMove \cup {u}
      BY <2>1, <3>1, <3>2 DEF InHand, OnTheMove, At
    <3>4. u \notin OnTheMove /\ u \notin reconnecting /\ task[u] # "back"
      BY <2>2, MoveParts DEF OnePlace
    <3> QED
      BY <1>0, <2>1, <3>2, <3>3, <3>4 DEF OnePlace, TaskPlaces
  <2>3. CASE u \notin connectors
    <3>1. Panic /\ connectors' = connectors
      BY <1>3, <2>1, <2>3 DEF TakeDead
    <3> QED
      BY <1>0, <2>1, <3>1, PanicPlace
  <2> QED
    BY <2>2, <2>3
<1>4. CASE SpawnReconnect
  <2>1. At("routine", "insert") /\ UNCHANGED connectors /\ reconnecting' = reconnecting \cup me.at
    BY <1>4 DEF SpawnReconnect
  <2>2. InHand = me.at /\ me.at \subseteq OnTheMove /\ me.at \subseteq Urls
    BY <2>1 DEF InHand, OnTheMove, TypeOK
  <2>3. me.at \cap reconnecting = {} /\ me.at \cap connectors = {}
    BY <2>2 DEF OnePlace
  <2>4. task' = [u \in Urls |-> IF u \in me.at THEN "run" ELSE task[u]]
    BY <1>4, <2>3 DEF SpawnReconnect
  <2>5. proc'["routine"].pc = "spawn"
    BY <1>4, <2>3, SpawnReconnectBecomes DEF Becomes
  <2>6. InHand' = {} /\ OnTheMove' = OnTheMove \ me.at
    <3>1. InHand' = {}
      BY <2>5 DEF InHand, At
    <3>2. OnTheMove' = {u \in Urls : task'[u] = "back"}
      BY <3>1, <2>5 DEF OnTheMove, At
    <3>3. OnTheMove = {u \in Urls : task[u] = "back"} \cup me.at
      BY <2>2, MoveParts
    <3> QED
      BY <2>2, <2>4, <3>1, <3>2, <3>3
  <2>7. OnePlace'
    BY <2>1, <2>3, <2>6 DEF OnePlace
  <2>8. TaskPlaces'
    BY <2>1, <2>4, <2>6 DEF TaskPlaces
  <2> QED
    BY <1>0, <2>7, <2>8
<1>5. CASE RoutineDone
  <2>1. /\ At("routine", "spawn") /\ proc' = [proc EXCEPT !["routine"] = Idle]
        /\ UNCHANGED <<connectors, reconnecting, task>>
    BY <1>5 DEF RoutineDone
  <2>2. Becomes("routine", "idle", {}, {}, {}, {}, {})
    BY <2>1, RestsBecomes
  <2>3. OnTheMove' = OnTheMove /\ InHand' = InHand
    BY <2>1, <2>2, MoveStays DEF At
  <2> QED
    BY <1>0, <2>1, <2>3, PlaceStays
<1> HIDE DEF PlaceInv
<1> QED
  BY <1>1, <1>2, <1>3, <1>4, <1>5 DEF Routine

LEMMA TaskPlace ==
  ASSUME PlaceInv, NEW u \in Urls, Task(u)
  PROVE  PlaceInv'
<1> USE DEF PlaceInv
<1>0. TypeOK' /\ UNCHANGED proc /\ InHand' = InHand
      /\ task \in [Urls -> {"none", "run", "done", "back"}]
  BY TaskTypes DEF Task, Reconnect, LeaveReconnecting, ReturnToConnectors, InHand, At, TypeOK
<1>m. OnTheMove' = {v \in Urls : task'[v] = "back"} \cup InHand
  BY <1>0 DEF OnTheMove, InHand, At
<1>1. ASSUME NEW ok \in BOOLEAN, Reconnect(u, ok) PROVE PlaceInv'
  <2>1. /\ task[u] = "run" /\ task' = [task EXCEPT ![u] = "done"]
        /\ UNCHANGED <<connectors, reconnecting>>
    BY <1>1 DEF Reconnect
  <2>2. OnTheMove' = OnTheMove
    BY <1>0, <1>m, <2>1, MoveParts
  <2>3. TaskPlaces'
    BY SMT, <1>0, <2>1 DEF TaskPlaces
  <2> QED
    BY <1>0, <2>1, <2>2, <2>3 DEF OnePlace
<1>2. CASE LeaveReconnecting(u)
  <2>1. /\ task[u] = "done" /\ task' = [task EXCEPT ![u] = "back"]
        /\ UNCHANGED connectors /\ reconnecting' = reconnecting \ {u}
    BY <1>2 DEF LeaveReconnecting
  <2>2. u \in reconnecting /\ u \notin connectors /\ u \notin InHand
    BY <2>1, MoveParts DEF TaskPlaces, OnePlace
  <2>3. OnTheMove' = OnTheMove \cup {u}
    BY <1>0, <1>m, <2>1, MoveParts
  <2>4. TaskPlaces'
    BY SMT, <1>0, <2>1, <2>2 DEF TaskPlaces
  <2> QED
    BY <1>0, <2>1, <2>2, <2>3, <2>4 DEF OnePlace
<1>3. CASE ReturnToConnectors(u)
  <2>1. /\ task[u] = "back" /\ task' = [task EXCEPT ![u] = "none"]
        /\ UNCHANGED reconnecting /\ connectors' = connectors \cup {u}
    BY <1>3 DEF ReturnToConnectors
  <2>2. u \notin reconnecting /\ u \notin InHand
    BY <2>1, MoveParts DEF TaskPlaces, OnePlace
  <2>3. OnTheMove' = OnTheMove \ {u}
    BY <1>0, <1>m, <2>1, <2>2, MoveParts
  <2>4. TaskPlaces'
    BY SMT, <1>0, <2>1 DEF TaskPlaces
  <2> QED
    BY <1>0, <2>1, <2>2, <2>3, <2>4 DEF OnePlace
<1> HIDE DEF PlaceInv
<1> QED
  BY <1>1, <1>2, <1>3 DEF Task

\* What a caller does never moves a connector.
LEMMA CallerEffect ==
  ASSUME TypeOK, NEW p \in Callers, Caller(p) \/ \E U \in SUBSET Urls : Call(p, U)
  PROVE  /\ UNCHANGED <<reconnecting, task>> /\ connectors' \subseteq connectors
         /\ OnTheMove' = OnTheMove /\ InHand' = InHand
         /\ proc'["routine"] = proc["routine"]
<1> USE ConstantTypes, NotedBy
<1>0. p \in Procs /\ p # "routine" /\ UNCHANGED <<reconnecting, task>>
  BY DEF Caller, Call, Removal, RemoveConnectors, LookReconnecting, ClearRemoved,
     RemoveLater, CollectDeadConns, ListConnectors, ListReconnecting, NoteRemoved, Return
<1>1. proc'["routine"] = proc["routine"] /\ connectors' \subseteq connectors
  BY <1>0 DEF Caller, Call, Removal, RemoveConnectors, LookReconnecting, ClearRemoved,
     RemoveLater, CollectDeadConns, ListConnectors, ListReconnecting, NoteRemoved, Return, TypeOK
<1>2. OnTheMove' = OnTheMove /\ InHand' = InHand
  BY <1>0, <1>1 DEF OnTheMove, InHand, At
<1> QED
  BY <1>0, <1>1, <1>2

LEMMA PlaceStep == PlaceInv /\ [Next]_vars /\ [AddsUnmoved]_vars => PlaceInv'
<1> SUFFICES ASSUME PlaceInv, [Next]_vars, [AddsUnmoved]_vars PROVE PlaceInv'
  OBVIOUS
<1>0. TypeOK /\ TypeOK'
  BY TypeStep DEF PlaceInv
<1>1. CASE UNCHANGED vars
  <2>1. OnTheMove' = OnTheMove /\ InHand' = InHand
    BY <1>1 DEF vars, OnTheMove, InHand, At
  <2> QED
    BY <1>0, <1>1, <2>1, PlaceStays DEF vars
<1>2. CASE Next /\ AddsUnmoved
  <2>1. ASSUME NEW u \in Urls, AddConnector(u) PROVE PlaceInv'
    <3>1. u \notin reconnecting /\ u \notin OnTheMove
      BY <1>2, <2>1 DEF AddsUnmoved
    <3>2. connectors' = connectors \cup {u} /\ UNCHANGED <<reconnecting, proc, task>>
      BY <2>1 DEF AddConnector
    <3>3. OnTheMove' = OnTheMove /\ InHand' = InHand
      BY <3>2 DEF OnTheMove, InHand, At
    <3> QED
      BY <1>0, <3>1, <3>2, <3>3 DEF PlaceInv, OnePlace, TaskPlaces
  <2>2. ASSUME NEW u \in Urls, Drop(u) PROVE PlaceInv'
    <3>1. UNCHANGED <<connectors, reconnecting, proc, task>>
      BY <2>2 DEF Drop
    <3>2. OnTheMove' = OnTheMove /\ InHand' = InHand
      BY <3>1 DEF OnTheMove, InHand, At
    <3> QED
      BY <1>0, <3>1, <3>2, PlaceStays
  <2>3. ASSUME NEW p \in Callers, Caller(p) \/ \E U \in SUBSET Urls : Call(p, U)
        PROVE  PlaceInv'
    BY <1>0, <2>3, CallerEffect, PlaceStays
  <2>4. \A U \in {{u} : u \in Urls} \cup {{}, Urls} : U \in SUBSET Urls
    OBVIOUS
  <2> QED
    BY <1>2, <2>1, <2>2, <2>3, <2>4, RoutinePlace, TaskPlace DEF Next
<1> QED
  BY <1>1, <1>2

LEMMA InitPlace == Init => PlaceInv
<1> SUFFICES ASSUME Init PROVE PlaceInv
  OBVIOUS
<1>1. OnTheMove = {} /\ InHand = {}
  BY ConstantTypes, IdleType DEF Init, OnTheMove, InHand, At
<1> QED
  BY <1>1, InitTypes DEF Init, PlaceInv, OnePlace, TaskPlaces

\* A URL is in one of connectors, reconnecting and the way between them: there
\* is never a second attempt for it.  Only an add_connector of a URL that is
\* being reconnected can break this, whatever callers list and remove.
THEOREM OnePlaceAlways == Spec /\ [][AddsUnmoved]_vars => []OnePlace
<1>1. Init => PlaceInv
  BY InitPlace
<1>2. PlaceInv /\ [Next]_vars /\ [AddsUnmoved]_vars => PlaceInv'
  BY PlaceStep
<1>3. PlaceInv => OnePlace
  BY DEF PlaceInv
<1> QED
  BY <1>1, <1>2, <1>3, PTL DEF Spec

-----------------------------------------------------------------------------
\* The routine's assertions hold, as long as moreover no caller removes a URL
\* that the routine has found dead: what the routine still has to move is among
\* the connectors.
DeadIsConnector ==
    /\ proc["routine"].seen \subseteq connectors
    /\ At("routine", "spawn") \/ At("routine", "insert") \/ proc["routine"].seen = {}
PanicInv == PlaceInv /\ DeadIsConnector /\ RoutineNeverPanics

LEMMA RoutinePanic ==
  ASSUME PanicInv, Routine
  PROVE  DeadIsConnector' /\ RoutineNeverPanics'
<1> USE ConstantTypes DEF PanicInv, PlaceInv
<1> DEFINE me == proc["routine"]
<1>1. CASE Tick
  <2>1. proc'["routine"].pc = "scan" /\ proc'["routine"].seen = {}
    BY <1>1, TickBecomes DEF Becomes
  <2> QED
    BY <2>1 DEF DeadIsConnector, RoutineNeverPanics, At
<1>2. CASE Removal("routine")
  <2>0. me.pc \in {"scan", "look", "collect"} /\ me.seen = {}
    BY <1>2 DEF Removal, RemoveConnectors, LookReconnecting, ClearRemoved, RemoveLater,
       CollectDeadConns, At, DeadIsConnector
  <2>1. ASSUME NEW u \in Urls, RemoveConnectors("routine", u)
        PROVE  proc'["routine"].pc \in {"scan", "look"} /\ proc'["routine"].seen = {}
    BY <2>0, <2>1, RemoveConnectorsBecomes DEF Becomes
  <2>2. CASE LookReconnecting("routine")
    <3>1. proc'["routine"].pc = "scan" /\ proc'["routine"].seen = {}
      BY <2>0, <2>2, LookReconnectingBecomes DEF Becomes
    <3> QED
      BY <3>1 DEF DeadIsConnector, RoutineNeverPanics, At
  <2>3. CASE ClearRemoved("routine")
    <3>1. proc'["routine"].pc = "collect" /\ proc'["routine"].seen = {}
      BY <2>0, <2>3, ClearRemovedBecomes DEF Becomes
    <3> QED
      BY <3>1 DEF DeadIsConnector, RoutineNeverPanics, At
  <2>4. ASSUME NEW u \in Urls, RemoveLater("routine", u)
        PROVE  proc'["routine"].pc = "collect" /\ proc'["routine"].seen = {}
    BY <2>0, <2>4, RemoveLaterBecomes DEF Becomes
  <2>5. CASE CollectDeadConns("routine")
    <3>1. proc'["routine"].pc = "spawn" /\ proc'["routine"].seen = connectors \ alive
      BY <2>5, CollectRoutineBecomes DEF Becomes
    <3>2. connectors' = connectors
      BY <2>5 DEF CollectDeadConns
    <3> QED
      BY <3>1, <3>2 DEF DeadIsConnector, RoutineNeverPanics, At
  <2> QED
    BY <1>2, <2>1, <2>2, <2>3, <2>4, <2>5 DEF Removal, DeadIsConnector, RoutineNeverPanics, At
<1>3. ASSUME NEW u \in Urls, TakeDead(u) PROVE DeadIsConnector' /\ RoutineNeverPanics'
  <2>1. u \in connectors /\ connectors' = connectors \ {u}
    BY <1>3 DEF TakeDead, DeadIsConnector
  <2>2. proc'["routine"].pc = "insert" /\ proc'["routine"].seen = me.seen \ {u}
    BY <1>3, <2>1, TakeDeadBecomes DEF Becomes
  <2> QED
    BY <2>1, <2>2 DEF DeadIsConnector, RoutineNeverPanics, At
<1>4. CASE SpawnReconnect
  <2>1. me.at \subseteq OnTheMove
    BY <1>4 DEF SpawnReconnect, OnTheMove
  <2>2. me.at \cap reconnecting = {} /\ connectors' = connectors
    BY <1>4, <2>1 DEF OnePlace, SpawnReconnect
  <2>3. proc'["routine"].pc = "spawn" /\ proc'["routine"].seen = me.seen
    BY <1>4, <2>2, SpawnReconnectBecomes DEF Becomes
  <2> QED
    BY <2>2, <2>3 DEF DeadIsConnector, RoutineNeverPanics, At
<1>5. CASE RoutineDone
  <2>1. proc' = [proc EXCEPT !["routine"] = Idle]
    BY <1>5 DEF RoutineDone
  <2>2. proc'["routine"].pc = "idle" /\ proc'["routine"].seen = {}
    BY <2>1, RestsBecomes DEF Becomes
  <2> QED
    BY <2>2 DEF DeadIsConnector, RoutineNeverPanics, At
<1> QED
  BY <1>1, <1>2, <1>3, <1>4, <1>5 DEF Routine

LEMMA PanicStep ==
  PanicInv /\ [Next]_vars /\ [AddsUnmoved]_vars /\ [RemovalsWait]_vars => PanicInv'
<1> SUFFICES ASSUME PanicInv, [Next]_vars, [AddsUnmoved]_vars, [RemovalsWait]_vars
             PROVE  PanicInv'
  OBVIOUS
<1> USE ConstantTypes
<1>0. TypeOK /\ PlaceInv'
  BY PlaceStep DEF PanicInv, PlaceInv
<1>1. ASSUME proc'["routine"] = proc["routine"], proc["routine"].seen \cap connectors \subseteq connectors'
      PROVE  PanicInv'
  BY <1>0, <1>1 DEF PanicInv, DeadIsConnector, RoutineNeverPanics, At
<1>2. CASE UNCHANGED vars
  BY <1>1, <1>2 DEF vars
<1>3. CASE Next /\ RemovalsWait
  <2>1. CASE Routine
    BY <1>0, <2>1, RoutinePanic DEF PanicInv
  <2>2. ASSUME NEW u \in Urls, Task(u) PROVE PanicInv'
    BY <1>1, <2>2 DEF Task, Reconnect, LeaveReconnecting, ReturnToConnectors
  <2>3. ASSUME NEW u \in Urls, AddConnector(u) \/ Drop(u) PROVE PanicInv'
    BY <1>1, <2>3 DEF AddConnector, Drop
  <2>4. ASSUME NEW p \in Callers, NEW U \in {{u} : u \in Urls} \cup {{}, Urls}, Call(p, U)
        PROVE  PanicInv'
    <3>1. proc'["routine"] = proc["routine"]
      BY <1>0, <2>4, CallerEffect
    <3> QED
      BY <1>1, <2>4, <3>1 DEF Call
  <2>5. ASSUME NEW p \in Callers, Caller(p) PROVE PanicInv'
    <3>1. proc'["routine"] = proc["routine"]
      BY <1>0, <2>5, CallerEffect
    <3>2. \A u \in Urls : RemoveConnectors(p, u) => u \notin proc["routine"].seen
      BY <1>3 DEF RemovalsWait
    <3>3. proc["routine"].seen \cap connectors \subseteq connectors'
      BY <2>5, <3>2 DEF Caller, Removal, RemoveConnectors, LookReconnecting, ClearRemoved,
         RemoveLater, CollectDeadConns, ListConnectors, ListReconnecting, NoteRemoved, Return
    <3> QED
      BY <1>1, <3>1, <3>3
  <2> QED
    BY <1>3, <2>1, <2>2, <2>3, <2>4, <2>5 DEF Next
<1> QED
  BY <1>2, <1>3

LEMMA InitPanic == Init => PanicInv
BY InitPlace, IdleType, ConstantTypes
   DEF Init, PanicInv, DeadIsConnector, RoutineNeverPanics, At

\* The unwrap and the assertion of conn_mgr_reconn_routine hold: a dead URL is
\* still among the connectors when the routine takes it, and it is not being
\* reconnected already.  Two calls of the management interface can break that,
\* and no others: an add_connector of a URL that is being reconnected, and a
\* list_connectors that removes a URL the routine has just found dead.
THEOREM RoutineNeverPanicsAlways ==
  Spec /\ [][AddsUnmoved]_vars /\ [][RemovalsWait]_vars => []RoutineNeverPanics
<1>1. Init => PanicInv
  BY InitPanic
<1>2. PanicInv /\ [Next]_vars /\ [AddsUnmoved]_vars /\ [RemovalsWait]_vars => PanicInv'
  BY PanicStep
<1>3. PanicInv => RoutineNeverPanics
  BY DEF PanicInv
<1> QED
  BY <1>1, <1>2, <1>3, PTL DEF Spec

=============================================================================
