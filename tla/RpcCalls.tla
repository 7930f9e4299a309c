------------------------------ MODULE RpcCalls ------------------------------
(***************************************************************************)
(* What the peer rpc layer promises its callers, with no packets, pieces   *)
(* or tables in it.  A call is begun once and ends once, with an answer or *)
(* with a failure.  It may be executed by the server before or after it    *)
(* ended, once more than the network duplicates packets and no oftener,    *)
(* and an answer is put together from executions of this very call.       *)
(***************************************************************************)
EXTENDS Naturals

CONSTANT Calls

VARIABLES
    status,     \* status[c]: what the caller of c knows
    executed,   \* executed[c]: how often the server ran c
    duplicates  \* how many packets the network delivered a second time

vars == <<status, executed, duplicates>>

Idle == [kind |-> "idle", by |-> {}]
Open == [kind |-> "open", by |-> {}]
Failed == [kind |-> "failed", by |-> {}]
AnsweredBy(S) == [kind |-> "answered", by |-> S]

Init ==
    /\ status = [c \in Calls |-> Idle]
    /\ executed = [c \in Calls |-> 0]
    /\ duplicates = 0

Begin(c) ==
    /\ status[c] = Idle
    /\ status' = [status EXCEPT ![c] = Open]
    /\ UNCHANGED <<executed, duplicates>>

Duplicate ==
    /\ duplicates' = duplicates + 1
    /\ UNCHANGED <<status, executed>>

Execute(c) ==
    /\ status[c] # Idle
    /\ executed[c] <= duplicates
    /\ executed' = [executed EXCEPT ![c] = @ + 1]
    /\ UNCHANGED <<status, duplicates>>

\* A packet delivered a second time completes the request once more.
DuplicateExecute(c) ==
    /\ status[c] # Idle
    /\ executed[c] <= duplicates + 1
    /\ duplicates' = duplicates + 1
    /\ executed' = [executed EXCEPT ![c] = @ + 1]
    /\ UNCHANGED status

Answer(c) ==
    /\ status[c] = Open
    /\ \E S \in SUBSET (1..executed[c]) :
          /\ S # {}
          /\ status' = [status EXCEPT ![c] = AnsweredBy(S)]
    /\ UNCHANGED <<executed, duplicates>>

Fail(c) ==
    /\ status[c] = Open
    /\ status' = [status EXCEPT ![c] = Failed]
    /\ UNCHANGED <<executed, duplicates>>

End(c) == Answer(c) \/ Fail(c)

Next ==
    \/ Duplicate
    \/ \E c \in Calls : Begin(c) \/ Execute(c) \/ DuplicateExecute(c) \/ End(c)

SafeSpec == Init /\ [][Next]_vars

\* A call that was begun ends.
Spec == SafeSpec /\ \A c \in Calls : WF_vars(End(c))
=============================================================================
