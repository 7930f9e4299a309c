---------------------------- MODULE MCRouteTable ----------------------------
(***************************************************************************)
(* A node m and three others.  One rebuild from every network of the four, *)
(* and three tasks that change and rebuild a network of three at a time.   *)
(***************************************************************************)
EXTENDS RouteTable

CONSTANTS m, a, b, c, x, y, z, wide, narrow, t1, t2, t3

MCCost == [e \in Peers \X Peers |->
              CASE {e[1], e[2]} = {m, b} -> 3 [] {e[1], e[2]} = {a, c} -> 2 [] OTHER -> 1]

MCWithin == {<<wide, wide>>, <<narrow, narrow>>, <<narrow, wide>>}

Info(ip, cidrs, avoid) == [ip |-> ip, cidrs |-> cidrs, avoid_relay_data |-> avoid]

\* b and c have the same address and the same subnet.
Infos(avoid) ==
    [p \in Peers |-> CASE p = m -> Info(x, {}, FALSE)
                       [] p = a -> Info(y, {wide}, avoid)
                       [] p = b -> Info(z, {narrow}, FALSE)
                       [] p = c -> Info(z, {narrow}, FALSE)]

Lists(links) == [p \in Peers |-> {q \in Peers : {p, q} \in links}]

MCStarts ==
    {[policy |-> pol, info |-> Infos(avoid), conn |-> Lists(links), updates |-> 0] :
        pol \in {"LeastHop", "LeastCost"}, avoid \in BOOLEAN,
        links \in SUBSET kSubset(2, Peers)}
    \cup {[policy |-> "LeastCost", info |-> [Infos(FALSE) EXCEPT ![c] = None],
           conn |-> Lists({{m, a}, {a, b}, {m, b}}), updates |-> 2],
          [policy |-> "LeastHop", info |-> [p \in Peers |-> None], conn |-> Lists({}),
           updates |-> 1]}

MCNewInfos == {<<m, Info(x, {wide}, FALSE)>>, <<b, Info(y, {narrow}, FALSE)>>}
MCNewLists == {<<m, {a}>>, <<a, {m}>>}
MCNewSuppressed == {{}, {a}}

TasksAreAlike == Permutations(Tasks)
=============================================================================
