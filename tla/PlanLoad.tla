------------------------------ MODULE PlanLoad ------------------------------
(***************************************************************************)
(* How the scheduler takes an accepted plan: load_plan_into_scheduler      *)
(* (scheduler/engine.rs), whose validate_dag looks for a cycle by a search *)
(* in depth, and the critical path of every phase (scheduler/dag.rs).      *)
(* The planner has validated the same graph by another algorithm; a plan   *)
(* that only one of the two accepts is committed and then ends its run.    *)
(***************************************************************************)
EXTENDS MasterPlan, FiniteSetsExt

VARIABLES
  load,      \* "none", "search", "loaded" or "refused"
  start,     \* the phase the search starts from next
  path,      \* the recursion: nodes, with the entries they have still to look at
  visiting,
  visited,
  lengths    \* critical_path_length of the phase rows

loadVars == <<load, start, path, visiting, visited, lengths>>
loadedVars == <<planVars, loadVars>>

LoadInit ==
  /\ Init
  /\ load = "none" /\ start = 1 /\ path = <<>> /\ visiting = {} /\ visited = {} /\ lengths = <<>>

Outgoing(n) == {e \in Entries : From(e) = n}

BeginLoad ==
  /\ at = "accepted" /\ load = "none"
  /\ load' = IF UnknownDependency THEN "refused" ELSE "search"
  /\ UNCHANGED <<planVars, start, path, visiting, visited, lengths>>

(***************************************************************************)
(* find_cycle.  A call of dfs on a node that is visited returns at once,   *)
(* on one that is being visited with a cycle.                              *)
(***************************************************************************)
Call(n, rest) ==
  \/ /\ n \in visited
     /\ path' = rest /\ UNCHANGED <<load, visiting>>
  \/ /\ n \in visiting \ visited
     /\ load' = "refused" /\ UNCHANGED <<path, visiting>>
  \/ /\ n \notin visited \cup visiting
     /\ path' = Append(rest, [node |-> n, todo |-> Outgoing(n)]) /\ visiting' = visiting \cup {n}
     /\ UNCHANGED load

Here == path[Len(path)]
Outer == SubSeq(path, 1, Len(path) - 1)

SearchFrom ==
  /\ load = "search" /\ path = <<>> /\ start \in DOMAIN plan
  /\ start' = start + 1 /\ Call(plan[start].id, <<>>)
  /\ UNCHANGED <<planVars, visited, lengths>>

\* The next entry of the node, in any order.
Follow(e) ==
  /\ load = "search" /\ path # <<>> /\ e \in Here.todo
  /\ Call(To(e), Append(Outer, [Here EXCEPT !.todo = @ \ {e}]))
  /\ UNCHANGED <<planVars, start, visited, lengths>>

\* Fault: the node is not remembered as visited.
LeaveForgetful ==
  /\ load = "search" /\ path # <<>> /\ Here.todo = {}
  /\ path' = Outer
  /\ UNCHANGED <<planVars, load, start, visiting, visited, lengths>>

Leave ==
  /\ load = "search" /\ path # <<>> /\ Here.todo = {}
  /\ path' = Outer /\ visiting' = visiting \ {Here.node} /\ visited' = visited \cup {Here.node}
  /\ UNCHANGED <<planVars, load, start, lengths>>

(***************************************************************************)
(* The rows                                                                *)
(***************************************************************************)
\* compute_critical_path_lengths: longest, by way of the dependents.
Longest[n \in Ids] ==
  IF Outgoing(n) = {} THEN 1 ELSE 1 + Max({Longest[m] : m \in {To(e) : e \in Outgoing(n)}})

\* upsert_phase of every phase; the refresh that follows is in Scheduler.
LoadPhases ==
  /\ load = "search" /\ path = <<>> /\ start \notin DOMAIN plan
  /\ load' = "loaded" /\ lengths' = Longest
  /\ UNCHANGED <<planVars, start, path, visiting, visited>>

LoadStep ==
  \/ BeginLoad \/ SearchFrom \/ Leave \/ LoadPhases
  \/ (load = "search" /\ path # <<>> /\ \E e \in Here.todo : Follow(e))

(***************************************************************************)
(* Properties                                                              *)
(***************************************************************************)
\* Phases of which each waits for the ones before it, n the first of them.
ChainsFrom(n) ==
  {S \in SUBSET Ids : /\ n \in S
                      /\ \A m \in S \ {n} : n \in Before(m)
                      /\ \A k, m \in S : k = m \/ k \in Before(m) \/ m \in Before(k)}

\* The scheduler never refuses a plan the planner accepted, whatever the order of its entries, and
\* the length it sorts a phase by is that of the longest chain of phases that starts with it
\* (validate_dag of planner/validate.rs and of scheduler/dag.rs, compute_critical_path_lengths).
AcceptedLoads ==
  [][load' # load =>
       /\ load' # "refused"
       /\ load' = "loaded" => \A n \in Ids : lengths'[n] = Max({Cardinality(S) : S \in ChainsFrom(n)})]_loadVars
=============================================================================
