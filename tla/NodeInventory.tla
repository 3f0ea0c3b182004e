---------------------------- MODULE NodeInventory ---------------------------
(***************************************************************************)
(* The nodes of the cluster as eight collectors see them, each through a   *)
(* listing of sinfo or scontrol of its own: cpus (cpus.go), nodes          *)
(* (internal/collector/nodes.go), node (node.go), drain_reason             *)
(* (node_drain.go), reservation_nodes (reservation_nodes.go), reservations *)
(* (reservations.go), gpus (gpus.go) and the CPUs and GPUs of partitions   *)
(* (partitions.go).                                                        *)
(*                                                                         *)
(* The actions are slurmctld's: what can happen to a node between scrapes. *)
(* Listings, parsers and what is emitted are functions of that state, so   *)
(* the invariants hold of a scrape at any moment.  A line is a record of   *)
(* the columns that the source reads; columns hold no separator.           *)
(***************************************************************************)
EXTENDS Integers, SequencesExt

CONSTANTS
  Inventory,      \* name -> [parts, features, cpus, gres]: what does not change of a node
  Default,        \* the default partition, which sinfo marks
  HiddenParts,    \* those that sinfo and scontrol show with -a only
  Reservations,   \* their names
  Bookings,       \* the sets of nodes that one may be made for in advance
  Reasons         \* what an administrator says of a node that he drains

Unset  == ""   \* the empty string
NoResv == Unset

Nodes == DOMAIN Inventory
Parts == UNION {Inventory[n].parts : n \in Nodes}
VisibleParts == Parts \ HiddenParts

\* What sinfo and scontrol show without -a of a node, and of which nodes.
ShownParts(n) == Inventory[n].parts \ HiddenParts
VisibleNodes  == {n \in Nodes : ShownParts(n) # {}}

\* A GRES specification is a sequence of resources, model "" if it has none.  A
\* reservation has a name, and no partition's ends in the default one's marker.
ASSUME InventoryAssumption ==
  /\ IsFiniteSet(Nodes)
  /\ IsFiniteSet(Reservations) /\ NoResv \notin Reservations
  /\ Default \o "*" \notin Parts /\ Default \notin HiddenParts
  /\ Bookings \subseteq (SUBSET Nodes) \ {{}}
  /\ \A n \in Nodes :
       /\ Inventory[n].parts # {} /\ IsFiniteSet(Inventory[n].parts)
       /\ Inventory[n].cpus \in Nat \ {0, 1}
       /\ Inventory[n].gres \in Seq([type : STRING, model : STRING, count : Nat])

VARIABLES
  node,      \* what slurmctld knows of the nodes
  inactive   \* the nodes of each reservation that is made and has not begun

vars == <<node, inactive>>

NoReason == "none"
Silent   == "Not responding"

Init ==
  /\ node = [n \in Nodes |-> [base |-> "UNKNOWN", drain |-> FALSE, planned |-> FALSE,
                              responds |-> FALSE, resv |-> NoResv,
                              reason |-> NoReason, used |-> 0]]
  /\ inactive = [r \in Reservations |-> {}]

-----------------------------------------------------------------------------
(* GRES specifications.                                                    *)

Key(r) == <<r.type, r.model>>

\* Counts by type and model; what several tokens say of one adds up.
parseGRESByType(spec) ==
  [k \in {Key(spec[i]) : i \in DOMAIN spec} |->
     SumFunction([i \in {i \in DOMAIN spec : Key(spec[i]) = k} |-> spec[i].count])]

parseGPUCount(spec) ==
  LET counts == parseGRESByType(spec)
  IN  SumFunctionOnSet(counts, {k \in DOMAIN counts : k[1] = "gpu"})

-----------------------------------------------------------------------------
(* slurmctld.                                                              *)

Busy == {"MIXED", "ALLOCATED"}
Up   == Busy \cup {"IDLE"}

Schedulable(n) == node[n].base \in Up /\ node[n].responds /\ ~node[n].drain

Register(n) ==
  /\ node[n].base \in {"UNKNOWN", "DOWN"}
  /\ node' = [node EXCEPT ![n].base = "IDLE", ![n].responds = TRUE,
                          ![n].reason = IF node[n].drain THEN @ ELSE NoReason]

\* "used" counts GPUs: a mixed node may use all of them or none.
Allocate(n) ==
  /\ Schedulable(n)
  /\ node[n].base # "ALLOCATED"
  /\ \E b \in Busy, u \in node[n].used .. parseGPUCount(Inventory[n].gres) :
       node' = [node EXCEPT ![n].base = b, ![n].used = u, ![n].planned = FALSE]

Release(n) ==
  /\ node[n].base \in Busy
  /\ \E u \in 0 .. node[n].used :
       \/ node' = [node EXCEPT ![n].base = "MIXED", ![n].used = u]
       \/ u = 0 /\ node' = [node EXCEPT ![n].base = "IDLE", ![n].used = u]

Drain(n) ==
  /\ ~node[n].drain
  /\ \E r \in Reasons :
       node' = [node EXCEPT ![n].drain = TRUE, ![n].reason = r, ![n].planned = FALSE]

Undrain(n) ==
  /\ node[n].drain
  /\ node' = [node EXCEPT ![n].drain = FALSE,
                          ![n].reason = IF node[n].base = "DOWN" THEN Silent ELSE NoReason]

\* A node does not answer; answers again; or is set down.
Hush(n) ==
  /\ node[n].base \in Up /\ node[n].responds
  /\ node' = [node EXCEPT ![n].responds = FALSE]

Answer(n) ==
  /\ node[n].base \in Up /\ ~node[n].responds
  /\ node' = [node EXCEPT ![n].responds = TRUE]

Fail(n) ==
  /\ node[n].base \in Up /\ ~node[n].responds
  /\ node' = [node EXCEPT ![n].base = "DOWN", ![n].used = 0, ![n].planned = FALSE,
                          ![n].reason = IF @ = NoReason THEN Silent ELSE @]

Plan(n) ==
  /\ Schedulable(n)
  /\ node[n].base = "IDLE"
  /\ node' = [node EXCEPT ![n].planned = ~@]

\* A reservation that is active gets a node, or loses one.
Reserve(n) ==
  \E r \in (Reservations \cup {NoResv}) \ {node[n].resv} :
    /\ r # NoResv => inactive[r] = {}
    /\ node' = [node EXCEPT ![n].resv = r]

\* The nodes of a reservation, active or not.
Reserved(r) == {n \in Nodes : node[n].resv = r} \cup inactive[r]

\* A reservation is made in advance, begins, or is deleted before it does.  Until
\* it begins, its nodes do not know of it.
Book(r) ==
  /\ Reserved(r) = {}
  /\ \E ns \in Bookings : inactive' = [inactive EXCEPT ![r] = ns]
  /\ UNCHANGED node

Begin(r) ==
  /\ inactive[r] # {}
  /\ \A n \in inactive[r] : node[n].resv = NoResv
  /\ node' = [n \in Nodes |-> IF n \in inactive[r] THEN [node[n] EXCEPT !.resv = r] ELSE node[n]]
  /\ inactive' = [inactive EXCEPT ![r] = {}]

Delete(r) ==
  /\ inactive[r] # {}
  /\ inactive' = [inactive EXCEPT ![r] = {}]
  /\ UNCHANGED node

NodeChanges ==
  \E n \in Nodes :
    \/ Register(n) \/ Allocate(n) \/ Release(n) \/ Drain(n) \/ Undrain(n)
    \/ Hush(n) \/ Answer(n) \/ Fail(n) \/ Plan(n) \/ Reserve(n)

Next ==
  \/ NodeChanges /\ UNCHANGED inactive
  \/ \E r \in Reservations : Book(r) \/ Begin(r) \/ Delete(r)

Spec == Init /\ [][Next]_vars

-----------------------------------------------------------------------------
(* What sinfo and scontrol print.                                          *)

\* StateLong: one word for the base state and its flags, and "*" if the node
\* does not respond.
Word(s) ==
  CASE s.drain              -> IF s.base \in Busy THEN "draining" ELSE "drained"
    [] ~s.drain /\ s.base # "IDLE" ->
         [DOWN |-> "down", UNKNOWN |-> "unknown",
          ALLOCATED |-> "allocated", MIXED |-> "mixed"][s.base]
    [] OTHER                -> IF s.planned THEN "planned"
                               ELSE IF s.resv # NoResv THEN "reserved" ELSE "idle"

StateLong(n) == [word |-> Word(node[n]), star |-> ~node[n].responds]

\* GresUsed: the first GPUs of the specification are in use.
UsedOf(spec, i, used) ==
  LET before == parseGPUCount(SubSeq(spec, 1, i - 1))
  IN  IF spec[i].type = "gpu" /\ used > before THEN Min({used - before, spec[i].count}) ELSE 0

GresUsed(n) ==
  LET spec == Inventory[n].gres
  IN  [i \in DOMAIN spec |-> [spec[i] EXCEPT !.count = UsedOf(spec, i, node[n].used)]]

\* CPUsState of some nodes: allocated, idle, other and all, in this order.  A
\* mixed node uses one; what a drained or failed node does not use is "other".
CPUsUsed(n) ==
  CASE node[n].base = "ALLOCATED" -> Inventory[n].cpus
    [] node[n].base = "MIXED"     -> 1
    [] OTHER                      -> 0

CPUsState(ns) ==
  LET free   == [n \in ns |-> Inventory[n].cpus - CPUsUsed(n)]
      usable == {n \in ns : node[n].base \in Up /\ ~node[n].drain}
  IN  <<SumFunction([n \in ns |-> CPUsUsed(n)]),
        SumFunctionOnSet(free, usable),
        SumFunctionOnSet(free, ns \ usable),
        SumFunction([n \in ns |-> Inventory[n].cpus])>>

In(p) == {n \in Nodes : p \in Inventory[n].parts}

\* sinfo prints one line for all the nodes that look the same in its columns.
Grouped(columns) ==
  {[columns |-> c, nodes |-> Cardinality({n \in DOMAIN columns : columns[n] = c})] : c \in Range(columns)}

\* sinfo -o "%R|%D|%T|%b"
NodesDataGlobal ==
  UNION {Grouped([n \in In(p) |-> [part |-> p, state |-> StateLong(n),
                                   features |-> Inventory[n].features]]) : p \in VisibleParts}

Marked(p) == IF p = Default THEN p \o "*" ELSE p

\* sinfo -o "%C" and sinfo -o "%R,%C"
CPUsData       == CPUsState(VisibleNodes)
PartitionsData == {[part |-> p, cpus |-> CPUsState(In(p))] : p \in VisibleParts}

\* scontrol show nodes -o
ScontrolNodes ==
  {[node |-> n, base |-> node[n].base, resv |-> node[n].resv,
    flags |-> {f \in {"DRAIN", "PLANNED"} : \/ f = "DRAIN" /\ node[n].drain
                                            \/ f = "PLANNED" /\ node[n].planned}] : n \in VisibleNodes}

\* scontrol show reservation: a record of fields for every reservation (active
\* from when it begins until it has no node), or a sentence with none in it.
ReservationsData ==
  LET made == {r \in Reservations : Reserved(r) # {}}
  IN  IF made = {} THEN << <<>> >>
      ELSE SetToSeq({<<[key |-> "ReservationName", value |-> r],
                       [key |-> "Nodes", value |-> Reserved(r)],
                       [key |-> "NodeCnt", value |-> Cardinality(Reserved(r))],
                       [key |-> "PartitionName", value |-> "(null)"],
                       [key |-> "State", value |-> IF inactive[r] = {} THEN "ACTIVE" ELSE "INACTIVE"]>> :
                       r \in made})

\* sinfo -N: a line for every node and partition.
PerNode(columns(_, _)) ==
  UNION {{columns(n, p) : p \in ShownParts(n)} : n \in Nodes}

NodeData ==
  PerNode(LAMBDA n, p : [node |-> n, cpus |-> CPUsState({n}), state |-> StateLong(n),
                         part |-> Marked(p),
                         gres |-> Inventory[n].gres, gresUsed |-> GresUsed(n)])

DrainReasonData ==
  SetToSeq(PerNode(LAMBDA n, p : [node |-> n, part |-> p, reason |-> node[n].reason,
                                  state |-> StateLong(n)]))

\* sinfo -a --Format=Nodes,StateLong,Gres,GresUsed: also of hidden partitions.
GPUsSnapshotData ==
  Grouped([n \in Nodes |-> [state |-> StateLong(n), gres |-> Inventory[n].gres,
                            gresUsed |-> GresUsed(n)]])

\* sinfo --Format=Nodes,Partition,Gres,GresUsed --state=idle,allocated, which
\* selects mixed nodes too.
PartitionsGpuData ==
  UNION {Grouped([n \in {m \in In(p) : Word(node[m]) \in {"idle", "allocated", "mixed"}} |->
                   [part |-> Marked(p), gres |-> Inventory[n].gres, gresUsed |-> GresUsed(n)]]) :
         p \in VisibleParts}

-----------------------------------------------------------------------------
(* The parsers.                                                            *)

\* strings.TrimRight(column, "*")
TrimRight(column) == CHOOSE p \in Parts : column \in {p, Marked(p)}

\* Mutant: the columns in another order.
ParseCPUsMetrics_order(splitted) ==
  [alloc |-> splitted[1], other |-> splitted[2], idle |-> splitted[3], total |-> splitted[4]]

\* The four columns, as cpus.go, node.go and partitions.go each split them.
ParseCPUsMetrics(splitted) ==
  [alloc |-> splitted[1], idle |-> splitted[2], other |-> splitted[3], total |-> splitted[4]]

\* A line of a partition that has one already replaces it.
AddPartition(partitions, l) ==
  [p \in DOMAIN partitions \cup {TrimRight(l.part)} |->
     IF p = TrimRight(l.part) THEN ParseCPUsMetrics(l.cpus) ELSE partitions[p]]

parsePartitionCPUs(lines) == FoldLeft(AddPartition, <<>>, SetToSeq(lines))

\* The prefixes tell the words apart; what none of them matches is "other".
Bucket(state) ==
  LET is(words) == state.word \in words
  IN  CASE is({"allocated"})           -> "alloc"
        [] is({"completing"})          -> "comp"
        [] is({"down"})                -> "down"
        [] is({"drained", "draining"}) -> "drain"
        [] is({"fail", "failing"})     -> "fail"
        [] is({"error"})               -> "err"
        [] is({"idle"})                -> "idle"
        [] is({"inval"})               -> "inval"
        [] is({"maint"})               -> "maint"
        [] is({"mixed"})               -> "mix"
        [] is({"reserved"})            -> "resv"
        [] is({"planned"})             -> "planned"
        [] OTHER                       -> "other"

Buckets == {"alloc", "comp", "down", "drain", "fail", "err", "idle", "inval",
            "maint", "mix", "resv", "planned", "other"}

\* Sorting makes one label of the same features in any order.
normalizeFeatureSet(features) == ToSet(features)

\* Lines are sorted and compacted, so they are a set; lines that fall together
\* once they are normalised add up; and every bucket has every feature set.
ParseNodesMetricsGlobal(lines) ==
  LET Of(p)     == {l \in lines : l.columns.part = p}
      Labels(p) == {normalizeFeatureSet(l.columns.features) : l \in Of(p)}
  IN  [p \in {l.columns.part : l \in lines} |->
         [b \in Buckets |->
            [fs \in Labels(p) |->
               SumFunction([l \in {l \in Of(p) :
                                     /\ Bucket(l.columns.state) = b
                                     /\ normalizeFeatureSet(l.columns.features) = fs} |-> l.nodes])]]]

\* --collector.nodes.feature-set=false
sumMap(m) == SumFunction(m)

SlurmGetTotal == Cardinality(ScontrolNodes)

\* Mutant: the marker is kept.
ParseNodeMetrics_marked(lines) ==
  [n \in {l.node : l \in lines} |->
     LET of   == {l \in lines : l.node = n}
         some == CHOOSE l \in of : TRUE
     IN  [cpus       |-> ParseCPUsMetrics(some.cpus),
          nodeStatus |-> some.state,
          partitions |-> {l.part : l \in of},
          gresTotal  |-> parseGRESByType(some.gres),
          gresUsed   |-> parseGRESByType(some.gresUsed)]]

\* All lines of a node say the same of it but for the partition.
ParseNodeMetrics(lines) ==
  [n \in {l.node : l \in lines} |->
     LET of   == {l \in lines : l.node = n}
         some == CHOOSE l \in of : TRUE
     IN  [cpus       |-> ParseCPUsMetrics(some.cpus),
          nodeStatus |-> some.state,
          partitions |-> {TrimRight(l.part) : l \in of},
          gresTotal  |-> parseGRESByType(some.gres),
          gresUsed   |-> parseGRESByType(some.gresUsed)]]

SaysNothing == {Unset, "none", "unknown"}

\* Mutant: what slurmctld says is not a reason.
AddReason_silent(results, l) ==
  IF \/ l.reason \in SaysNothing \cup {Silent}
     \/ Bucket(l.state) \notin {"down", "drain"}
     \/ \E i \in DOMAIN results : results[i].node = l.node
  THEN results
  ELSE Append(results, [node |-> l.node, reason |-> l.reason])

\* Nodes in a degraded state, once each, unless the reason says nothing.
AddReason(results, l) ==
  IF \/ l.reason \in SaysNothing
     \/ Bucket(l.state) \notin {"down", "drain"}
     \/ \E i \in DOMAIN results : results[i].node = l.node
  THEN results
  ELSE Append(results, [node |-> l.node, reason |-> l.reason])

ParseDrainReasonMetrics(lines) == FoldLeft(AddReason, <<>>, lines)

\* Mutant: only the base state is looked at.
ParseReservationNodesMetrics_head(lines) ==
  [r \in {l.resv : l \in lines} \ {NoResv} |->
     LET of(P(_)) == Cardinality({l \in lines : l.resv = r /\ P(l)})
     IN  [alloc   |-> of(LAMBDA l : l.base = "ALLOCATED"),
          idle    |-> of(LAMBDA l : l.base = "IDLE"),
          mix     |-> of(LAMBDA l : l.base = "MIXED"),
          down    |-> of(LAMBDA l : l.base = "DOWN"),
          other   |-> of(LAMBDA l : l.base \notin Up \cup {"DOWN"}),
          drain   |-> of(LAMBDA l : l.base = "DRAIN"),
          planned |-> of(LAMBDA l : l.base = "PLANNED"),
          healthy |-> of(LAMBDA l : l.base \in Up)]]

\* The base state picks a bucket, the flags are counted on top of it, and a
\* drained node is not healthy.
ParseReservationNodesMetrics(lines) ==
  [r \in {l.resv : l \in lines} \ {NoResv} |->
     LET of(P(_)) == Cardinality({l \in lines : l.resv = r /\ P(l)})
     IN  [alloc   |-> of(LAMBDA l : l.base = "ALLOCATED"),
          idle    |-> of(LAMBDA l : l.base = "IDLE"),
          mix     |-> of(LAMBDA l : l.base = "MIXED"),
          down    |-> of(LAMBDA l : l.base = "DOWN"),
          other   |-> of(LAMBDA l : l.base \notin Up \cup {"DOWN"}),
          drain   |-> of(LAMBDA l : "DRAIN" \in l.flags),
          planned |-> of(LAMBDA l : "PLANNED" \in l.flags),
          healthy |-> of(LAMBDA l : l.base \in Up /\ "DRAIN" \notin l.flags)]]

ReservationInfo ==
  [Name |-> Unset, State |-> Unset, Nodes |-> {}, Partition |-> Unset, NodeCount |-> 0]

setReservationField(res, field) ==
  CASE field.key = "ReservationName" -> [res EXCEPT !.Name = field.value]
    [] field.key = "State"           -> [res EXCEPT !.State = field.value]
    [] field.key = "Nodes"           -> [res EXCEPT !.Nodes = field.value]
    [] field.key = "NodeCnt"         -> [res EXCEPT !.NodeCount = field.value]
    [] field.key = "PartitionName"   ->
         [res EXCEPT !.Partition = IF field.value = "(null)" THEN Unset ELSE field.value]
    [] OTHER                         -> res

Reservation(record) == FoldLeft(setReservationField, ReservationInfo, record)

\* Mutant: a sentence is a reservation.
AddReservation_phantom(infos, record) == Append(infos, Reservation(record))

\* A record with no name is not one.
AddReservation(infos, record) ==
  LET res == Reservation(record)
  IN  IF res.Name = Unset THEN infos ELSE Append(infos, res)

parseReservations(records) == FoldLeft(AddReservation, <<>>, records)

\* Mutant: the state is looked up with what follows its word.
isAvailableGPUState_exact(state) ==
  state \in [word : {"idle", "allocated", "mixed"}, star : {FALSE}]

\* The state without what follows its word.
isAvailableGPUState(state) == state.word \in {"idle", "allocated", "mixed"}

\* The nodes of a line times the GPUs that a column of it says each has.
InColumn(l, column) == l.nodes * parseGPUCount(l.columns[column])

\* A view keeps the line that it selects: two nodes alike but for their states
\* stay two.
splitGPUViews(lines) ==
  LET available == {l \in lines : isAvailableGPUState(l.columns.state)}
  IN  [total |-> lines, alloc |-> available, idle |-> available]

ParseTotalGPUs(view) == SumFunction([l \in view |-> InColumn(l, "gres")])

ParseAllocatedGPUs(view) == SumFunction([l \in view |-> InColumn(l, "gresUsed")])

ParseIdleGPUs(view) ==
  SumFunction([l \in view |-> InColumn(l, "gres") - InColumn(l, "gresUsed")])

computeGPUsFromSnapshot(lines) ==
  LET view  == splitGPUViews(lines)
      total == ParseTotalGPUs(view.total)
      alloc == ParseAllocatedGPUs(view.alloc)
      idle  == ParseIdleGPUs(view.idle)
  IN  [total |-> total, alloc |-> alloc, idle |-> idle, other |-> total - alloc - idle]

\* strings.Contains(line, "gpu:")
NamesGPU(l) == \E i \in DOMAIN l.columns.gres : l.columns.gres[i].type = "gpu"

\* Mutant: a line of a partition that has one already replaces it.
parsePartitionGPUs_last(lines) ==
  [p \in {TrimRight(l.columns.part) : l \in {l \in lines : NamesGPU(l)}} |->
     LET l == CHOOSE l \in lines : NamesGPU(l) /\ TrimRight(l.columns.part) = p
     IN  [gpuIdle      |-> l.nodes * (parseGPUCount(l.columns.gres) - parseGPUCount(l.columns.gresUsed)),
          gpuAllocated |-> l.nodes * parseGPUCount(l.columns.gresUsed)]]

parsePartitionGPUs(lines) ==
  [p \in {TrimRight(l.columns.part) : l \in {l \in lines : NamesGPU(l)}} |->
     LET of == {l \in lines : NamesGPU(l) /\ TrimRight(l.columns.part) = p}
     IN  [gpuIdle      |-> SumFunction([l \in of |-> l.nodes * (parseGPUCount(l.columns.gres)
                                                  - parseGPUCount(l.columns.gresUsed))]),
          gpuAllocated |-> SumFunction([l \in of |-> l.nodes * parseGPUCount(l.columns.gresUsed)])]]

-----------------------------------------------------------------------------
TypeOK ==
  /\ \A n \in Nodes :
       /\ node[n].base \in Up \cup {"UNKNOWN", "DOWN"}
       /\ node[n].resv \in Reservations \cup {NoResv}
       /\ node[n].reason \in Reasons \cup {NoReason, Silent}
       /\ node[n].used \in 0 .. parseGPUCount(Inventory[n].gres)
  /\ \A r \in Reservations :
       inactive[r] # {} => inactive[r] \in Bookings /\ \A n \in Nodes : node[n].resv # r

\* slurm_nodes_* and slurm_node_status come from two listings, one of which marks
\* the default partition (#20): they count the same nodes in every state of every
\* partition, and all of scontrol's nodes.  However sinfo groups the nodes that
\* look alike, each of them is in one bucket of each of its partitions.  The CPUs
\* of the cluster and of a partition are those of its nodes, and none is counted
\* as idle that the nodes' states say is not to be had.  None of the collectors
\* has a partition that is hidden or a node that is only in such.
NodeViewsAgree ==
  LET m  == ParseNodesMetricsGlobal(NodesDataGlobal)
      ns == ParseNodeMetrics(NodeData)
      cluster == ParseCPUsMetrics(CPUsData)
      parts   == parsePartitionCPUs(PartitionsData)
      Of(ms, field) == SumFunction([n \in ms |-> ns[n].cpus[field]])
      Lost(state) == Bucket(state) \in {"drain", "down"}
  IN  /\ DOMAIN ns = VisibleNodes /\ Cardinality(DOMAIN ns) = SlurmGetTotal
      /\ DOMAIN m = VisibleParts /\ DOMAIN parts = VisibleParts
      /\ \A field \in DOMAIN cluster :
           /\ cluster[field] = Of(DOMAIN ns, field)
           /\ \A p \in VisibleParts : parts[p][field] = Of({n \in DOMAIN ns : p \in ns[n].partitions}, field)
      /\ cluster.alloc + cluster.idle + cluster.other = cluster.total
      /\ \A n \in DOMAIN ns : Lost(ns[n].nodeStatus) => ns[n].cpus.idle = 0
      /\ \A p \in VisibleParts, b \in Buckets :
           sumMap(m[p][b]) =
             Cardinality({n \in DOMAIN ns : p \in ns[n].partitions /\ Bucket(ns[n].nodeStatus) = b})

\* Every node that the nodes collector counts as drained or down has a reason to
\* show, and shows it once: also one that slurmctld set down itself (#198).
DegradedHaveReasons ==
  LET results == ParseDrainReasonMetrics(DrainReasonData)
      ns      == ParseNodeMetrics(NodeData)
  IN  /\ {results[i].node : i \in DOMAIN results} =
           {n \in DOMAIN ns : Bucket(ns[n].nodeStatus) \in {"down", "drain"}}
      /\ \A i, j \in DOMAIN results : results[i].node = results[j].node => i = j

\* A node of a reservation is healthy iff the other collectors count it neither as
\* drained nor as down or of unknown state.  Those that jobs could start on are, and
\* so are those that are up but do not respond.  The drained ones are counted on
\* top of their base state (#142): what is up but not healthy is drained.
HealthyIsUp ==
  LET m == ParseReservationNodesMetrics(ScontrolNodes)
  IN  \A r \in DOMAIN m :
        LET of == {n \in VisibleNodes : node[n].resv = r}
            up == {n \in of : Bucket(StateLong(n)) \notin {"drain", "down", "other"}}
        IN  /\ m[r].healthy = Cardinality(up)
            /\ m[r].healthy = Cardinality({n \in of : Schedulable(n)})
                               + Cardinality({n \in up : ~node[n].responds})
            /\ m[r].alloc + m[r].idle + m[r].mix + m[r].down + m[r].other = Cardinality(of)
            /\ m[r].alloc + m[r].idle + m[r].mix <= m[r].healthy + m[r].drain

\* The reservations collector has every reservation that was made, and none when there
\* is none (#26).  What it says of an active one and what the nodes say of theirs is the
\* same, but for nodes that are only in hidden partitions; the nodes know of none that
\* has not begun, which it lists (test_data/reservations.txt).
ReservationViewsAgree ==
  LET infos == parseReservations(ReservationsData)
      m     == ParseReservationNodesMetrics(ScontrolNodes)
      names(state) == {infos[i].Name : i \in {i \in DOMAIN infos : infos[i].State = state}}
  IN  /\ {infos[i].Name : i \in DOMAIN infos} = {r \in Reservations : Reserved(r) # {}}
      /\ DOMAIN m \subseteq names("ACTIVE")
      /\ DOMAIN m \cap names("INACTIVE") = {}
      /\ \A i \in DOMAIN infos :
           LET r == infos[i].Name
               unlisted == infos[i].Nodes \ VisibleNodes
           IN  infos[i].State = "ACTIVE" =>
                 infos[i].NodeCount = Cardinality(unlisted)
                   + IF r \in DOMAIN m THEN m[r].alloc + m[r].idle + m[r].mix + m[r].down + m[r].other
                     ELSE 0
      /\ \A i, j \in DOMAIN infos : infos[i].Name = infos[j].Name => i = j

\* Three collectors count GPUs from three listings.  Each partition's are those of
\* its nodes that are available, however sinfo groups them (#16).  The cluster's are
\* those of its nodes (#145) and of the nodes that only the gpus collector asks for,
\* being in hidden partitions; no number is negative or above the total.
GPUViewsAgree ==
  LET g     == computeGPUsFromSnapshot(GPUsSnapshotData)
      ns    == ParseNodeMetrics(NodeData)
      parts == parsePartitionGPUs(PartitionsGpuData)
      gpus(m) == SumFunctionOnSet(m, {k \in DOMAIN m : k[1] = "gpu"})
      Sum(ms, column) == SumFunction([n \in ms |-> gpus(ns[n][column])])
      available == {n \in DOMAIN ns : isAvailableGPUState(ns[n].nodeStatus)}
      unlisted  == Nodes \ DOMAIN ns
      had(ms)  == SumFunction([n \in ms |-> parseGPUCount(Inventory[n].gres)])
      used(ms) == SumFunction([n \in ms |-> parseGPUCount(GresUsed(n))])
      others    == {n \in unlisted : isAvailableGPUState(StateLong(n))}
      Share(p) == IF p \in DOMAIN parts THEN parts[p] ELSE [gpuIdle |-> 0, gpuAllocated |-> 0]
  IN  /\ {g.alloc, g.idle, g.other} \subseteq 0 .. g.total
      /\ g.total = Sum(DOMAIN ns, "gresTotal") + had(unlisted)
      /\ g.alloc = Sum(available, "gresUsed") + used(others)
      /\ g.alloc + g.idle = Sum(available, "gresTotal") + had(others)
      /\ DOMAIN parts \subseteq VisibleParts
      /\ \A p \in VisibleParts :
           LET of == {n \in available : p \in ns[n].partitions}
           IN  /\ Share(p).gpuAllocated = Sum(of, "gresUsed")
               /\ Share(p).gpuIdle + Share(p).gpuAllocated = Sum(of, "gresTotal")
=============================================================================
