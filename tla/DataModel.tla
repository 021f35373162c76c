----------------------------- MODULE DataModel -----------------------------
(***************************************************************************)
(* The data-model diagram: how the graph, its cache and the canvas follow  *)
(* each other when scans, edge overrides and reloads overlap               *)
(* (src-tauri/src/mongo/data_model.rs, commands/data_model.rs,             *)
(* src/features/dataModel/DataModelTab.tsx).  What a scan infers from its  *)
(* sample is in Shapes.                                                    *)
(*                                                                         *)
(* Every relationship a scan finds has a fresh id: its scan and its place. *)
(***************************************************************************)
EXTENDS Naturals, Sequences, FiniteSets

CONSTANTS
    Relation,       \* the relationships a scan of the database may find
    MaxScans,       \* bound: scans
    MaxOverrides    \* bound: edge overrides

ASSUME ModelAssumption == MaxOverrides \in Nat

VARIABLES
    cache,      \* the graph in the cache file, or NoGraph: no file, or one that does not parse
    canvas,     \* the graph on the canvas
    scan,       \* the scan under way
    loads,      \* the getDataModel calls under way, by number
    override,   \* the overrides under way, by number
    tally,      \* scans and overrides so far
    touched     \* history: per edge its last acknowledged override, with the edge clicked and the one changed

modelVars == <<cache, canvas, scan, loads, override, tally, touched>>

Graph(n, edges) == [scan |-> n, edges |-> edges, confirmed |-> {}, hidden |-> {}]
NoGraph == Graph(0, <<>>)
NoScan == [phase |-> "idle", graph |-> NoGraph]
Click == 1 .. MaxOverrides
NoOverride == [phase |-> "idle", id |-> <<0, 0>>, seen |-> "", flag |-> "", to |-> FALSE, graph |-> NoGraph]

Orders == UNION {{s \in [1 .. n -> Relation] : \A i, j \in 1 .. n : s[i] = s[j] => i = j} : n \in 1 .. Cardinality(Relation)}

\* The tab is opened and asks for the cached graph.
ModelInit ==
    /\ cache \in {NoGraph} \cup {Graph(1, o) : o \in Orders}
    /\ canvas = NoGraph /\ scan = NoScan
    /\ override = [k \in Click |-> NoOverride]
    /\ loads = [l \in {1} |-> [read |-> FALSE, graph |-> NoGraph]]
    /\ tally = [scans |-> 1, overrides |-> 0]
    /\ touched = {}

\* emit_data_model_updated(): the tab asks for the cached graph.
NextLoad == CHOOSE n \in 1 .. Cardinality(DOMAIN loads) + 1 : n \notin DOMAIN loads
Announced ==
    [l \in DOMAIN loads \cup {NextLoad} |-> IF l \in DOMAIN loads THEN loads[l] ELSE [read |-> FALSE, graph |-> NoGraph]]

\* runScan(): the canvas is cleared.
RunScan ==
    /\ scan.phase = "idle" /\ tally.scans <= MaxScans
    /\ scan' = [phase |-> "sampling", graph |-> NoGraph]
    /\ canvas' = NoGraph
    /\ tally' = [tally EXCEPT !.scans = @ + 1]
    /\ UNCHANGED <<cache, loads, override, touched>>

ScanFails ==
    /\ scan.phase = "sampling"
    /\ scan' = NoScan
    /\ UNCHANGED <<cache, canvas, loads, override, tally, touched>>

\* scan_database_model(): the update is announced, the cache is not yet written.
ScanDone ==
    /\ scan.phase = "sampling"
    /\ \E o \in Orders : scan' = [phase |-> "announced", graph |-> Graph(tally.scans, o)]
    /\ loads' = Announced
    /\ UNCHANGED <<cache, canvas, override, tally, touched>>

\* scan_data_model(): a cache that cannot be written is only a warning.
SaveScan ==
    /\ scan.phase = "announced"
    /\ scan' = [scan EXCEPT !.phase = "saved"]
    /\ cache' \in {cache, NoGraph, scan.graph}
    /\ UNCHANGED <<canvas, loads, override, tally, touched>>

ScanAnswer ==
    /\ scan.phase = "saved"
    /\ canvas' = scan.graph
    /\ scan' = NoScan
    /\ UNCHANGED <<cache, loads, override, tally, touched>>

LoadRead ==
    \E l \in DOMAIN loads :
       /\ ~loads[l].read
       /\ loads' = [loads EXCEPT ![l] = [read |-> TRUE, graph |-> cache]]
       /\ UNCHANGED <<cache, canvas, scan, override, tally, touched>>

\* The answers come in any order; an empty one changes nothing.
LoadAnswer ==
    \E l \in DOMAIN loads :
       /\ loads[l].read
       /\ canvas' = IF loads[l].graph = NoGraph THEN canvas ELSE loads[l].graph
       /\ loads' = [m \in DOMAIN loads \ {l} |-> loads[m]]
       /\ UNCHANGED <<cache, scan, override, tally, touched>>

\* An error is shown, and the canvas stays.
LoadFails ==
    \E l \in DOMAIN loads :
       /\ ~loads[l].read
       /\ loads' = [m \in DOMAIN loads \ {l} |-> loads[m]]
       /\ UNCHANGED <<cache, canvas, scan, override, tally, touched>>

\* handleOverrideEdge(): the user turns a flag of an edge of the canvas; nothing
\* waits for the answer to an earlier click.
ClickOverride ==
    \E i \in DOMAIN canvas.edges : \E which \in {"confirmed", "hidden"} :
       /\ tally.overrides < MaxOverrides
       /\ override' = [override EXCEPT ![tally.overrides + 1] =
                         [phase |-> "sent", id |-> <<canvas.scan, i>>, seen |-> canvas.edges[i], flag |-> which,
                          to |-> canvas.edges[i] \notin canvas[which], graph |-> NoGraph]]
       /\ tally' = [tally EXCEPT !.overrides = @ + 1]
       /\ UNCHANGED <<cache, canvas, scan, loads, touched>>

\* Mutant: edges are told apart by their place alone.
HasEdge_ByPlace(graph, id) == id[2] \in DOMAIN graph.edges

\* override_edge(): the edge with this id.
HasEdge(graph, id) == graph.scan = id[1] /\ id[2] \in DOMAIN graph.edges

\* A confirmed edge is shown.
OverrideEdge(graph, id, which, to) ==
    LET edge == {graph.edges[id[2]]}
        turned == [graph EXCEPT ![which] = IF to THEN @ \cup edge ELSE @ \ edge]
    IN  IF which = "confirmed" /\ to THEN [turned EXCEPT !.hidden = @ \ edge] ELSE turned

\* apply_edge_override(): no cached graph or no such edge is an error.
OverrideRead(k) ==
    LET o == override[k]
    IN  /\ o.phase = "sent"
        /\ override' = [override EXCEPT ![k] =
                          IF HasEdge(cache, o.id) THEN [o EXCEPT !.phase = "read", !.graph = OverrideEdge(cache, o.id, o.flag, o.to)]
                          ELSE NoOverride]
        /\ UNCHANGED <<cache, canvas, scan, loads, tally, touched>>

Touch(o) == [id |-> o.id, seen |-> o.seen, edge |-> o.graph.edges[o.id[2]], flag |-> o.flag, to |-> o.to]

OverrideWrite(k) ==
    LET o == override[k]
    IN  /\ o.phase = "read"
        /\ cache' = o.graph
        /\ override' = [override EXCEPT ![k].phase = "written"]
        /\ loads' = Announced
        /\ touched' = {t \in touched : t.id # o.id} \cup {Touch(o)}
        /\ UNCHANGED <<canvas, scan, tally>>

\* save_graph_cache() fails: the file is as it was, or cut off.
OverrideFails(k) ==
    /\ override[k].phase = "read"
    /\ cache' \in {cache, NoGraph}
    /\ override' = [override EXCEPT ![k] = NoOverride]
    /\ UNCHANGED <<canvas, scan, loads, tally, touched>>

OverrideAnswer(k) ==
    /\ override[k].phase = "written"
    /\ canvas' = override[k].graph
    /\ override' = [override EXCEPT ![k] = NoOverride]
    /\ UNCHANGED <<cache, scan, loads, tally, touched>>

ModelNext ==
    \/ RunScan \/ ScanFails \/ ScanDone \/ SaveScan \/ ScanAnswer
    \/ LoadRead \/ LoadAnswer \/ LoadFails
    \/ ClickOverride
    \/ \E k \in Click : OverrideRead(k) \/ OverrideWrite(k) \/ OverrideFails(k) \/ OverrideAnswer(k)

ModelSpec == ModelInit /\ [][ModelNext]_modelVars

\* An override that is acknowledged changed the relationship the user clicked, and
\* none that a scan in between put in its place.
OverrideHitsSeenEdge == \A t \in touched : t.seen = t.edge

\* An acknowledged override stays in the cached graph of its scan until the same
\* relationship is overridden again ("Persists the override and returns the updated
\* graph", commands/data_model.rs).  Two overrides that overlap write the graph each
\* of them read: the second takes the first one back.
OverridesPersist ==
    \A t \in touched : HasEdge(cache, t.id) => (t.edge \in cache[t.flag]) = t.to

\* At rest the canvas shows the graph of the latest scan that was cached ("This keeps
\* the canvas in sync", DataModelTab.tsx).  The update is announced before the cache
\* is written: a reload answered late puts the graph before on the canvas.
CanvasInSync ==
    scan = NoScan /\ (\A k \in Click : override[k] = NoOverride) /\ DOMAIN loads = {} /\ canvas # NoGraph => canvas.scan >= cache.scan
=============================================================================
