---------------------------- MODULE PanelRouting ----------------------------
(***************************************************************************)
(* Where one push of a traffic snapshot goes.                               *)
(*                                                                         *)
(* configurePanel stacks the panel out of four kinds: a Client for a node,  *)
(* a MultiPanel for a VLESS and a Hysteria 2 node, a SourceMappedPanel that *)
(* sends the traffic of a source label to a node of its own, and a          *)
(* SourceFilteredPanel that drops source labels.  Connections put their     *)
(* bytes under a tag made of the inbound and the label of their source;     *)
(* each layer looks at the tags on the way down.  The bytes of all users    *)
(* under a tag are one number: no layer treats two users differently.       *)
(***************************************************************************)
EXTENDS Integers, FiniteSets, Totals

CONSTANTS
    Labels,   \* labels of -source-buckets
    NoLabel,  \* no bucket matches the source, or labels are not in use
    Configs,  \* the flag combinations considered
    MaxBytes  \* bound: bytes under one tag

\* The node modes of install.sh: what runs, and so which clients there are.
Modes == {"vless", "hy2", "ss", "both"}

ASSUME RoutingAssumption ==
    /\ Configs \subseteq [mode : Modes, mapped : SUBSET Labels, dropped : SUBSET Labels]
    /\ IsFiniteSet(Labels) /\ NoLabel \notin Labels
    /\ {"primary", "hy2", "default"} \cap Labels = {}  \* names of nodes and panels here
    /\ MaxBytes \in Nat

Bases == {"vless-in", "hy2-in", "ss-in"}
Tags  == [base : Bases, label : Labels \cup {NoLabel}]

\* Clients: the primary node, the Hysteria 2 node of mode "both", and the node
\* of each mapped label.
Nodes == {"primary", "hy2"} \cup Labels

VARIABLES
    cfg,     \* the flags
    bytes,   \* bytes[t]: what the snapshot has under tag t
    rest,    \* the snapshot below SourceFilteredPanel
    due,     \* tags routeTraffic has not ranged over yet
    routed,  \* routed[p]: what routeTraffic collected for panel p
    todo,    \* clients still to be asked
    sent,    \* sent[n]: bytes the client of node n has pushed
    pc

vars == <<cfg, bytes, rest, due, routed, todo, sent, pc>>

NoBytes == [t \in Tags |-> 0]

\* Inbounds the node mode configures.
Served(mode) == CASE mode = "both" -> {"vless-in", "hy2-in"}
                  [] mode = "vless" -> {"vless-in"}
                  [] mode = "hy2" -> {"hy2-in"}
                  [] mode = "ss" -> {"ss-in"}

\* matchesInbound: the whole tag is compared.  A mapped node is a client of the
\* primary's type.
BaseOf(n) == IF n = "hy2" THEN "hy2-in"
             ELSE IF cfg.mode = "both" THEN "vless-in"
             ELSE CHOOSE b \in Served(cfg.mode) : TRUE

MatchesInbound(n, t) == t.label = NoLabel /\ t.base = BaseOf(n)

\* The panel under the source layers: a Client, or a MultiPanel of two.
DefaultNodes == IF cfg.mode = "both" THEN {"primary", "hy2"} ELSE {"primary"}

Init ==
    /\ cfg \in Configs
    /\ bytes = NoBytes /\ rest = NoBytes
    /\ due = {} /\ todo = {}
    /\ routed = [p \in {"default"} \cup Labels |-> NoBytes]
    /\ sent = [n \in Nodes |-> 0]
    /\ pc = "open"

-----------------------------------------------------------------------------
\* sourceInboundTag: labels are part of the tag when a source flag is set.
SourceInboundTag(base, label) ==
    [base |-> base,
     label |-> IF cfg.mapped \cup cfg.dropped = {} THEN NoLabel ELSE label]

\* A connection on an inbound from a source counts bytes.
Count(base, label) ==
    LET t == SourceInboundTag(base, label)
    IN  /\ pc = "open"
        /\ base \in Served(cfg.mode)
        /\ bytes[t] < MaxBytes
        /\ bytes' = [bytes EXCEPT ![t] = @ + 1]
        /\ UNCHANGED <<cfg, rest, due, routed, todo, sent, pc>>

\* Mutant of ShouldDrop: the labels without a node are taken for the dropped ones.
ShouldDropUnmapped(t) == t.label # NoLabel /\ t.label \notin cfg.mapped

\* SourceFilteredPanel.shouldDrop.
ShouldDrop(t) == t.label \in cfg.dropped

Tagged(m) == {t \in Tags : m[t] > 0}

\* SourceFilteredPanel.PushTraffic: what it keeps goes to the inner panel.
Filter ==
    LET kept == [t \in Tags |-> IF ShouldDrop(t) THEN 0 ELSE bytes[t]]
    IN  /\ pc = "open" /\ Tagged(bytes) # {}
        /\ rest' = kept
        /\ \/ /\ Tagged(kept) = {}
              /\ pc' = "committed"
              /\ UNCHANGED <<due, todo>>
           \/ /\ Tagged(kept) # {} /\ cfg.mapped = {}
              /\ pc' = "push"
              /\ todo' = DefaultNodes
              /\ UNCHANGED due
           \/ /\ Tagged(kept) # {} /\ cfg.mapped # {}
              /\ pc' = "route"
              /\ due' = Tagged(kept)
              /\ UNCHANGED todo
        /\ UNCHANGED <<cfg, bytes, routed, sent>>

\* routeForInbound: the node of a mapped label, else the default panel.
RouteOf(t) == IF t.label \in cfg.mapped THEN t.label ELSE "default"

BaseTag(t) == [t EXCEPT !.label = NoLabel]

\* The map of routeTraffic is keyed by the panel.  A MultiPanel holds a slice:
\* using one as a key panics.
Hashable(p) == p = "default" => cfg.mode # "both"

\* Mutant of RouteTag: the entry of the base inbound is overwritten, as in
\* routeAlive.
RouteTagOverwrites(t) ==
    /\ pc = "route" /\ t \in due
    /\ due' = due \ {t}
    /\ \/ /\ Hashable(RouteOf(t))
          /\ routed' = [routed EXCEPT ![RouteOf(t)][BaseTag(t)] = rest[t]]
          /\ UNCHANGED pc
       \/ ~Hashable(RouteOf(t)) /\ pc' = "panicked" /\ UNCHANGED routed
    /\ UNCHANGED <<cfg, bytes, rest, todo, sent>>

\* routeTraffic, one tag: its bytes are added under the base inbound.
RouteTag(t) ==
    /\ pc = "route" /\ t \in due
    /\ due' = due \ {t}
    /\ \/ /\ Hashable(RouteOf(t))
          /\ routed' = [routed EXCEPT ![RouteOf(t)][BaseTag(t)] = @ + rest[t]]
          /\ UNCHANGED pc
       \/ ~Hashable(RouteOf(t)) /\ pc' = "panicked" /\ UNCHANGED routed
    /\ UNCHANGED <<cfg, bytes, rest, todo, sent>>

\* Mutant of RoutedDone: the default panel is not opened into its clients.
RoutedDonePanels ==
    /\ pc = "route" /\ due = {}
    /\ pc' = "push"
    /\ todo' = {p \in DOMAIN routed : Tagged(routed[p]) # {}}
    /\ UNCHANGED <<cfg, bytes, rest, due, routed, sent>>

\* The clients of the panels that were routed something.
RoutedDone ==
    /\ pc = "route" /\ due = {}
    /\ pc' = "push"
    /\ todo' = {p \in Labels : Tagged(routed[p]) # {}}
               \cup (IF Tagged(routed["default"]) # {} THEN DefaultNodes ELSE {})
    /\ UNCHANGED <<cfg, bytes, rest, due, routed, sent>>

\* The snapshot a client is given.
PartOf(n) ==
    IF cfg.mapped = {} THEN rest
    ELSE IF n \in Labels THEN routed[n] ELSE routed["default"]

\* Client.PushTraffic: the tags the client matches, added up.
PushClient(n) ==
    /\ pc = "push" /\ n \in todo
    /\ todo' = todo \ {n}
    /\ sent' = [sent EXCEPT ![n] = Total(PartOf(n), {t \in Tags : MatchesInbound(n, t)})]
    /\ UNCHANGED <<cfg, bytes, rest, due, routed, pc>>

\* A client with something to push fails: the layers above return its error.
PushFails(n) ==
    /\ pc = "push" /\ n \in todo
    /\ Total(PartOf(n), {t \in Tags : MatchesInbound(n, t)}) > 0
    /\ pc' = "failed"
    /\ UNCHANGED <<cfg, bytes, rest, due, routed, todo, sent>>

\* PushTraffic returned nil: the syncer commits the whole snapshot.
Commit ==
    /\ pc = "push" /\ todo = {}
    /\ pc' = "committed"
    /\ UNCHANGED <<cfg, bytes, rest, due, routed, todo, sent>>

Ended == pc \in {"committed", "failed", "panicked"} /\ UNCHANGED vars

Next ==
    \/ \E base \in Bases, label \in Labels \cup {NoLabel} : Count(base, label)
    \/ Filter
    \/ \E t \in Tags : RouteTag(t)
    \/ RoutedDone
    \/ \E n \in Nodes : PushClient(n) \/ PushFails(n)
    \/ Commit
    \/ Ended

Spec == Init /\ [][Next]_vars

-----------------------------------------------------------------------------
(* Properties *)

\* The part of the type invariant that is about PushTraffic; PanelStack has the
\* rest.
RoutingTypeOK ==
    /\ cfg \in Configs
    /\ bytes \in [Tags -> Nat] /\ rest \in [Tags -> Nat]
    /\ due \subseteq Tags
    /\ routed \in [{"default"} \cup Labels -> [Tags -> Nat]]
    /\ todo \subseteq Nodes
    /\ sent \in [Nodes -> Nat]

\* The node that should bill a tag: its label's, else the one of its inbound.
NodeFor(t) ==
    IF t.label \in cfg.mapped THEN t.label
    ELSE IF cfg.mode = "both" /\ t.base = "hy2-in" THEN "hy2" ELSE "primary"

Reported == {t \in Tags : t.label \notin cfg.dropped}

Expected(n) == Total(bytes, {t \in Reported : NodeFor(t) = n})

\* Flags under which a client takes every tag that is not dropped.  Without a map
\* nothing takes a label off its tag, so no label may be left by the filter; and
\* the nodes of a map take one inbound, so only one may be served.
ClientForEveryTag ==
    /\ cfg.mapped = {} => cfg.dropped \in {{}, Labels}
    /\ cfg.mapped # {} => cfg.mode # "both"

\* Under such flags, what is committed without an error has been pushed in full,
\* each byte to the node of its label or else of its inbound, through whichever
\* layers are there.
CommittedIsRouted ==
    ClientForEveryTag /\ pc = "committed" => \A n \in Nodes : sent[n] = Expected(n)

\* At no point, errors included, has a node been sent bytes of a dropped source
\* or of another node.
NothingMisrouted == \A n \in Nodes : sent[n] <= Expected(n)

\* Only the reports of dropped sources are suppressed.
OnlyDroppedAreSuppressed ==
    pc = "committed" => Total(sent, Nodes) = Total(bytes, Reported)

\* The flags for two nodes and for mapped sources work together.
PushReturns == pc # "panicked"

=============================================================================
