-------------------------- MODULE PanelStackProofs --------------------------
(***************************************************************************)
(* Proofs about PanelStack, for any labels, flags, users, addresses and      *)
(* bytes: its types, that each node is sent what is its own, that all of it  *)
(* is sent where the flags leave a client for it, and that a list of users   *)
(* that is returned is complete.                                            *)
(***************************************************************************)
EXTENDS PanelStack, TotalsProofs, TLAPS

USE RoutingAssumption, StackAssumption

-----------------------------------------------------------------------------
(* Partial functions *)

Partial(D, R) == UNION {[S -> R] : S \in SUBSET D}

LEMMA PartialFunctions ==
    ASSUME NEW D, NEW R
    PROVE  /\ Nothing \in Partial(D, R)
           /\ \A f \in Partial(D, R) : DOMAIN f \subseteq D /\ \A x \in DOMAIN f : f[x] \in R
           /\ \A S \in SUBSET D : \A f \in [S -> R] : f \in Partial(D, R)
<1>1. \A S \in SUBSET D : \A f \in [S -> R] : f \in Partial(D, R)
  BY DEF Partial
<1>2. Nothing \in [{} -> R] /\ {} \in SUBSET D
  BY DEF Nothing
<1>3. Nothing \in Partial(D, R)
  BY <1>1, <1>2
<1>4. ASSUME NEW f \in Partial(D, R)
      PROVE  DOMAIN f \subseteq D /\ \A x \in DOMAIN f : f[x] \in R
  <2>1. PICK S \in SUBSET D : f \in [S -> R]
    BY DEF Partial
  <2> QED
    BY <2>1
<1> QED
  BY <1>1, <1>3, <1>4

LEMMA NothingIsEmpty ==
    ASSUME NEW D, NEW R, NEW f \in Partial(D, R)
    PROVE  f = Nothing <=> DOMAIN f = {}
<1>1. PICK S \in SUBSET D : f \in [S -> R]
  BY DEF Partial
<1>2. DOMAIN f = S /\ f = [x \in S |-> f[x]]
  BY <1>1
<1>3. S = {} => f = [x \in {} |-> f[x]]
  BY <1>2
<1>4. [x \in {} |-> f[x]] = [x \in {} |-> {}]
  OBVIOUS
<1> QED
  BY <1>2, <1>3, <1>4 DEF Nothing

LEMMA OverEntries ==
    ASSUME NEW f, NEW g
    PROVE  /\ DOMAIN Over(f, g) = DOMAIN f \cup DOMAIN g
           /\ \A x \in DOMAIN f : Over(f, g)[x] = f[x]
           /\ \A x \in DOMAIN g \ DOMAIN f : Over(f, g)[x] = g[x]
BY DEF Over

LEMMA OverIsPartial ==
    ASSUME NEW D, NEW R, NEW f \in Partial(D, R), NEW g \in Partial(D, R)
    PROVE  Over(f, g) \in Partial(D, R)
<1>1. /\ DOMAIN f \subseteq D /\ \A x \in DOMAIN f : f[x] \in R
      /\ DOMAIN g \subseteq D /\ \A x \in DOMAIN g : g[x] \in R
  BY PartialFunctions
<1>2. Over(f, g) \in [DOMAIN f \cup DOMAIN g -> R]
  BY <1>1 DEF Over
<1> QED
  BY <1>1, <1>2, PartialFunctions

LEMMA StoredEntries ==
    ASSUME NEW m, NEW x, NEW y
    PROVE  /\ DOMAIN Stored(m, x, y) = DOMAIN m \cup {x}
           /\ Stored(m, x, y)[x] = y
           /\ \A z \in DOMAIN m \ {x} : Stored(m, x, y)[z] = m[z]
BY DEF Stored, Over

LEMMA StoredIsPartial ==
    ASSUME NEW D, NEW R, NEW m \in Partial(D, R), NEW x \in D, NEW y \in R
    PROVE  Stored(m, x, y) \in Partial(D, R)
<1>1. [z \in {x} |-> y] \in [{x} -> R] /\ {x} \in SUBSET D
  OBVIOUS
<1>2. [z \in {x} |-> y] \in Partial(D, R)
  BY <1>1, PartialFunctions
<1> QED
  BY <1>2, OverIsPartial DEF Stored

-----------------------------------------------------------------------------
(* Tags and panels *)

Panels == {"default"} \cup Labels

\* The panel through which a map reaches the client of node n.
PanelOf(n) == IF n \in Labels THEN n ELSE "default"

\* The one tag that client n matches.
Entry(n) == [base |-> BaseOf(n), label |-> NoLabel]

\* The tags whose entries come to client n under that one.
Source(n) ==
    IF cfg.mapped = {} THEN {Entry(n)}
    ELSE {t \in Tags : RouteOf(t) = PanelOf(n) /\ BaseTag(t) = Entry(n)}

LEMMA TagsAreFinite == IsFiniteSet(Tags)
<1> DEFINE pairs == Bases \X (Labels \cup {NoLabel})
           tag == [p \in pairs |-> [base |-> p[1], label |-> p[2]]]
<1>1. IsFiniteSet(Bases)
  <2>1. IsFiniteSet({}) /\ Bases = (({} \cup {"vless-in"}) \cup {"hy2-in"}) \cup {"ss-in"}
    BY FS_EmptySet DEF Bases
  <2> QED
    BY <2>1, FS_AddElement
<1>2. IsFiniteSet(Labels \cup {NoLabel})
  BY FS_AddElement
<1>3. IsFiniteSet(pairs)
  BY <1>1, <1>2, FS_Product
<1>4. tag \in Surjection(pairs, Tags)
  <2>1. tag \in [pairs -> Tags]
    BY DEF Tags
  <2>2. ASSUME NEW t \in Tags PROVE \E p \in pairs : tag[p] = t
    <3>1. <<t.base, t.label>> \in pairs
      BY DEF Tags
    <3>2. tag[<<t.base, t.label>>] = t
      BY <3>1 DEF Tags
    <3> QED
      BY <3>1, <3>2
  <2> QED
    BY <2>1, <2>2 DEF Surjection
<1> QED
  BY <1>3, <1>4, FS_Surjection

LEMMA PartsOfTags ==
    ASSUME NEW S \in SUBSET Tags, NEW m \in [Tags -> Nat]
    PROVE  IsFiniteSet(S) /\ (\A t \in S : m[t] \in Nat) /\ Total(m, S) \in Nat
<1>1. IsFiniteSet(S) /\ \A t \in S : m[t] \in Nat
  BY TagsAreFinite, FS_Subset
<1> QED
  BY <1>1, TotalIsNatural

\* The flags do not change during a call.
LEMMA FlagsKept ==
    ASSUME cfg' = cfg
    PROVE  /\ Deltas' = Deltas /\ Countable' = Countable /\ Reported' = Reported
           /\ Asked' = Asked /\ DefaultNodes' = DefaultNodes
           /\ ClientForEveryTag' = ClientForEveryTag
           /\ \A t : /\ ShouldDrop(t)' = ShouldDrop(t)
                     /\ RouteOf(t)' = RouteOf(t) /\ NodeFor(t)' = NodeFor(t)
           /\ \A n : /\ BaseOf(n)' = BaseOf(n) /\ Entry(n)' = Entry(n)
                     /\ Source(n)' = Source(n)
<1>1. Served(cfg.mode)' = Served(cfg.mode)
  OBVIOUS
<1>2. Countable' = Countable
  BY DEF Countable, SourceInboundTag
<1>3. Deltas' = Deltas
  BY <1>2 DEF Deltas
<1>4. Reported' = Reported /\ DefaultNodes' = DefaultNodes /\ Asked' = Asked
  BY DEF Reported, DefaultNodes, Asked
<1>5. ClientForEveryTag' = ClientForEveryTag
  BY DEF ClientForEveryTag
<1>6. \A t : /\ ShouldDrop(t)' = ShouldDrop(t)
             /\ RouteOf(t)' = RouteOf(t) /\ NodeFor(t)' = NodeFor(t)
  BY DEF ShouldDrop, RouteOf, NodeFor
<1>7. \A n : BaseOf(n)' = BaseOf(n) /\ Entry(n)' = Entry(n)
  BY DEF BaseOf, Entry
<1>8. \A n : Source(n)' = Source(n)
  BY <1>6, <1>7 DEF Source
<1> QED
  BY <1>2, <1>3, <1>4, <1>5, <1>6, <1>7, <1>8

LEMMA Flags ==
    ASSUME cfg \in Configs
    PROVE  /\ cfg.mode \in Modes /\ cfg.mapped \subseteq Labels /\ cfg.dropped \subseteq Labels
           /\ Served(cfg.mode) \subseteq Bases
           /\ cfg.mode # "both" => Served(cfg.mode) = {BaseOf("primary")}
           /\ cfg.mode = "both" => Served(cfg.mode) = {"vless-in", "hy2-in"}
                                   /\ BaseOf("primary") = "vless-in"
           /\ BaseOf("hy2") = "hy2-in"
           /\ \A n \in Labels : BaseOf(n) = BaseOf("primary")
<1>1. cfg.mode \in Modes /\ cfg.mapped \subseteq Labels /\ cfg.dropped \subseteq Labels
  OBVIOUS
<1>2. /\ Served("both") = {"vless-in", "hy2-in"} /\ Served("vless") = {"vless-in"}
      /\ Served("hy2") = {"hy2-in"} /\ Served("ss") = {"ss-in"}
  BY DEF Served
<1>3. cfg.mode # "both" => \E b \in Bases : Served(cfg.mode) = {b}
  BY <1>1, <1>2 DEF Modes, Bases
<1>4. cfg.mode # "both" => Served(cfg.mode) = {CHOOSE b \in Served(cfg.mode) : TRUE}
  BY <1>3
<1>5. Served(cfg.mode) \subseteq Bases
  BY <1>2, <1>3 DEF Bases
<1>6. cfg.mode # "both" => Served(cfg.mode) = {BaseOf("primary")}
  BY <1>4 DEF BaseOf
<1>7. \A n \in Labels : BaseOf(n) = BaseOf("primary")
  BY DEF BaseOf
<1> QED
  BY <1>1, <1>2, <1>5, <1>6, <1>7 DEF BaseOf

LEMMA TagsHere ==
    ASSUME cfg \in Configs
    PROVE  /\ \A n \in Nodes : Entry(n) \in Tags /\ \A t \in Tags : MatchesInbound(n, t) <=> t = Entry(n)
           /\ \A t \in Tags : BaseTag(t) \in Tags /\ RouteOf(t) \in Panels
           /\ Countable \subseteq Tags
           /\ DefaultNodes \subseteq Nodes /\ cfg.mapped \subseteq Nodes
           /\ \A t \in Tags : t \in Reported <=> ~ShouldDrop(t)
           /\ \A n \in Nodes : PanelOf(n) \in Panels /\ Source(n) \subseteq Tags
<1>1. \A n \in Nodes : BaseOf(n) \in Bases
  BY Flags DEF Nodes, Bases
<1>2. \A n \in Nodes : Entry(n) \in Tags
  BY <1>1 DEF Entry, Tags
<1>3. \A n \in Nodes : \A t \in Tags : MatchesInbound(n, t) <=> t = Entry(n)
  BY DEF MatchesInbound, Entry, Tags
<1>4. \A t \in Tags : BaseTag(t) \in Tags /\ RouteOf(t) \in Panels
  BY Flags DEF BaseTag, RouteOf, Tags, Panels
<1>5. Countable \subseteq Tags
  BY Flags DEF Countable, SourceInboundTag, Tags
<1>6. DefaultNodes \subseteq Nodes /\ cfg.mapped \subseteq Nodes
  BY Flags DEF DefaultNodes, Nodes
<1>7. \A t \in Tags : t \in Reported <=> ~ShouldDrop(t)
  BY DEF Reported, ShouldDrop
<1>8. \A n \in Nodes : PanelOf(n) \in Panels /\ Source(n) \subseteq Tags
  BY <1>2 DEF PanelOf, Panels, Source
<1> QED
  BY <1>2, <1>3, <1>4, <1>5, <1>6, <1>7, <1>8

\* What comes to a client is what its node should bill.
LEMMA SourceIsOwn ==
    ASSUME cfg \in Configs, NEW n \in DefaultNodes \cup Labels, NEW t \in Source(n),
           cfg.mapped = {} => n \in DefaultNodes
    PROVE  NodeFor(t) = n
<1>1. CASE cfg.mapped = {}
  <2>1. t = Entry(n) /\ t.label = NoLabel /\ t.base = BaseOf(n)
    BY <1>1 DEF Source, Entry
  <2> QED
    BY <1>1, <2>1, Flags DEF NodeFor, DefaultNodes
<1>2. CASE cfg.mapped # {}
  <2>1. t \in Tags /\ RouteOf(t) = PanelOf(n) /\ BaseTag(t) = Entry(n)
    BY <1>2 DEF Source
  <2>2. t.base = BaseOf(n)
    BY <2>1 DEF BaseTag, Entry, Tags
  <2>3. CASE n \in Labels
    BY <2>1, <2>3 DEF RouteOf, PanelOf, NodeFor
  <2>4. CASE n \notin Labels
    <3>1. t.label \notin cfg.mapped
      BY <2>1, <2>4, Flags DEF RouteOf, PanelOf
    <3> QED
      BY <2>2, <2>4, <3>1, Flags DEF NodeFor, DefaultNodes
  <2> QED
    BY <2>3, <2>4
<1> QED
  BY <1>1, <1>2

\* Under flags that leave a client for every tag, what a node should bill comes to
\* its client.
LEMMA OwnIsInSource ==
    ASSUME cfg \in Configs, ClientForEveryTag, NEW t \in Countable \cap Reported
    PROVE  /\ t \in Source(NodeFor(t)) /\ NodeFor(t) \in DefaultNodes \cup Labels
           /\ cfg.mapped = {} => NodeFor(t) \in DefaultNodes
<1>1. PICK b \in Served(cfg.mode), l \in Labels \cup {NoLabel} : t = SourceInboundTag(b, l)
  BY DEF Countable
<1>2. /\ t \in Tags /\ t.base = b
      /\ t.label = (IF cfg.mapped \cup cfg.dropped = {} THEN NoLabel ELSE l)
  BY <1>1, TagsHere DEF SourceInboundTag
<1>3. t = [base |-> t.base, label |-> t.label]
  BY <1>2 DEF Tags
<1>4. t.label \notin cfg.dropped
  BY DEF Reported
<1>5. CASE cfg.mapped = {}
  <2>1. t.label = NoLabel
    BY <1>2, <1>4, <1>5 DEF ClientForEveryTag
  <2>2. NodeFor(t) \in DefaultNodes
    BY <1>5 DEF NodeFor, DefaultNodes
  <2>3. t.base = BaseOf(NodeFor(t))
    BY <1>2, <1>5, <2>1, Flags DEF NodeFor
  <2> QED
    BY <1>3, <1>5, <2>1, <2>2, <2>3 DEF Source, Entry
<1>6. CASE cfg.mapped # {}
  <2>1. cfg.mode # "both"
    BY <1>6 DEF ClientForEveryTag
  <2>2. NodeFor(t) = (IF t.label \in cfg.mapped THEN t.label ELSE "primary")
    BY <2>1 DEF NodeFor
  <2>3. NodeFor(t) \in DefaultNodes \cup Labels /\ RouteOf(t) = PanelOf(NodeFor(t))
    BY <2>2, Flags DEF DefaultNodes, RouteOf, PanelOf
  <2>4. t.base = BaseOf(NodeFor(t))
    BY <1>2, <2>1, <2>2, Flags
  <2>5. BaseTag(t) = Entry(NodeFor(t))
    BY <1>3, <2>4 DEF BaseTag, Entry
  <2> QED
    BY <1>2, <1>6, <2>3, <2>5 DEF Source
<1> QED
  BY <1>5, <1>6

-----------------------------------------------------------------------------
(* Types *)

StackTypeOK ==
    /\ RoutingTypeOK
    /\ call \in {"PushTraffic", "PushAlive", "FetchUsers"}
    /\ pc \in {"open", "route", "push", "fetch", "committed", "fetched", "failed", "panicked"}
    /\ alive \in Deltas \cup {Nothing}
    /\ table \in [Panels -> Partial(Tags, SUBSET Ips)]
    /\ shown \in Partial(Nodes, SUBSET Ips)
    /\ lists \in Partial(Nodes, SUBSET Ids)
    /\ short \subseteq Ids
    /\ users \in Partial(Ids, Nodes)
    /\ call = "PushAlive" => due \subseteq Kept
    /\ call = "FetchUsers" => lists \in [Asked -> SUBSET Ids] /\ todo \subseteq Asked

LEMMA TypeFollows == StackTypeOK => TypeOK
<1> SUFFICES ASSUME StackTypeOK PROVE TypeOK
  OBVIOUS
<1>1. ASSUME NEW p \in DOMAIN table, NEW t \in DOMAIN table[p] PROVE table[p][t] \subseteq Ips
  <2>1. table[p] \in Partial(Tags, SUBSET Ips)
    BY DEF StackTypeOK
  <2> QED
    BY <2>1, PartialFunctions
<1>2. DOMAIN shown \subseteq Nodes /\ \A n \in DOMAIN shown : shown[n] \subseteq Ips
  BY PartialFunctions DEF StackTypeOK
<1>3. DOMAIN lists \subseteq Nodes /\ \A n \in DOMAIN lists : lists[n] \subseteq Ids
  BY PartialFunctions DEF StackTypeOK
<1>4. users \in UNION {[D -> Nodes] : D \in SUBSET Ids}
  BY DEF StackTypeOK, Partial
<1> QED
  BY <1>1, <1>2, <1>3, <1>4 DEF StackTypeOK, TypeOK

LEMMA InitType == InitStack => StackTypeOK
<1> SUFFICES ASSUME InitStack PROVE StackTypeOK
  OBVIOUS
<1>1. cfg \in Configs /\ RoutingTypeOK /\ pc = "open"
  BY DEF InitStack, Init, RoutingTypeOK, NoBytes, Nodes
<1>2. /\ Nothing \in Partial(Tags, SUBSET Ips) /\ Nothing \in Partial(Nodes, SUBSET Ips)
      /\ Nothing \in Partial(Nodes, SUBSET Ids) /\ Nothing \in Partial(Ids, Nodes)
  BY PartialFunctions
<1>3. Asked \subseteq Nodes
  BY <1>1, TagsHere DEF Asked
<1>4. lists \in Partial(Nodes, SUBSET Ids)
  BY <1>2, <1>3, PartialFunctions DEF InitStack
<1>5. table \in [Panels -> Partial(Tags, SUBSET Ips)]
  BY <1>2 DEF InitStack, Panels
<1>6. call \in {"PushTraffic", "PushAlive", "FetchUsers"} /\ alive \in Deltas \cup {Nothing}
      /\ short \subseteq Ids
  BY DEF InitStack
<1>7. due = {} /\ todo = {} /\ (call = "FetchUsers" => lists \in [Asked -> SUBSET Ids])
  BY DEF InitStack, Init
<1> QED
  BY <1>1, <1>2, <1>4, <1>5, <1>6, <1>7 DEF StackTypeOK, InitStack

LEMMA StackKept ==
    ASSUME StackTypeOK, UNCHANGED <<stack, cfg>>, RoutingTypeOK',
           call = "PushAlive" => due' \subseteq Kept,
           call = "FetchUsers" => todo' \subseteq Asked,
           pc' \in {"open", "route", "push", "fetch", "committed", "fetched", "failed", "panicked"}
    PROVE  StackTypeOK'
<1>1. Kept' = Kept
  BY FlagsKept DEF Kept, stack
<1> QED
  BY <1>1, FlagsKept DEF StackTypeOK, stack

LEMMA TrafficType ==
    ASSUME StackTypeOK, PushTraffic
    PROVE  StackTypeOK'
<1>1. RoutingTypeOK /\ UNCHANGED stack /\ cfg \in Configs
  BY DEF StackTypeOK, RoutingTypeOK, PushTraffic
<1>2. ASSUME NEW base \in Bases, NEW label \in Labels \cup {NoLabel}, Count(base, label)
      PROVE  RoutingTypeOK' /\ UNCHANGED <<cfg, pc>>
  <2>1. UNCHANGED <<cfg, rest, due, routed, todo, sent, pc>>
    BY <1>2 DEF Count
  <2>2. SourceInboundTag(base, label) \in Tags
    BY DEF SourceInboundTag, Tags
  <2>3. bytes' = [bytes EXCEPT ![SourceInboundTag(base, label)] = @ + 1]
    BY <1>2 DEF Count
  <2>4. bytes' \in [Tags -> Nat]
    BY <1>1, <2>2, <2>3 DEF RoutingTypeOK
  <2> QED
    BY <1>1, <2>1, <2>4 DEF RoutingTypeOK
<1>3. ASSUME Filter PROVE RoutingTypeOK' /\ cfg' = cfg /\ pc' \in {"committed", "push", "route"}
  <2>1. rest' \in [Tags -> Nat]
    BY <1>1, <1>3 DEF RoutingTypeOK, Filter
  <2>2. due' \subseteq Tags /\ todo' \subseteq Nodes
    BY <1>1, <1>3, TagsHere DEF RoutingTypeOK, Filter, Tagged
  <2>3. UNCHANGED <<cfg, bytes, routed, sent>> /\ pc' \in {"committed", "push", "route"}
    BY <1>3 DEF Filter
  <2> QED
    BY <1>1, <2>1, <2>2, <2>3 DEF RoutingTypeOK
<1>4. ASSUME NEW t \in Tags, RouteTag(t)
      PROVE  RoutingTypeOK' /\ cfg' = cfg /\ pc' \in {pc, "panicked"}
  <2>1. BaseTag(t) \in Tags /\ RouteOf(t) \in Panels /\ rest[t] \in Nat
    BY <1>1, TagsHere DEF RoutingTypeOK
  <2>2. UNCHANGED <<cfg, bytes, rest, todo, sent>> /\ due' = due \ {t} /\ pc' \in {pc, "panicked"}
        /\ \/ routed' = [routed EXCEPT ![RouteOf(t)][BaseTag(t)] = @ + rest[t]]
           \/ routed' = routed
    BY <1>4 DEF RouteTag
  <2>3. routed' \in [Panels -> [Tags -> Nat]]
    <3>1. routed \in [Panels -> [Tags -> Nat]]
      BY <1>1 DEF RoutingTypeOK, Panels
    <3>2. routed[RouteOf(t)] \in [Tags -> Nat] /\ routed[RouteOf(t)][BaseTag(t)] + rest[t] \in Nat
      BY <2>1, <3>1
    <3>3. [routed[RouteOf(t)] EXCEPT ![BaseTag(t)] = @ + rest[t]] \in [Tags -> Nat]
      BY <2>1, <3>2
    <3> QED
      BY <2>1, <2>2, <3>1, <3>3
  <2> QED
    BY <1>1, <2>2, <2>3 DEF RoutingTypeOK, Panels
<1>5. ASSUME RoutedDone PROVE RoutingTypeOK' /\ cfg' = cfg /\ pc' = "push"
  <2>1. todo' \subseteq Nodes
    BY <1>1, <1>5, TagsHere DEF RoutedDone, Nodes
  <2> QED
    BY <1>1, <1>5, <2>1 DEF RoutingTypeOK, RoutedDone
<1>6. ASSUME NEW n \in Nodes, PushClient(n) PROVE RoutingTypeOK' /\ UNCHANGED <<cfg, pc>>
  <2>1. UNCHANGED <<cfg, bytes, rest, due, routed, pc>> /\ todo' = todo \ {n}
        /\ sent' = [sent EXCEPT ![n] = Total(PartOf(n), {t \in Tags : MatchesInbound(n, t)})]
    BY <1>6 DEF PushClient
  <2>2. PartOf(n) \in [Tags -> Nat]
    BY <1>1 DEF PartOf, RoutingTypeOK
  <2>3. Total(PartOf(n), {t \in Tags : MatchesInbound(n, t)}) \in Nat
    BY <2>2, PartsOfTags
  <2>4. sent' \in [Nodes -> Nat]
    BY <1>1, <2>1, <2>3 DEF RoutingTypeOK
  <2> QED
    BY <1>1, <2>1, <2>4 DEF RoutingTypeOK
<1>7. ASSUME NEW n \in Nodes, PushFails(n) PROVE RoutingTypeOK' /\ cfg' = cfg /\ pc' = "failed"
  BY <1>1, <1>7 DEF RoutingTypeOK, PushFails
<1>8. ASSUME Commit PROVE RoutingTypeOK' /\ cfg' = cfg /\ pc' = "committed"
  BY <1>1, <1>8 DEF RoutingTypeOK, Commit
<1>9. ASSUME Ended PROVE RoutingTypeOK' /\ UNCHANGED <<cfg, pc>>
  BY <1>1, <1>9 DEF RoutingTypeOK, Ended, vars
<1>10. RoutingTypeOK' /\ cfg' = cfg /\ pc' \in {pc, "committed", "push", "route", "panicked", "failed"}
  BY <1>2, <1>3, <1>4, <1>5, <1>6, <1>7, <1>8, <1>9 DEF PushTraffic, Next
<1>11. pc' \in {"open", "route", "push", "fetch", "committed", "fetched", "failed", "panicked"}
  BY <1>10 DEF StackTypeOK
<1>12. call = "PushTraffic"
  BY DEF PushTraffic
<1> QED
  BY <1>1, <1>10, <1>11, <1>12, StackKept

LEMMA AliveIsPartial ==
    ASSUME StackTypeOK
    PROVE  /\ alive \in Partial(Tags, SUBSET Ips)
           /\ alive \in Deltas => DOMAIN alive \subseteq Countable
           /\ Kept \subseteq Tags /\ Kept = DOMAIN alive \cap Reported
           /\ FilteredAlive \in Partial(Tags, SUBSET Ips) /\ DOMAIN FilteredAlive = Kept
           /\ \A t \in Kept : FilteredAlive[t] = alive[t]
<1>1. cfg \in Configs /\ Countable \subseteq Tags
  BY TagsHere DEF StackTypeOK, RoutingTypeOK
<1>2. alive \in Deltas => DOMAIN alive \subseteq Countable /\ alive \in Partial(Tags, SUBSET Ips)
  <2> SUFFICES ASSUME alive \in Deltas
               PROVE  DOMAIN alive \subseteq Countable /\ alive \in Partial(Tags, SUBSET Ips)
    OBVIOUS
  <2>1. PICK D \in SUBSET Countable : alive \in [D -> SUBSET Ips]
    BY DEF Deltas
  <2> QED
    BY <1>1, <2>1, PartialFunctions
<1>3. alive \in Partial(Tags, SUBSET Ips)
  BY <1>2, PartialFunctions DEF StackTypeOK
<1>4. DOMAIN alive \subseteq Tags /\ \A t \in DOMAIN alive : alive[t] \in SUBSET Ips
  BY <1>3, PartialFunctions
<1>5. Kept \subseteq Tags /\ Kept = DOMAIN alive \cap Reported
  BY <1>1, <1>4, TagsHere DEF Kept
<1>6. FilteredAlive \in [Kept -> SUBSET Ips]
  BY <1>4 DEF FilteredAlive, Kept
<1>7. FilteredAlive \in Partial(Tags, SUBSET Ips)
  BY <1>5, <1>6, PartialFunctions
<1>8. DOMAIN FilteredAlive = Kept /\ \A t \in Kept : FilteredAlive[t] = alive[t]
  BY DEF FilteredAlive
<1> QED
  BY <1>2, <1>3, <1>5, <1>7, <1>8

LEMMA AliveType ==
    ASSUME StackTypeOK, PushAlive
    PROVE  StackTypeOK'
<1>1. /\ cfg \in Configs /\ RoutingTypeOK /\ todo \subseteq Nodes /\ due \subseteq Tags
      /\ call = "PushAlive" /\ due \subseteq Kept
  BY DEF StackTypeOK, RoutingTypeOK, PushAlive, FilterAlive, RouteAliveTag, RoutedAliveDone,
         PushAliveClient, PushAliveFails, PushAliveDone
<1>2. ASSUME FilterAlive PROVE StackTypeOK'
  <2>1. UNCHANGED <<cfg, bytes, rest, routed, sent, stack>> /\ pc' \in {"committed", "push", "route"}
    BY <1>2 DEF FilterAlive
  <2>2. due' \subseteq Tags /\ todo' \subseteq Nodes /\ due' \subseteq Kept
    BY <1>1, <1>2, TagsHere, AliveIsPartial DEF FilterAlive
  <2>3. RoutingTypeOK'
    BY <1>1, <2>1, <2>2 DEF RoutingTypeOK
  <2> QED
    BY <1>1, <2>1, <2>2, <2>3, StackKept
<1>3. ASSUME NEW t \in Tags, RouteAliveTag(t) PROVE StackTypeOK'
  <2>1. UNCHANGED <<cfg, bytes, rest, routed, todo, sent, call, alive, shown, lists, short, users>>
        /\ due' = due \ {t} /\ pc' \in {pc, "panicked"} /\ t \in due
        /\ \/ table' = [table EXCEPT ![RouteOf(t)] = Stored(@, BaseTag(t), FilteredAlive[t])]
           \/ table' = table
    BY <1>3 DEF RouteAliveTag
  <2>2. FilteredAlive[t] \in SUBSET Ips
    BY <1>1, <2>1, AliveIsPartial, PartialFunctions
  <2>3. BaseTag(t) \in Tags /\ RouteOf(t) \in Panels
    BY <1>1, TagsHere
  <2>4. table[RouteOf(t)] \in Partial(Tags, SUBSET Ips)
    BY <2>3 DEF StackTypeOK
  <2>5. Stored(table[RouteOf(t)], BaseTag(t), FilteredAlive[t]) \in Partial(Tags, SUBSET Ips)
    BY <2>2, <2>3, <2>4, StoredIsPartial
  <2>6. table' \in [Panels -> Partial(Tags, SUBSET Ips)]
    BY <2>1, <2>3, <2>5 DEF StackTypeOK
  <2>7. RoutingTypeOK' /\ due' \subseteq Kept' /\ Deltas' = Deltas
    BY <1>1, <2>1, FlagsKept DEF RoutingTypeOK, Kept
  <2> QED
    BY <1>1, <2>1, <2>6, <2>7 DEF StackTypeOK
<1>4. ASSUME RoutedAliveDone PROVE StackTypeOK'
  <2>1. UNCHANGED <<cfg, bytes, rest, due, routed, sent, stack>> /\ pc' = "push"
    BY <1>4 DEF RoutedAliveDone
  <2>2. todo' \subseteq Nodes
    BY <1>1, <1>4, TagsHere DEF RoutedAliveDone, Nodes
  <2>3. RoutingTypeOK'
    BY <1>1, <2>1, <2>2 DEF RoutingTypeOK
  <2> QED
    BY <1>1, <2>1, <2>3, StackKept
<1>5. ASSUME NEW n \in Nodes, PushAliveClient(n) PROVE StackTypeOK'
  <2>1. UNCHANGED <<cfg, bytes, rest, due, routed, sent, pc, call, alive, table, lists, short, users>>
        /\ todo' = todo \ {n}
        /\ \/ shown' = shown
           \/ shown' = Stored(shown, n, UNION {AlivePartOf(n)[t] : t \in Matched(n)})
    BY <1>5 DEF PushAliveClient
  <2>2. AlivePartOf(n) \in Partial(Tags, SUBSET Ips)
    BY AliveIsPartial DEF AlivePartOf, StackTypeOK, Panels
  <2>3. UNION {AlivePartOf(n)[t] : t \in Matched(n)} \in SUBSET Ips
    BY <2>2, PartialFunctions DEF Matched
  <2>4. shown' \in Partial(Nodes, SUBSET Ips)
    BY <2>1, <2>3, StoredIsPartial DEF StackTypeOK
  <2>5. RoutingTypeOK' /\ due' \subseteq Kept' /\ Deltas' = Deltas
    BY <1>1, <2>1, FlagsKept DEF RoutingTypeOK, Kept
  <2> QED
    BY <1>1, <2>1, <2>4, <2>5 DEF StackTypeOK
<1>6. ASSUME (\E n \in Nodes : PushAliveFails(n)) \/ PushAliveDone PROVE StackTypeOK'
  <2>1. UNCHANGED <<cfg, bytes, rest, due, routed, todo, sent, stack>>
        /\ pc' \in {"failed", "committed"}
    BY <1>6 DEF PushAliveFails, PushAliveDone
  <2>2. RoutingTypeOK'
    BY <1>1, <2>1 DEF RoutingTypeOK
  <2> QED
    BY <1>1, <2>1, <2>2, StackKept
<1> QED
  BY <1>2, <1>3, <1>4, <1>5, <1>6 DEF PushAlive

LEMMA FetchType ==
    ASSUME StackTypeOK, FetchUsers
    PROVE  StackTypeOK'
<1>1. /\ cfg \in Configs /\ RoutingTypeOK /\ todo \subseteq Nodes /\ call = "FetchUsers"
      /\ UNCHANGED <<cfg, bytes, rest, due, routed, sent>>
  BY DEF StackTypeOK, RoutingTypeOK, FetchUsers, StartFetch, FetchClient, FetchFails, FetchDone
<1>2. ASSUME StartFetch \/ FetchDone PROVE StackTypeOK'
  <2>1. todo' \subseteq Asked /\ UNCHANGED stack /\ pc' \in {"fetch", "fetched"}
    BY <1>1, <1>2 DEF StartFetch, FetchDone, StackTypeOK
  <2>2. Asked \subseteq Nodes
    BY <1>1, TagsHere DEF Asked
  <2>3. RoutingTypeOK'
    BY <1>1, <2>1, <2>2 DEF RoutingTypeOK
  <2> QED
    BY <1>1, <2>1, <2>3, StackKept
<1>3. ASSUME NEW n \in Nodes, FetchClient(n) \/ FetchFails(n) PROVE StackTypeOK'
  <2>1. /\ UNCHANGED <<call, alive, table, shown, lists, short>>
        /\ n \in todo /\ todo' \subseteq todo /\ pc' \in {pc, "failed"}
        /\ users' = Over(users, [id \in lists[n] |-> n]) \/ users' = Nothing
    BY <1>3 DEF FetchClient, FetchFails, FetchTurn, Turn
  <2>2. RoutingTypeOK'
    BY <1>1, <2>1 DEF RoutingTypeOK
  <2>3. [id \in lists[n] |-> n] \in Partial(Ids, Nodes)
    <3>1. lists[n] \subseteq Ids
      BY <1>1, <2>1 DEF StackTypeOK
    <3>2. [id \in lists[n] |-> n] \in [lists[n] -> Nodes]
      OBVIOUS
    <3> QED
      BY <3>1, <3>2, PartialFunctions
  <2>4. users' \in Partial(Ids, Nodes)
    BY <2>1, <2>3, OverIsPartial, PartialFunctions DEF StackTypeOK
  <2>5. Deltas' = Deltas /\ Asked' = Asked
    BY <1>1, FlagsKept
  <2>6. pc' \in {"open", "route", "push", "fetch", "committed", "fetched", "failed", "panicked"}
    BY <2>1 DEF StackTypeOK
  <2> QED
    BY <1>1, <2>1, <2>2, <2>4, <2>5, <2>6 DEF StackTypeOK
<1> QED
  BY <1>2, <1>3 DEF FetchUsers

LEMMA NextType == StackTypeOK /\ [NextStack]_stackVars => StackTypeOK'
<1> SUFFICES ASSUME StackTypeOK, [NextStack]_stackVars PROVE StackTypeOK'
  OBVIOUS
<1>1. CASE UNCHANGED stackVars
  <2>1. UNCHANGED <<cfg, bytes, rest, due, routed, todo, sent, pc, stack>>
    BY <1>1 DEF stackVars, vars
  <2>2. RoutingTypeOK'
    BY <2>1 DEF RoutingTypeOK, StackTypeOK
  <2> QED
    BY <2>1, <2>2, StackKept DEF StackTypeOK
<1> QED
  BY <1>1, TrafficType, AliveType, FetchType DEF NextStack, Returned

\* A call of the stack is always in a state of the types of TypeOK.
THEOREM TypeCorrect == StackSpec => []TypeOK
<1>1. StackSpec => []StackTypeOK
  BY InitType, NextType, PTL DEF StackSpec
<1> QED
  BY <1>1, TypeFollows, PTL

-----------------------------------------------------------------------------
(* PushTraffic *)

\* The clients a call may reach.
Clients == IF cfg.mapped = {} THEN DefaultNodes ELSE DefaultNodes \cup Labels

\* The tags whose entries a map stores under b for panel p.
Feeding(p, b) == {t \in Tags : RouteOf(t) = p /\ BaseTag(t) = b}

Counted == \A t \in Tags : bytes[t] > 0 => t \in Countable

Untouched ==
    pc = "open" =>
        /\ todo = {} /\ \A n \in Nodes : sent[n] = 0
        /\ \A p \in Panels, b \in Tags : routed[p][b] = 0

RestIsKept == pc # "open" => \A t \in Tags : rest[t] = IF ShouldDrop(t) THEN 0 ELSE bytes[t]

\* While the snapshot is ranged over, a panel has the bytes of the tags that were.
RoutedSoFar ==
    pc = "route" =>
        /\ cfg.mapped # {} /\ \A n \in Nodes : sent[n] = 0
        /\ \A p \in Panels, b \in Tags : routed[p][b] = Total(rest, Feeding(p, b) \ due)

RoutedInFull ==
    pc = "push" =>
        /\ todo \subseteq Clients
        /\ cfg.mapped # {} =>
               \A p \in Panels, b \in Tags : routed[p][b] = Total(rest, Feeding(p, b))

\* The nodes that need not be asked, or no more, have been sent what they should.
BilledSoFar ==
    /\ pc \in {"push", "committed"} /\ ClientForEveryTag =>
           \A n \in Nodes \ todo : sent[n] = Expected(n)
    /\ pc = "committed" => todo = {}

BytesInv ==
    /\ call = "PushTraffic" =>
           /\ Counted /\ Untouched /\ RestIsKept /\ RoutedSoFar /\ RoutedInFull /\ BilledSoFar
           /\ NothingMisrouted
    /\ call # "PushTraffic" =>
           (\A t \in Tags : bytes[t] = 0) /\ (\A n \in Nodes : sent[n] = 0)

LEMMA ExpectedIsNatural ==
    ASSUME StackTypeOK, NEW n
    PROVE  Expected(n) \in Nat
<1>1. {t \in Reported : NodeFor(t) = n} \in SUBSET Tags /\ bytes \in [Tags -> Nat]
  BY DEF Reported, StackTypeOK, RoutingTypeOK
<1> QED
  BY <1>1, PartsOfTags DEF Expected

LEMMA ExpectedKept ==
    ASSUME UNCHANGED <<cfg, bytes>>
    PROVE  \A n : Expected(n)' = Expected(n)
BY DEF Expected, Reported, NodeFor

\* A node none of whose tags has bytes is to be sent none.
LEMMA NothingExpected ==
    ASSUME StackTypeOK, NEW n, \A t \in Reported : NodeFor(t) = n => bytes[t] = 0
    PROVE  Expected(n) = 0
<1>1. IsFiniteSet({t \in Reported : NodeFor(t) = n})
  BY TagsAreFinite, FS_Subset DEF Reported
<1> QED
  BY <1>1, TotalOfZeros DEF Expected

\* What a client pushes is the bytes of the tags whose entries come to it.
LEMMA PushedIsSource ==
    ASSUME StackTypeOK, RoutedInFull, pc = "push", NEW n \in Nodes
    PROVE  Total(PartOf(n), {t \in Tags : MatchesInbound(n, t)}) = Total(rest, Source(n))
<1>1. cfg \in Configs /\ rest \in [Tags -> Nat] /\ routed \in [Panels -> [Tags -> Nat]]
  BY DEF StackTypeOK, RoutingTypeOK, Panels
<1>2. Entry(n) \in Tags /\ PanelOf(n) \in Panels
  BY <1>1, TagsHere
<1>3. {t \in Tags : MatchesInbound(n, t)} = {Entry(n)}
  <2>1. \A t \in Tags : MatchesInbound(n, t) <=> t = Entry(n)
    BY <1>1, TagsHere
  <2> QED
    BY <1>2, <2>1
<1>4. PartOf(n)[Entry(n)] \in Nat
  BY <1>1, <1>2 DEF PartOf, Panels
<1>5. Total(PartOf(n), {Entry(n)}) = PartOf(n)[Entry(n)]
  BY <1>4, TotalOfOne
<1>6. PartOf(n)[Entry(n)] = Total(rest, Source(n))
  <2>1. CASE cfg.mapped = {}
    <3>1. rest[Entry(n)] \in Nat
      BY <1>1, <1>2
    <3> QED
      BY <2>1, <3>1, TotalOfOne DEF PartOf, Source
  <2>2. CASE cfg.mapped # {}
    <3>1. PartOf(n) = routed[PanelOf(n)]
      BY <2>2 DEF PartOf, PanelOf
    <3>2. Source(n) = Feeding(PanelOf(n), Entry(n))
      BY <2>2 DEF Source, Feeding
    <3> QED
      BY <1>2, <2>2, <3>1, <3>2 DEF RoutedInFull
  <2> QED
    BY <2>1, <2>2
<1> QED
  BY <1>3, <1>5, <1>6

\* It is no more than the node should be sent, and all of it under flags that
\* leave a client for every tag.
LEMMA SourceIsExpected ==
    ASSUME StackTypeOK, Counted, RestIsKept, pc = "push", NEW n \in Clients
    PROVE  /\ Total(rest, Source(n)) \in Nat /\ Total(rest, Source(n)) <= Expected(n)
           /\ ClientForEveryTag => Total(rest, Source(n)) = Expected(n)
<1> DEFINE own == {t \in Reported : NodeFor(t) = n}
<1>1. cfg \in Configs /\ bytes \in [Tags -> Nat] /\ rest \in [Tags -> Nat]
  BY DEF StackTypeOK, RoutingTypeOK
<1>2. n \in DefaultNodes \cup Labels /\ n \in Nodes /\ (cfg.mapped = {} => n \in DefaultNodes)
  BY <1>1, TagsHere DEF Clients, Nodes
<1>3. Source(n) \in SUBSET Tags /\ own \in SUBSET Tags
  BY <1>1, <1>2, TagsHere DEF Reported
<1>4. /\ IsFiniteSet(Source(n)) /\ IsFiniteSet(own) /\ Total(rest, Source(n)) \in Nat
      /\ Total(bytes, own) \in Nat
  BY <1>1, <1>3, PartsOfTags
<1>5. \A t \in Tags : t \in Reported <=> ~ShouldDrop(t)
  BY <1>1, TagsHere
<1>6. \A t \in Tags : rest[t] = IF ShouldDrop(t) THEN 0 ELSE bytes[t]
  BY DEF RestIsKept
<1>7. \A t \in Source(n) : rest[t] \in Nat /\ (rest[t] > 0 => t \in own /\ rest[t] <= bytes[t])
  <2> SUFFICES ASSUME NEW t \in Source(n), rest[t] > 0 PROVE t \in own /\ rest[t] <= bytes[t]
    BY <1>1, <1>3
  <2>1. NodeFor(t) = n
    BY <1>1, <1>2, SourceIsOwn
  <2> QED
    BY <1>1, <1>3, <1>5, <1>6, <2>1
<1>8. \A t \in own : bytes[t] \in Nat
  BY <1>1, <1>3
<1>9. Total(rest, Source(n)) <= Total(bytes, own)
  BY <1>4, <1>7, <1>8, TotalWithin
<1>10. ASSUME ClientForEveryTag PROVE Total(bytes, own) <= Total(rest, Source(n))
  <2>1. \A t \in own : bytes[t] \in Nat /\ (bytes[t] > 0 => t \in Source(n) /\ bytes[t] <= rest[t])
    <3> SUFFICES ASSUME NEW t \in own, bytes[t] > 0
                 PROVE  t \in Source(n) /\ bytes[t] <= rest[t]
      BY <1>8
    <3>1. t \in Countable \cap Reported /\ NodeFor(t) = n /\ t \in Tags
      BY <1>3 DEF Counted
    <3>2. t \in Source(n)
      BY <1>1, <1>10, <3>1, OwnIsInSource
    <3>3. rest[t] = bytes[t] /\ bytes[t] \in Nat
      BY <1>1, <1>5, <1>6, <3>1
    <3> QED
      BY <3>2, <3>3
  <2>2. \A t \in Source(n) : rest[t] \in Nat
    BY <1>1, <1>3
  <2> QED
    BY <1>4, <2>1, <2>2, TotalWithin
<1>11. Expected(n) = Total(bytes, own)
  BY DEF Expected
<1> HIDE DEF own
<1> QED
  BY <1>4, <1>9, <1>10, <1>11

LEMMA InitBytes == InitStack => BytesInv
<1> SUFFICES ASSUME InitStack PROVE BytesInv
  OBVIOUS
<1>1. StackTypeOK /\ pc = "open" /\ todo = {} /\ (\A t \in Tags : bytes[t] = 0)
      /\ (\A n \in Nodes : sent[n] = 0) /\ (\A p \in Panels, b \in Tags : routed[p][b] = 0)
  BY InitType DEF InitStack, Init, NoBytes, Panels
<1>2. NothingMisrouted
  BY <1>1, ExpectedIsNatural DEF NothingMisrouted
<1> QED
  BY <1>1, <1>2 DEF BytesInv, Counted, Untouched, RestIsKept, RoutedSoFar, RoutedInFull, BilledSoFar

LEMMA CountBytes ==
    ASSUME StackTypeOK, BytesInv, call = "PushTraffic", UNCHANGED stack,
           NEW base \in Bases, NEW label \in Labels \cup {NoLabel}, Count(base, label),
           StackTypeOK'
    PROVE  BytesInv'
<1> DEFINE tag == SourceInboundTag(base, label)
<1>1. /\ cfg \in Configs /\ bytes \in [Tags -> Nat] /\ pc = "open" /\ call' = "PushTraffic"
      /\ Counted /\ Untouched
  BY DEF StackTypeOK, RoutingTypeOK, BytesInv, Count, stack
<1>2. UNCHANGED <<cfg, rest, due, routed, todo, sent, pc>>
  BY DEF Count
<1>3. tag \in Countable /\ tag \in Tags
  BY <1>1, TagsHere DEF Countable, Count
<1>4. bytes' = [bytes EXCEPT ![tag] = @ + 1]
  BY DEF Count
<1>5. Counted'
  <2> SUFFICES ASSUME NEW t \in Tags, bytes'[t] > 0 PROVE t \in Countable
    BY <1>2, FlagsKept DEF Counted
  <2>1. t = tag \/ bytes'[t] = bytes[t]
    BY <1>1, <1>3, <1>4
  <2> QED
    BY <1>1, <1>3, <2>1 DEF Counted
<1>6. Untouched'
  BY <1>1, <1>2 DEF Untouched
<1>7. NothingMisrouted'
  <2> SUFFICES ASSUME NEW n \in Nodes PROVE sent'[n] <= Expected(n)'
    BY DEF NothingMisrouted
  <2>1. sent'[n] = 0
    BY <1>1, <1>2 DEF Untouched
  <2>2. Expected(n)' \in Nat
    <3>1. bytes' \in [Tags -> Nat] /\ {t \in Reported' : NodeFor(t)' = n} \in SUBSET Tags
      BY DEF StackTypeOK, RoutingTypeOK, Reported
    <3> QED
      BY <3>1, PartsOfTags DEF Expected
  <2> QED
    BY <2>1, <2>2
<1> QED
  BY <1>1, <1>2, <1>5, <1>6, <1>7
  DEF BytesInv, RestIsKept, RoutedSoFar, RoutedInFull, BilledSoFar

LEMMA FilterBytes ==
    ASSUME StackTypeOK, BytesInv, call = "PushTraffic", UNCHANGED stack, Filter
    PROVE  BytesInv'
<1>1. /\ cfg \in Configs /\ bytes \in [Tags -> Nat] /\ pc = "open" /\ call' = "PushTraffic"
      /\ Counted /\ Untouched /\ NothingMisrouted
  BY DEF StackTypeOK, RoutingTypeOK, BytesInv, Filter, stack
<1>2. UNCHANGED <<cfg, bytes, routed, sent>>
  BY DEF Filter
<1>3. rest' = [t \in Tags |-> IF ShouldDrop(t) THEN 0 ELSE bytes[t]]
  BY DEF Filter
<1>4. \/ Tagged(rest') = {} /\ pc' = "committed" /\ todo' = todo
      \/ cfg.mapped = {} /\ pc' = "push" /\ todo' = DefaultNodes
      \/ cfg.mapped # {} /\ pc' = "route" /\ due' = Tagged(rest') /\ todo' = todo
  BY <1>3 DEF Filter
<1>5. Counted' /\ Untouched' /\ RestIsKept'
  <2>1. Counted'
    BY <1>1, <1>2, FlagsKept DEF Counted
  <2>2. Untouched'
    BY <1>4 DEF Untouched
  <2>3. \A t \in Tags : rest'[t] = IF ShouldDrop(t) THEN 0 ELSE bytes[t]
    BY <1>3
  <2>4. \A t \in Tags : ShouldDrop(t)' = ShouldDrop(t)
    BY <1>2, FlagsKept
  <2> QED
    BY <1>2, <2>1, <2>2, <2>3, <2>4 DEF RestIsKept
<1>6. RoutedSoFar'
  <2> SUFFICES ASSUME pc' = "route" PROVE RoutedSoFar'
    BY DEF RoutedSoFar
  <2>1. cfg.mapped # {} /\ due' = Tagged(rest')
    BY <1>4
  <2>2. ASSUME NEW p \in Panels, NEW b \in Tags PROVE routed[p][b] = Total(rest', Feeding(p, b)' \ due')
    <3>1. Feeding(p, b)' \ due' \in SUBSET Tags
      BY DEF Feeding
    <3>2. IsFiniteSet(Feeding(p, b)' \ due')
      BY <3>1, TagsAreFinite, FS_Subset
    <3>3. \A t \in Feeding(p, b)' \ due' : rest'[t] = 0
      <4>1. \A t \in Tags : rest'[t] \in Nat
        BY <1>1, <1>3
      <4> QED
        BY <2>1, <3>1, <4>1 DEF Tagged
    <3>4. Total(rest', Feeding(p, b)' \ due') = 0
      BY <3>2, <3>3, TotalOfZeros
    <3> QED
      BY <1>1, <3>4 DEF Untouched
  <2> QED
    BY <1>1, <1>2, <2>1, <2>2 DEF RoutedSoFar, Untouched
<1>7. RoutedInFull'
  <2> SUFFICES ASSUME pc' = "push" PROVE RoutedInFull'
    BY DEF RoutedInFull
  <2>1. cfg.mapped = {} /\ todo' = DefaultNodes /\ DefaultNodes' = DefaultNodes
    BY <1>2, <1>4, FlagsKept
  <2> QED
    BY <1>2, <2>1 DEF RoutedInFull, Clients
<1>8. BilledSoFar'
  <2>1. pc' = "committed" => todo' = {}
    BY <1>1, <1>4 DEF Untouched
  <2>2. ASSUME pc' \in {"push", "committed"}, ClientForEveryTag, NEW n \in Nodes \ todo'
        PROVE  Expected(n) = 0
    <3>1. ASSUME NEW t \in Reported, NodeFor(t) = n, bytes[t] # 0 PROVE FALSE
      <4>1. t \in Tags /\ bytes[t] > 0 /\ t \in Countable \cap Reported /\ ~ShouldDrop(t)
        BY <1>1, <3>1, TagsHere DEF Counted, Reported
      <4>2. rest'[t] > 0
        BY <1>3, <4>1
      <4>3. cfg.mapped = {} /\ todo' = DefaultNodes
        BY <1>4, <2>2, <4>1, <4>2 DEF Tagged
      <4>4. NodeFor(t) \in DefaultNodes
        BY <1>1, <2>2, <4>1, <4>3, OwnIsInSource
      <4> QED
        BY <2>2, <3>1, <4>3, <4>4
    <3> QED
      BY <3>1, NothingExpected
  <2>3. \A n \in Nodes : sent'[n] = 0 /\ Expected(n)' = Expected(n)
    BY <1>1, <1>2, ExpectedKept DEF Untouched
  <2>4. ClientForEveryTag' = ClientForEveryTag
    BY <1>2, FlagsKept
  <2> QED
    BY <2>1, <2>2, <2>3, <2>4 DEF BilledSoFar
<1>9. NothingMisrouted'
  BY <1>1, <1>2, ExpectedKept DEF NothingMisrouted
<1> QED
  BY <1>1, <1>5, <1>6, <1>7, <1>8, <1>9 DEF BytesInv

LEMMA RouteBytes ==
    ASSUME StackTypeOK, BytesInv, call = "PushTraffic", UNCHANGED stack, NEW t \in Tags, RouteTag(t)
    PROVE  BytesInv'
<1>1. /\ cfg \in Configs /\ rest \in [Tags -> Nat] /\ routed \in [Panels -> [Tags -> Nat]]
      /\ pc = "route" /\ call' = "PushTraffic" /\ t \in due
      /\ Counted /\ RestIsKept /\ RoutedSoFar /\ NothingMisrouted
  BY DEF StackTypeOK, RoutingTypeOK, BytesInv, RouteTag, stack, Panels
<1>2. UNCHANGED <<cfg, bytes, rest, todo, sent>> /\ due' = due \ {t}
  BY DEF RouteTag
<1>3. \/ pc' = "panicked"
      \/ pc' = "route" /\ routed' = [routed EXCEPT ![RouteOf(t)][BaseTag(t)] = @ + rest[t]]
  BY <1>1 DEF RouteTag
<1>4. Counted' /\ Untouched' /\ RestIsKept' /\ NothingMisrouted'
  <2>1. Counted' /\ RestIsKept'
    BY <1>1, <1>2, FlagsKept DEF Counted, RestIsKept
  <2>2. Untouched'
    BY <1>3 DEF Untouched
  <2>3. NothingMisrouted'
    BY <1>1, <1>2, ExpectedKept DEF NothingMisrouted
  <2> QED
    BY <2>1, <2>2, <2>3
<1>5. RoutedInFull' /\ BilledSoFar'
  BY <1>3 DEF RoutedInFull, BilledSoFar
<1>6. RoutedSoFar'
  <2> SUFFICES ASSUME pc' = "route" PROVE RoutedSoFar'
    BY DEF RoutedSoFar
  <2>1. routed' = [routed EXCEPT ![RouteOf(t)][BaseTag(t)] = @ + rest[t]]
    BY <1>3
  <2>2. RouteOf(t) \in Panels /\ BaseTag(t) \in Tags
    BY <1>1, TagsHere
  <2>3. ASSUME NEW p \in Panels, NEW b \in Tags
        PROVE  routed'[p][b] = Total(rest, Feeding(p, b) \ due')
    <3> DEFINE before == Feeding(p, b) \ due
    <3>1. before \in SUBSET Tags /\ routed[p][b] = Total(rest, before)
      BY <1>1 DEF Feeding, RoutedSoFar
    <3>2. IsFiniteSet(before) /\ \A y \in before \cup {t} : rest[y] \in Nat
      BY <1>1, <3>1, PartsOfTags
    <3>3. CASE p = RouteOf(t) /\ b = BaseTag(t)
      <4>1. Feeding(p, b) \ due' = before \cup {t} /\ t \notin before
        BY <1>1, <1>2, <3>3 DEF Feeding
      <4>2. Total(rest, before \cup {t}) = Total(rest, before) + rest[t]
        BY <3>2, <4>1, TotalWith
      <4>3. routed[p] \in [Tags -> Nat]
        BY <1>1
      <4>4. routed'[p][b] = routed[p][b] + rest[t]
        BY <1>1, <2>1, <3>3, <4>3
      <4> QED
        BY <3>1, <4>1, <4>2, <4>4
    <3>4. CASE ~(p = RouteOf(t) /\ b = BaseTag(t))
      <4>1. Feeding(p, b) \ due' = before
        BY <1>2, <3>4 DEF Feeding
      <4>2. routed[RouteOf(t)] \in [Tags -> Nat] /\ routed[p] \in [Tags -> Nat]
        BY <1>1, <2>2
      <4>3. routed'[p][b] = routed[p][b]
        BY <1>1, <2>1, <2>2, <3>4, <4>2
      <4> QED
        BY <3>1, <4>1, <4>3
    <3> QED
      BY <3>3, <3>4
  <2>4. \A p, b : Feeding(p, b)' = Feeding(p, b)
    BY <1>2, FlagsKept DEF Feeding
  <2> QED
    BY <1>1, <1>2, <2>3, <2>4 DEF RoutedSoFar
<1> QED
  BY <1>1, <1>4, <1>5, <1>6 DEF BytesInv

LEMMA RoutedDoneBytes ==
    ASSUME StackTypeOK, BytesInv, call = "PushTraffic", UNCHANGED stack, RoutedDone
    PROVE  BytesInv'
<1>1. /\ cfg \in Configs /\ bytes \in [Tags -> Nat] /\ rest \in [Tags -> Nat]
      /\ pc = "route" /\ due = {} /\ call' = "PushTraffic" /\ pc' = "push"
      /\ Counted /\ RestIsKept /\ RoutedSoFar /\ NothingMisrouted
  BY DEF StackTypeOK, RoutingTypeOK, BytesInv, RoutedDone, stack
<1>2. UNCHANGED <<cfg, bytes, rest, due, routed, sent>>
  BY DEF RoutedDone
<1>3. todo' = {p \in Labels : Tagged(routed[p]) # {}}
              \cup (IF Tagged(routed["default"]) # {} THEN DefaultNodes ELSE {})
  BY DEF RoutedDone
<1>4. /\ cfg.mapped # {} /\ \A n \in Nodes : sent[n] = 0
      /\ \A p \in Panels, b \in Tags : routed[p][b] = Total(rest, Feeding(p, b))
  <2>1. \A p, b : Feeding(p, b) \ due = Feeding(p, b)
    BY <1>1
  <2> QED
    BY <1>1, <2>1 DEF RoutedSoFar
<1>5. Counted' /\ Untouched' /\ RestIsKept' /\ RoutedSoFar' /\ NothingMisrouted'
  <2>1. Counted' /\ RestIsKept'
    BY <1>1, <1>2, FlagsKept DEF Counted, RestIsKept
  <2>2. Untouched' /\ RoutedSoFar'
    BY <1>1 DEF Untouched, RoutedSoFar
  <2>3. NothingMisrouted'
    BY <1>1, <1>2, ExpectedKept DEF NothingMisrouted
  <2> QED
    BY <2>1, <2>2, <2>3
<1>6. RoutedInFull'
  <2>1. todo' \subseteq Clients
    BY <1>3, <1>4 DEF Clients
  <2>2. Clients' = Clients /\ \A p, b : Feeding(p, b)' = Feeding(p, b)
    BY <1>2, FlagsKept DEF Clients, Feeding
  <2> QED
    BY <1>2, <1>4, <2>1, <2>2 DEF RoutedInFull
<1>7. BilledSoFar'
  <2>1. ASSUME ClientForEveryTag, NEW n \in Nodes \ todo' PROVE Expected(n) = 0
    <3>1. ASSUME NEW t \in Reported, NodeFor(t) = n, bytes[t] # 0 PROVE FALSE
      <4>1. t \in Tags /\ bytes[t] > 0 /\ t \in Countable \cap Reported /\ ~ShouldDrop(t)
        BY <1>1, <3>1, TagsHere DEF Counted, Reported
      <4>2. rest[t] > 0
        BY <1>1, <4>1 DEF RestIsKept
      <4>3. t \in Source(n) /\ n \in DefaultNodes \cup Labels
        BY <1>1, <2>1, <3>1, <4>1, OwnIsInSource
      <4>4. t \in Feeding(PanelOf(n), Entry(n)) /\ Entry(n) \in Tags /\ PanelOf(n) \in Panels
        BY <1>1, <1>4, <4>1, <4>3, TagsHere DEF Source, Feeding
      <4>5. Feeding(PanelOf(n), Entry(n)) \in SUBSET Tags
        BY DEF Feeding
      <4>6. /\ IsFiniteSet(Feeding(PanelOf(n), Entry(n)))
            /\ \A y \in Feeding(PanelOf(n), Entry(n)) : rest[y] \in Nat
            /\ Total(rest, Feeding(PanelOf(n), Entry(n))) \in Nat
        BY <1>1, <4>5, PartsOfTags
      <4>7. rest[t] <= Total(rest, Feeding(PanelOf(n), Entry(n)))
        BY <4>4, <4>6, TotalCovers
      <4>8. routed[PanelOf(n)][Entry(n)] > 0
        BY <1>1, <1>4, <4>1, <4>2, <4>4, <4>6, <4>7
      <4>9. Tagged(routed[PanelOf(n)]) # {}
        BY <4>4, <4>8 DEF Tagged
      <4> QED
        BY <1>3, <2>1, <4>3, <4>9 DEF PanelOf
    <3> QED
      BY <3>1, NothingExpected
  <2>2. \A n \in Nodes : sent'[n] = 0 /\ Expected(n)' = Expected(n)
    BY <1>2, <1>4, ExpectedKept
  <2>3. ClientForEveryTag' = ClientForEveryTag
    BY <1>2, FlagsKept
  <2> QED
    BY <1>1, <2>1, <2>2, <2>3 DEF BilledSoFar
<1> QED
  BY <1>1, <1>5, <1>6, <1>7 DEF BytesInv

LEMMA ClientBytes ==
    ASSUME StackTypeOK, BytesInv, call = "PushTraffic", UNCHANGED stack, NEW n \in Nodes, PushClient(n)
    PROVE  BytesInv'
<1>1. /\ cfg \in Configs /\ sent \in [Nodes -> Nat]
      /\ pc = "push" /\ n \in todo /\ call' = "PushTraffic"
      /\ Counted /\ RestIsKept /\ RoutedInFull /\ BilledSoFar /\ NothingMisrouted
  BY DEF StackTypeOK, RoutingTypeOK, BytesInv, PushClient, stack
<1>2. UNCHANGED <<cfg, bytes, rest, due, routed, pc>> /\ todo' = todo \ {n}
  BY DEF PushClient
<1>3. sent' = [sent EXCEPT ![n] = Total(rest, Source(n))]
  BY <1>1, PushedIsSource DEF PushClient
<1>4. n \in Clients
  BY <1>1 DEF RoutedInFull
<1>5. /\ Total(rest, Source(n)) <= Expected(n)
      /\ ClientForEveryTag => Total(rest, Source(n)) = Expected(n)
  BY <1>1, <1>4, SourceIsExpected
<1>6. Counted' /\ Untouched' /\ RestIsKept' /\ RoutedSoFar'
  <2>1. Counted' /\ RestIsKept'
    BY <1>1, <1>2, FlagsKept DEF Counted, RestIsKept
  <2>2. Untouched' /\ RoutedSoFar'
    BY <1>1, <1>2 DEF Untouched, RoutedSoFar
  <2> QED
    BY <2>1, <2>2
<1>7. RoutedInFull'
  <2>1. Clients' = Clients /\ \A p, b : Feeding(p, b)' = Feeding(p, b)
    BY <1>2, FlagsKept DEF Clients, Feeding
  <2> QED
    BY <1>1, <1>2, <2>1 DEF RoutedInFull
<1>8. \A m \in Nodes : /\ sent'[m] = (IF m = n THEN Total(rest, Source(n)) ELSE sent[m])
                       /\ Expected(m)' = Expected(m)
  BY <1>1, <1>2, <1>3, ExpectedKept
<1>9. BilledSoFar'
  <2>1. ClientForEveryTag' = ClientForEveryTag
    BY <1>2, FlagsKept
  <2> QED
    BY <1>1, <1>2, <1>5, <1>8, <2>1 DEF BilledSoFar
<1>10. NothingMisrouted'
  BY <1>1, <1>5, <1>8 DEF NothingMisrouted
<1> QED
  BY <1>1, <1>6, <1>7, <1>9, <1>10 DEF BytesInv

\* The steps that end a call, with or without an error.
LEMMA EndBytes ==
    ASSUME StackTypeOK, BytesInv, UNCHANGED <<cfg, bytes, rest, due, routed, todo, sent, call>>,
           \/ pc' = pc
           \/ pc = "push" /\ pc' = "failed"
           \/ pc = "push" /\ todo = {} /\ pc' = "committed"
    PROVE  BytesInv'
<1>1. call' = call /\ \A n : Expected(n)' = Expected(n)
  BY ExpectedKept
<1>2. call # "PushTraffic" => BytesInv'
  BY <1>1 DEF BytesInv
<1>3. ASSUME call = "PushTraffic"
      PROVE  Counted /\ Untouched /\ RestIsKept /\ RoutedSoFar /\ RoutedInFull /\ BilledSoFar
             /\ NothingMisrouted
  BY <1>3 DEF BytesInv
<1>4. Clients' = Clients /\ \A p, b : Feeding(p, b)' = Feeding(p, b)
  BY FlagsKept DEF Clients, Feeding
<1>5. ASSUME call = "PushTraffic"
      PROVE  Counted' /\ RestIsKept' /\ NothingMisrouted'
  <2>1. Counted' /\ RestIsKept'
    BY <1>3, <1>5, FlagsKept DEF Counted, RestIsKept, Untouched
  <2>2. NothingMisrouted'
    BY <1>1, <1>3, <1>5 DEF NothingMisrouted
  <2> QED
    BY <2>1, <2>2
<1>6. ASSUME call = "PushTraffic"
      PROVE  Untouched' /\ RoutedSoFar' /\ RoutedInFull'
  <2>1. Untouched'
    BY <1>3, <1>6 DEF Untouched
  <2>2. RoutedSoFar'
    BY <1>3, <1>4, <1>6 DEF RoutedSoFar
  <2>3. RoutedInFull'
    BY <1>3, <1>4, <1>6 DEF RoutedInFull
  <2> QED
    BY <2>1, <2>2, <2>3
<1>7. call = "PushTraffic" => BilledSoFar'
  <2>1. ClientForEveryTag' = ClientForEveryTag
    BY FlagsKept
  <2> QED
    BY <1>1, <1>3, <2>1 DEF BilledSoFar
<1> QED
  BY <1>1, <1>2, <1>5, <1>6, <1>7 DEF BytesInv

LEMMA NextBytes ==
    ASSUME StackTypeOK, StackTypeOK', BytesInv, [NextStack]_stackVars
    PROVE  BytesInv'
<1>1. ASSUME UNCHANGED stackVars PROVE BytesInv'
  BY <1>1, EndBytes DEF stackVars, vars, stack
<1>2. ASSUME PushTraffic PROVE BytesInv'
  <2>1. call = "PushTraffic" /\ UNCHANGED stack /\ call' = call
    BY <1>2 DEF PushTraffic, stack
  <2>2. CASE \E n \in Nodes : PushFails(n)
    BY <2>1, <2>2, EndBytes DEF PushFails
  <2>3. CASE Commit
    BY <2>1, <2>3, EndBytes DEF Commit
  <2>4. CASE Ended
    BY <2>1, <2>4, EndBytes DEF Ended, vars
  <2> QED
    BY <1>2, <2>1, <2>2, <2>3, <2>4, CountBytes, FilterBytes, RouteBytes, RoutedDoneBytes, ClientBytes
    DEF PushTraffic, Next
<1>3. ASSUME PushAlive \/ FetchUsers PROVE BytesInv'
  <2>1. UNCHANGED <<bytes, sent, call>> /\ call # "PushTraffic"
    BY <1>3 DEF PushAlive, FilterAlive, RouteAliveTag, RoutedAliveDone, PushAliveClient,
                PushAliveFails, PushAliveDone, FetchUsers, StartFetch, FetchClient, FetchFails,
                FetchDone, stack
  <2> QED
    BY <2>1 DEF BytesInv
<1> QED
  BY <1>1, <1>2, <1>3 DEF NextStack, Returned

LEMMA BytesAlways == StackSpec => [](StackTypeOK /\ BytesInv)
<1>1. InitStack => StackTypeOK /\ BytesInv
  BY InitType, InitBytes
<1>2. StackTypeOK /\ BytesInv /\ [NextStack]_stackVars => StackTypeOK' /\ BytesInv'
  BY NextType, NextBytes
<1> QED
  BY <1>1, <1>2, PTL DEF StackSpec

\* At no point of a push, errors included, has a node been sent bytes of a dropped
\* source or of another node, whatever the flags.
THEOREM NothingIsMisrouted == StackSpec => []NothingMisrouted
<1>1. StackTypeOK /\ BytesInv => NothingMisrouted
  BY ExpectedIsNatural DEF BytesInv, NothingMisrouted
<1> QED
  BY <1>1, BytesAlways, PTL

\* Under flags that leave a client for every tag, a snapshot that is committed was
\* pushed in full, each byte to the node of its label or else of its inbound.
THEOREM CommittedIsPushed == StackSpec => []CommittedIsRouted
<1>1. StackTypeOK /\ BytesInv => CommittedIsRouted
  <2> SUFFICES ASSUME StackTypeOK, BytesInv, ClientForEveryTag, pc = "committed", NEW n \in Nodes
               PROVE  sent[n] = Expected(n)
    BY DEF CommittedIsRouted
  <2>1. CASE call = "PushTraffic"
    BY <2>1 DEF BytesInv, BilledSoFar
  <2>2. CASE call # "PushTraffic"
    <3>1. sent[n] = 0 /\ \A t \in Reported : bytes[t] = 0
      BY <2>2 DEF BytesInv, Reported
    <3> QED
      BY <3>1, NothingExpected
  <2> QED
    BY <2>1, <2>2
<1> QED
  BY <1>1, BytesAlways, PTL

-----------------------------------------------------------------------------
(* PushAlive *)

\* What a map collected for a panel is the list of a kept tag that goes there.
TableIsOwn ==
    \A p \in Panels : \A b \in DOMAIN table[p] :
        \E t \in Kept : RouteOf(t) = p /\ BaseTag(t) = b /\ table[p][b] = alive[t]

NoneShown ==
    /\ pc = "open" => todo = {}
    /\ pc \in {"open", "route"} => DOMAIN shown = {}

TabledSoFar ==
    pc = "route" =>
        cfg.mapped # {} /\ \A t \in Kept \ due : BaseTag(t) \in DOMAIN table[RouteOf(t)]

TabledInFull ==
    pc = "push" =>
        /\ todo \subseteq Clients
        /\ cfg.mapped # {} => \A t \in Kept : BaseTag(t) \in DOMAIN table[RouteOf(t)]

\* The nodes that need not be asked, or no more, have been sent a list if they
\* have an entry.
ShownSoFar ==
    /\ pc \in {"push", "committed"} /\ ClientForEveryTag =>
           \A n \in Nodes \ todo : Own(n) # {} => n \in DOMAIN shown
    /\ pc = "committed" => todo = {}

ShownIsOwn == \A n \in DOMAIN shown : \E t \in Own(n) : shown[n] = alive[t]

AliveInv ==
    /\ call = "PushAlive" =>
           TableIsOwn /\ NoneShown /\ TabledSoFar /\ TabledInFull /\ ShownSoFar /\ ShownIsOwn
    /\ call # "PushAlive" => DOMAIN shown = {}

LEMMA OwnIsKept ==
    ASSUME StackTypeOK
    PROVE  /\ Kept \subseteq Countable \cap Reported \cap Tags
           /\ \A n : Own(n) = {t \in Kept : NodeFor(t) = n}
<1>1. DOMAIN alive \subseteq Countable
  BY AliveIsPartial DEF StackTypeOK, Nothing
<1>2. Kept \subseteq Tags /\ Kept = DOMAIN alive \cap Reported
  BY AliveIsPartial
<1> QED
  BY <1>1, <1>2 DEF Own

LEMMA DeltaKept ==
    ASSUME UNCHANGED <<cfg, alive>>
    PROVE  /\ Kept' = Kept /\ FilteredAlive' = FilteredAlive /\ Clients' = Clients
           /\ \A n : Own(n)' = Own(n)
<1>1. Kept' = Kept /\ Clients' = Clients
  BY FlagsKept DEF Kept, Clients
<1>2. FilteredAlive' = FilteredAlive
  BY <1>1 DEF FilteredAlive
<1>3. \A n : Own(n)' = Own(n)
  BY FlagsKept DEF Own
<1> QED
  BY <1>1, <1>2, <1>3

\* A client sends the list of one tag of its node, and sends none only if no tag
\* of its node came to it.
LEMMA SentIsOwn ==
    ASSUME StackTypeOK, TableIsOwn, TabledInFull, pc = "push", NEW n \in todo
    PROVE  /\ n \in Nodes
           /\ Matched(n) # {} =>
                  \E t \in Own(n) : UNION {AlivePartOf(n)[u] : u \in Matched(n)} = alive[t]
           /\ ClientForEveryTag /\ Own(n) # {} => Matched(n) # {}
<1>1. cfg \in Configs /\ n \in Clients
  BY DEF StackTypeOK, RoutingTypeOK, TabledInFull
<1>2. n \in DefaultNodes \cup Labels /\ n \in Nodes /\ (cfg.mapped = {} => n \in DefaultNodes)
  BY <1>1, TagsHere DEF Clients, Nodes
<1>3. Entry(n) \in Tags /\ PanelOf(n) \in Panels /\ \A t \in Tags : MatchesInbound(n, t) <=> t = Entry(n)
  BY <1>1, <1>2, TagsHere
<1>4. cfg.mapped # {} => AlivePartOf(n) = table[PanelOf(n)]
  BY DEF AlivePartOf, PanelOf
<1>5. cfg.mapped = {} => AlivePartOf(n) = FilteredAlive
  BY DEF AlivePartOf
<1>6. AlivePartOf(n) \in Partial(Tags, SUBSET Ips)
  BY <1>3, <1>4, <1>5, AliveIsPartial DEF StackTypeOK
<1>7. DOMAIN AlivePartOf(n) \subseteq Tags
  BY <1>6, PartialFunctions
<1>8. Matched(n) = {t \in {Entry(n)} : t \in DOMAIN AlivePartOf(n)}
  BY <1>3, <1>7 DEF Matched
<1>9. ASSUME Matched(n) # {}
      PROVE  \E t \in Own(n) : UNION {AlivePartOf(n)[u] : u \in Matched(n)} = alive[t]
  <2>1. Entry(n) \in DOMAIN AlivePartOf(n) /\ Matched(n) = {Entry(n)}
    BY <1>8, <1>9
  <2>2. UNION {AlivePartOf(n)[u] : u \in Matched(n)} = AlivePartOf(n)[Entry(n)]
    BY <2>1
  <2>3. \E t \in Kept : t \in Source(n) /\ AlivePartOf(n)[Entry(n)] = alive[t]
    <3>1. CASE cfg.mapped = {}
      <4>1. Entry(n) \in Kept /\ FilteredAlive[Entry(n)] = alive[Entry(n)]
        BY <1>5, <2>1, <3>1, AliveIsPartial
      <4> QED
        BY <1>5, <3>1, <4>1 DEF Source
    <3>2. CASE cfg.mapped # {}
      <4>1. PICK t \in Kept : /\ RouteOf(t) = PanelOf(n) /\ BaseTag(t) = Entry(n)
                              /\ table[PanelOf(n)][Entry(n)] = alive[t]
        BY <1>3, <1>4, <2>1, <3>2 DEF TableIsOwn
      <4>2. t \in Source(n)
        BY <3>2, <4>1, OwnIsKept DEF Source
      <4> QED
        BY <1>4, <3>2, <4>1, <4>2
    <3> QED
      BY <3>1, <3>2
  <2>4. PICK t \in Kept : t \in Source(n) /\ AlivePartOf(n)[Entry(n)] = alive[t]
    BY <2>3
  <2>5. NodeFor(t) = n
    BY <1>1, <1>2, <2>4, SourceIsOwn
  <2>6. t \in Own(n)
    BY <2>4, <2>5, OwnIsKept
  <2> QED
    BY <2>2, <2>4, <2>6
<1>10. ASSUME ClientForEveryTag, Own(n) # {} PROVE Matched(n) # {}
  <2>1. PICK t \in Kept : NodeFor(t) = n
    BY <1>10, OwnIsKept
  <2>2. t \in Source(n) /\ t \in Tags
    BY <1>1, <1>10, <2>1, OwnIsInSource, OwnIsKept
  <2>3. Entry(n) \in DOMAIN AlivePartOf(n)
    <3>1. CASE cfg.mapped = {}
      BY <1>5, <2>1, <2>2, <3>1, AliveIsPartial DEF Source
    <3>2. CASE cfg.mapped # {}
      BY <1>4, <2>1, <2>2, <3>2 DEF Source, TabledInFull
    <3> QED
      BY <3>1, <3>2
  <2> QED
    BY <1>8, <2>3
<1> QED
  BY <1>2, <1>9, <1>10

LEMMA InitAlive == InitStack => AliveInv
<1> SUFFICES ASSUME InitStack PROVE AliveInv
  OBVIOUS
<1>1. /\ pc = "open" /\ todo = {} /\ DOMAIN shown = {}
      /\ \A p \in Panels : DOMAIN table[p] = {}
  BY DEF InitStack, Init, Nothing, Panels
<1> QED
  BY <1>1 DEF AliveInv, TableIsOwn, NoneShown, TabledSoFar, TabledInFull, ShownSoFar, ShownIsOwn

\* A step of PushAlive that stores and sends nothing.
LEMMA StoredKept ==
    ASSUME StackTypeOK, TableIsOwn, ShownIsOwn, UNCHANGED <<cfg, alive, table, shown>>
    PROVE  TableIsOwn' /\ ShownIsOwn'
<1>1. TableIsOwn'
  <2>1. Kept' = Kept /\ \A t : RouteOf(t)' = RouteOf(t)
    BY FlagsKept, DeltaKept
  <2> QED
    BY <2>1 DEF TableIsOwn
<1>2. ShownIsOwn'
  <2>1. \A n : Own(n)' = Own(n)
    BY DeltaKept
  <2> QED
    BY <2>1 DEF ShownIsOwn
<1> QED
  BY <1>1, <1>2

LEMMA FilterShown ==
    ASSUME StackTypeOK, AliveInv, FilterAlive
    PROVE  AliveInv'
<1>1. /\ cfg \in Configs /\ pc = "open" /\ call = "PushAlive" /\ call' = "PushAlive"
      /\ TableIsOwn /\ NoneShown /\ ShownIsOwn
  BY DEF StackTypeOK, RoutingTypeOK, AliveInv, FilterAlive, stack
<1>2. UNCHANGED <<cfg, alive, table, shown>>
  BY DEF FilterAlive, stack
<1>3. \/ Kept = {} /\ pc' = "committed" /\ todo' = todo
      \/ cfg.mapped = {} /\ pc' = "push" /\ todo' = DefaultNodes
      \/ cfg.mapped # {} /\ pc' = "route" /\ due' = Kept /\ todo' = todo
  BY AliveIsPartial DEF FilterAlive, Nothing
<1>4. TableIsOwn' /\ ShownIsOwn'
  BY <1>1, <1>2, StoredKept
<1>5. NoneShown'
  BY <1>1, <1>2, <1>3 DEF NoneShown
<1>6. TabledSoFar' /\ TabledInFull'
  <2>1. Kept' = Kept /\ Clients' = Clients
    BY <1>2, DeltaKept
  <2> QED
    BY <1>2, <1>3, <2>1 DEF TabledSoFar, TabledInFull, Clients
<1>7. ShownSoFar'
  <2>1. pc' = "committed" => todo' = {}
    BY <1>1, <1>3 DEF NoneShown
  <2>2. ASSUME pc' \in {"push", "committed"}, ClientForEveryTag, NEW n \in Nodes \ todo', Own(n) # {}
        PROVE  FALSE
    <3>1. PICK t \in Kept : NodeFor(t) = n
      BY <2>2, OwnIsKept
    <3>2. cfg.mapped = {} /\ todo' = DefaultNodes
      BY <1>3, <2>2, <3>1
    <3>3. NodeFor(t) \in DefaultNodes
      BY <1>1, <2>2, <3>1, <3>2, OwnIsInSource, OwnIsKept
    <3> QED
      BY <2>2, <3>1, <3>2, <3>3
  <2>3. ClientForEveryTag' = ClientForEveryTag /\ \A n : Own(n)' = Own(n)
    BY <1>2, FlagsKept, DeltaKept
  <2> QED
    BY <2>1, <2>2, <2>3 DEF ShownSoFar
<1> QED
  BY <1>1, <1>4, <1>5, <1>6, <1>7 DEF AliveInv

LEMMA RouteShown ==
    ASSUME StackTypeOK, AliveInv, NEW t \in Tags, RouteAliveTag(t)
    PROVE  AliveInv'
<1>1. /\ cfg \in Configs /\ table \in [Panels -> Partial(Tags, SUBSET Ips)]
      /\ pc = "route" /\ call = "PushAlive" /\ call' = "PushAlive" /\ t \in due /\ t \in Kept
      /\ TableIsOwn /\ NoneShown /\ TabledSoFar /\ ShownIsOwn
  BY DEF StackTypeOK, RoutingTypeOK, AliveInv, RouteAliveTag
<1>2. UNCHANGED <<cfg, todo, alive, shown>> /\ due' = due \ {t}
  BY DEF RouteAliveTag
<1>3. Kept' = Kept /\ (\A u : RouteOf(u)' = RouteOf(u)) /\ \A n : Own(n)' = Own(n)
  BY <1>2, DeltaKept, FlagsKept
<1>4. ShownIsOwn'
  BY <1>1, <1>2, <1>3 DEF ShownIsOwn
<1>5. NoneShown'
  BY <1>1, <1>2 DEF NoneShown, RouteAliveTag
<1>6. pc' \in {"route", "panicked"}
  BY <1>1 DEF RouteAliveTag
<1>7. TabledInFull' /\ ShownSoFar'
  BY <1>6 DEF TabledInFull, ShownSoFar
<1>8. RouteOf(t) \in Panels /\ BaseTag(t) \in Tags /\ FilteredAlive[t] = alive[t]
  BY <1>1, TagsHere, AliveIsPartial
<1>9. CASE pc' = "panicked" /\ table' = table
  <2>1. TableIsOwn' /\ TabledSoFar'
    BY <1>1, <1>2, <1>9, StoredKept DEF TabledSoFar
  <2> QED
    BY <1>1, <1>4, <1>5, <1>7, <2>1 DEF AliveInv
<1>10. CASE table' = [table EXCEPT ![RouteOf(t)] = Stored(@, BaseTag(t), FilteredAlive[t])]
  <2>1. table'[RouteOf(t)] = Stored(table[RouteOf(t)], BaseTag(t), alive[t])
        /\ \A p \in Panels \ {RouteOf(t)} : table'[p] = table[p]
    BY <1>1, <1>8, <1>10
  <2>2. /\ DOMAIN table'[RouteOf(t)] = DOMAIN table[RouteOf(t)] \cup {BaseTag(t)}
        /\ table'[RouteOf(t)][BaseTag(t)] = alive[t]
        /\ \A b \in DOMAIN table[RouteOf(t)] \ {BaseTag(t)} :
               table'[RouteOf(t)][b] = table[RouteOf(t)][b]
    <3> DEFINE old == table[RouteOf(t)]
               new == Stored(old, BaseTag(t), alive[t])
    <3>1. DOMAIN new = DOMAIN old \cup {BaseTag(t)}
      BY DEF Stored, Over
    <3>2. new[BaseTag(t)] = alive[t]
      BY DEF Stored, Over
    <3>3. \A b \in DOMAIN old \ {BaseTag(t)} : new[b] = old[b]
      BY DEF Stored, Over
    <3>4. table'[RouteOf(t)] = new
      BY <2>1
    <3> HIDE DEF new
    <3> QED
      BY <3>1, <3>2, <3>3, <3>4
  <2>3. TableIsOwn'
    <3> SUFFICES ASSUME NEW p \in Panels, NEW b \in DOMAIN table'[p]
                 PROVE  \E u \in Kept : /\ RouteOf(u) = p /\ BaseTag(u) = b
                                        /\ table'[p][b] = alive[u]
      BY <1>2, <1>3 DEF TableIsOwn
    <3>1. CASE p = RouteOf(t) /\ b = BaseTag(t)
      BY <1>1, <2>2, <3>1
    <3>2. CASE ~(p = RouteOf(t) /\ b = BaseTag(t))
      <4>1. b \in DOMAIN table[p] /\ table'[p][b] = table[p][b]
        BY <2>1, <2>2, <3>2
      <4> QED
        BY <1>1, <4>1 DEF TableIsOwn
    <3> QED
      BY <3>1, <3>2
  <2>4. TabledSoFar'
    <3> SUFFICES ASSUME NEW u \in Kept \ due' PROVE BaseTag(u) \in DOMAIN table'[RouteOf(u)]
      BY <1>1, <1>2, <1>3 DEF TabledSoFar
    <3>1. CASE u = t
      BY <2>2, <3>1
    <3>2. CASE u # t
      <4>1. BaseTag(u) \in DOMAIN table[RouteOf(u)]
        BY <1>1, <1>2, <3>2 DEF TabledSoFar
      <4>2. RouteOf(u) \in Panels
        BY <1>1, TagsHere, OwnIsKept
      <4> QED
        BY <2>1, <2>2, <4>1, <4>2
    <3> QED
      BY <3>1, <3>2
  <2> QED
    BY <1>1, <1>4, <1>5, <1>7, <2>3, <2>4 DEF AliveInv
<1> QED
  BY <1>9, <1>10 DEF RouteAliveTag

LEMMA RoutedShown ==
    ASSUME StackTypeOK, AliveInv, RoutedAliveDone
    PROVE  AliveInv'
<1>1. /\ cfg \in Configs /\ table \in [Panels -> Partial(Tags, SUBSET Ips)]
      /\ pc = "route" /\ pc' = "push" /\ due = {} /\ call = "PushAlive" /\ call' = "PushAlive"
      /\ TableIsOwn /\ NoneShown /\ TabledSoFar /\ ShownIsOwn
  BY DEF StackTypeOK, RoutingTypeOK, AliveInv, RoutedAliveDone, stack
<1>2. UNCHANGED <<cfg, alive, table, shown>>
  BY DEF RoutedAliveDone, stack
<1>3. todo' = {p \in Labels : table[p] # Nothing}
              \cup (IF table["default"] # Nothing THEN DefaultNodes ELSE {})
  BY DEF RoutedAliveDone
<1>4. cfg.mapped # {} /\ \A t \in Kept : BaseTag(t) \in DOMAIN table[RouteOf(t)]
  BY <1>1 DEF TabledSoFar
<1>5. TableIsOwn' /\ ShownIsOwn'
  BY <1>1, <1>2, StoredKept
<1>6. NoneShown' /\ TabledSoFar'
  BY <1>1 DEF NoneShown, TabledSoFar
<1>7. TabledInFull'
  <2>1. todo' \subseteq Clients
    BY <1>3, <1>4 DEF Clients
  <2>2. Clients' = Clients /\ Kept' = Kept /\ \A t : RouteOf(t)' = RouteOf(t)
    BY <1>2, FlagsKept, DeltaKept
  <2> QED
    BY <1>2, <1>4, <2>1, <2>2 DEF TabledInFull
<1>8. ShownSoFar'
  <2>1. ASSUME ClientForEveryTag, NEW n \in Nodes \ todo', Own(n) # {} PROVE FALSE
    <3>1. PICK t \in Kept : NodeFor(t) = n
      BY <2>1, OwnIsKept
    <3>2. t \in Source(n) /\ n \in DefaultNodes \cup Labels
      BY <1>1, <2>1, <3>1, OwnIsInSource, OwnIsKept
    <3>3. Entry(n) \in DOMAIN table[PanelOf(n)]
      BY <1>4, <3>1, <3>2 DEF Source
    <3>4. table[PanelOf(n)] # Nothing
      BY <3>3 DEF Nothing
    <3> QED
      BY <1>3, <2>1, <3>2, <3>4 DEF PanelOf
  <2>2. ClientForEveryTag' = ClientForEveryTag /\ \A n : Own(n)' = Own(n)
    BY <1>2, FlagsKept, DeltaKept
  <2> QED
    BY <1>1, <2>1, <2>2 DEF ShownSoFar
<1> QED
  BY <1>1, <1>5, <1>6, <1>7, <1>8 DEF AliveInv

LEMMA ClientShown ==
    ASSUME StackTypeOK, AliveInv, NEW n \in Nodes, PushAliveClient(n)
    PROVE  AliveInv'
<1>1. /\ pc = "push" /\ call = "PushAlive" /\ call' = "PushAlive" /\ n \in todo
      /\ TableIsOwn /\ TabledInFull /\ ShownSoFar /\ ShownIsOwn
  BY DEF AliveInv, PushAliveClient, Turn
<1>2. UNCHANGED <<cfg, alive, table, pc>> /\ todo' = todo \ {n}
  BY DEF PushAliveClient
<1>3. shown' = IF Matched(n) = {} THEN shown
               ELSE Stored(shown, n, UNION {AlivePartOf(n)[t] : t \in Matched(n)})
  BY DEF PushAliveClient
<1>4. /\ Kept' = Kept /\ Clients' = Clients /\ \A m : Own(m)' = Own(m)
      /\ ClientForEveryTag' = ClientForEveryTag /\ \A t : RouteOf(t)' = RouteOf(t)
  BY <1>2, FlagsKept, DeltaKept
<1>5. TableIsOwn' /\ NoneShown' /\ TabledSoFar' /\ TabledInFull'
  <2>1. TableIsOwn'
    BY <1>1, <1>2, <1>4 DEF TableIsOwn
  <2>2. NoneShown' /\ TabledSoFar'
    BY <1>1, <1>2 DEF NoneShown, TabledSoFar
  <2>3. TabledInFull'
    BY <1>1, <1>2, <1>4 DEF TabledInFull
  <2> QED
    BY <2>1, <2>2, <2>3
<1>6. /\ Matched(n) # {} => \E t \in Own(n) : UNION {AlivePartOf(n)[u] : u \in Matched(n)} = alive[t]
      /\ ClientForEveryTag /\ Own(n) # {} => Matched(n) # {}
  BY <1>1, SentIsOwn
<1>7. CASE Matched(n) = {}
  <2>1. shown' = shown
    BY <1>3, <1>7
  <2>2. ShownIsOwn'
    BY <1>1, <1>2, <1>4, <2>1 DEF ShownIsOwn
  <2>3. ShownSoFar'
    BY <1>1, <1>2, <1>4, <1>6, <1>7, <2>1 DEF ShownSoFar
  <2> QED
    BY <1>1, <1>5, <2>2, <2>3 DEF AliveInv
<1>8. CASE Matched(n) # {}
  <2>1. PICK t \in Own(n) : UNION {AlivePartOf(n)[u] : u \in Matched(n)} = alive[t]
    BY <1>6, <1>8
  <2>2. shown' = Stored(shown, n, alive[t])
    BY <1>3, <1>8, <2>1
  <2>3. /\ DOMAIN shown' = DOMAIN shown \cup {n} /\ shown'[n] = alive[t]
        /\ \A m \in DOMAIN shown \ {n} : shown'[m] = shown[m]
    BY <2>2 DEF Stored, Over
  <2>4. ShownIsOwn'
    <3> SUFFICES ASSUME NEW m \in DOMAIN shown' PROVE \E u \in Own(m) : shown'[m] = alive[u]
      BY <1>2, <1>4 DEF ShownIsOwn
    <3> QED
      BY <1>1, <2>3 DEF ShownIsOwn
  <2>5. ShownSoFar'
    BY <1>1, <1>2, <1>4, <2>3 DEF ShownSoFar
  <2> QED
    BY <1>1, <1>5, <2>4, <2>5 DEF AliveInv
<1> QED
  BY <1>7, <1>8

\* The steps that end a call, with or without an error, and stuttering.
LEMMA EndShown ==
    ASSUME StackTypeOK, AliveInv, UNCHANGED <<cfg, due, todo, stack>>,
           \/ pc' = pc
           \/ pc = "push" /\ pc' = "failed"
           \/ pc = "push" /\ todo = {} /\ pc' = "committed"
    PROVE  AliveInv'
<1>1. UNCHANGED <<call, alive, table, shown>>
  BY DEF stack
<1>2. call # "PushAlive" => AliveInv'
  BY <1>1 DEF AliveInv
<1>3. ASSUME call = "PushAlive"
      PROVE  TableIsOwn /\ NoneShown /\ TabledSoFar /\ TabledInFull /\ ShownSoFar /\ ShownIsOwn
  BY <1>3 DEF AliveInv
<1>4. /\ Kept' = Kept /\ Clients' = Clients /\ \A n : Own(n)' = Own(n)
      /\ ClientForEveryTag' = ClientForEveryTag /\ \A t : RouteOf(t)' = RouteOf(t)
  BY <1>1, FlagsKept, DeltaKept
<1>5. ASSUME call = "PushAlive" PROVE TableIsOwn' /\ ShownIsOwn'
  BY <1>1, <1>3, <1>5, StoredKept
<1>6. ASSUME call = "PushAlive" PROVE NoneShown' /\ TabledSoFar' /\ TabledInFull'
  <2>1. NoneShown'
    BY <1>1, <1>3, <1>6 DEF NoneShown
  <2>2. TabledSoFar'
    BY <1>1, <1>3, <1>4, <1>6 DEF TabledSoFar
  <2>3. TabledInFull'
    BY <1>1, <1>3, <1>4, <1>6 DEF TabledInFull
  <2> QED
    BY <2>1, <2>2, <2>3
<1>7. call = "PushAlive" => ShownSoFar'
  BY <1>1, <1>3, <1>4 DEF ShownSoFar
<1> QED
  BY <1>1, <1>2, <1>5, <1>6, <1>7 DEF AliveInv

LEMMA NextAlive ==
    ASSUME StackTypeOK, AliveInv, [NextStack]_stackVars
    PROVE  AliveInv'
<1>1. ASSUME UNCHANGED stackVars PROVE AliveInv'
  BY <1>1, EndShown DEF stackVars, vars
<1>2. ASSUME PushAlive PROVE AliveInv'
  <2>1. CASE \E n \in Nodes : PushAliveFails(n)
    BY <2>1, EndShown DEF PushAliveFails
  <2>2. CASE PushAliveDone
    BY <2>2, EndShown DEF PushAliveDone
  <2> QED
    BY <1>2, <2>1, <2>2, FilterShown, RouteShown, RoutedShown, ClientShown DEF PushAlive
<1>3. ASSUME PushTraffic \/ FetchUsers PROVE AliveInv'
  <2>1. UNCHANGED <<shown, call>> /\ call # "PushAlive"
    BY <1>3 DEF PushTraffic, FetchUsers, StartFetch, FetchClient, FetchFails, FetchDone, stack
  <2> QED
    BY <2>1 DEF AliveInv
<1> QED
  BY <1>1, <1>2, <1>3 DEF NextStack, Returned

\* At no point of a PushAlive has a node been sent addresses that are not the list
\* of one of its own tags; and under flags that leave a client for every tag, each
\* node with an entry has been sent one when PushAlive returns without an error.
THEOREM AliveIsSent == StackSpec => []AliveIsRouted
<1>1. InitStack => StackTypeOK /\ AliveInv
  BY InitType, InitAlive
<1>2. StackTypeOK /\ AliveInv /\ [NextStack]_stackVars => StackTypeOK' /\ AliveInv'
  BY NextType, NextAlive
<1>3. AliveInv => AliveIsRouted
  <2>1. CASE call = "PushAlive"
    BY <2>1 DEF AliveInv, AliveIsRouted, ShownSoFar, ShownIsOwn
  <2>2. CASE call # "PushAlive"
    BY <2>2 DEF AliveInv, AliveIsRouted
  <2> QED
    BY <2>1, <2>2
<1> QED
  BY <1>1, <1>2, <1>3, PTL DEF StackSpec

-----------------------------------------------------------------------------
(* FetchUsers *)

\* The clients that are still to be asked are asked last: the ones of a map after
\* the others, the Hysteria 2 node after the primary.
AskedInOrder ==
    /\ todo \cap DefaultNodes # {} => cfg.mapped \subseteq todo
    /\ "primary" \in todo => DefaultNodes \subseteq todo

\* The users of the clients that answered are there, each with the record of the
\* client that comes first.
MergedSoFar ==
    /\ DOMAIN users = UNION {lists[n] : n \in Asked \ todo}
    /\ \A id \in DOMAIN users :
           /\ users[id] \in Asked \ todo /\ id \in lists[users[id]]
           /\ \A n \in DefaultNodes \ todo : id \in lists[n] => users[id] \in {"primary", n}
           /\ "primary" \notin todo /\ id \in lists["primary"] => users[id] = "primary"

FetchInv ==
    /\ pc \in {"fetch", "fetched"} => call = "FetchUsers" /\ AskedInOrder /\ MergedSoFar
    /\ pc = "fetched" => todo = {}
    /\ call = "FetchUsers" /\ pc = "open" => users = Nothing

LEMMA NodesAsked ==
    ASSUME cfg \in Configs
    PROVE  /\ "primary" \in DefaultNodes /\ DefaultNodes \subseteq {"primary", "hy2"}
           /\ DefaultNodes \cap Labels = {} /\ cfg.mapped \subseteq Labels
           /\ Asked = DefaultNodes \cup cfg.mapped
BY Flags DEF DefaultNodes, Asked

LEMMA ClientMerged ==
    ASSUME StackTypeOK, FetchInv, NEW n \in Nodes, FetchClient(n)
    PROVE  FetchInv'
<1>1. /\ cfg \in Configs /\ pc = "fetch" /\ call = "FetchUsers"
      /\ n \in todo /\ todo \subseteq Asked /\ AskedInOrder /\ MergedSoFar
  BY DEF StackTypeOK, RoutingTypeOK, FetchInv, FetchClient, FetchTurn, Turn
<1>2. UNCHANGED <<cfg, pc, call, lists>> /\ todo' = todo \ {n}
  BY DEF FetchClient
<1>3. users' = Over(users, [id \in lists[n] |-> n])
  BY DEF FetchClient
<1>4. DefaultNodes' = DefaultNodes /\ Asked' = Asked
  BY <1>2, FlagsKept
<1>5. /\ DOMAIN users' = DOMAIN users \cup lists[n]
      /\ \A id \in DOMAIN users : users'[id] = users[id]
      /\ \A id \in lists[n] \ DOMAIN users : users'[id] = n
  BY <1>3 DEF Over
<1>6. /\ n = "hy2" => "primary" \notin todo
      /\ n \in Labels => todo \cap DefaultNodes = {}
  BY DEF FetchClient, FetchTurn, Turn
<1>7. AskedInOrder'
  BY <1>1, <1>2, <1>4, <1>6, NodesAsked DEF AskedInOrder
<1>8. DOMAIN users' = UNION {lists[m] : m \in Asked \ todo'}
  <2>1. Asked \ todo' = (Asked \ todo) \cup {n}
    BY <1>1, <1>2
  <2> QED
    BY <1>1, <1>5, <2>1 DEF MergedSoFar
<1>9. ASSUME NEW id \in DOMAIN users'
      PROVE  /\ users'[id] \in Asked \ todo' /\ id \in lists[users'[id]]
             /\ \A m \in DefaultNodes \ todo' : id \in lists[m] => users'[id] \in {"primary", m}
             /\ "primary" \notin todo' /\ id \in lists["primary"] => users'[id] = "primary"
  <2>1. CASE id \in DOMAIN users
    <3>1. users'[id] = users[id] /\ users[id] \in Asked \ todo /\ id \in lists[users[id]]
      BY <1>1, <1>5, <2>1 DEF MergedSoFar
    <3>2. ASSUME NEW m \in DefaultNodes \ todo', id \in lists[m] PROVE users[id] \in {"primary", m}
      <4>1. CASE m # n
        BY <1>1, <1>2, <2>1, <3>2, <4>1 DEF MergedSoFar
      <4>2. CASE m = n /\ n = "primary"
        \* No one was asked before.
        BY <1>1, <3>1, <4>2, NodesAsked DEF AskedInOrder
      <4>3. CASE m = n /\ n = "hy2"
        \* Only the primary was asked before.
        BY <1>1, <3>1, <4>3, NodesAsked DEF AskedInOrder
      <4> QED
        BY <1>1, <3>2, <4>1, <4>2, <4>3, NodesAsked
    <3>3. ASSUME "primary" \notin todo', id \in lists["primary"] PROVE users[id] = "primary"
      <4>1. CASE n # "primary"
        BY <1>1, <1>2, <2>1, <3>3, <4>1 DEF MergedSoFar
      <4>2. CASE n = "primary"
        BY <1>1, <3>1, <4>2, NodesAsked DEF AskedInOrder
      <4> QED
        BY <4>1, <4>2
    <3> QED
      BY <1>2, <3>1, <3>2, <3>3
  <2>2. CASE id \notin DOMAIN users
    <3>1. users'[id] = n /\ id \in lists[n]
      BY <1>5, <2>2
    <3>2. \A m \in Asked \ todo : id \notin lists[m]
      BY <1>1, <2>2 DEF MergedSoFar
    <3> QED
      BY <1>1, <1>2, <3>1, <3>2, NodesAsked
  <2> QED
    BY <2>1, <2>2
<1>10. MergedSoFar'
  BY <1>2, <1>4, <1>8, <1>9 DEF MergedSoFar
<1> QED
  BY <1>1, <1>2, <1>7, <1>10 DEF FetchInv

LEMMA NextFetch ==
    ASSUME StackTypeOK, FetchInv, [NextStack]_stackVars
    PROVE  FetchInv'
<1>1. cfg \in Configs
  BY DEF StackTypeOK, RoutingTypeOK
<1>2. ASSUME UNCHANGED <<cfg, todo, pc, call, lists, users>> PROVE FetchInv'
  <2>1. DefaultNodes' = DefaultNodes /\ Asked' = Asked
    BY <1>2, FlagsKept
  <2>2. (AskedInOrder => AskedInOrder') /\ (MergedSoFar => MergedSoFar')
    BY <1>2, <2>1 DEF AskedInOrder, MergedSoFar
  <2> QED
    BY <1>2, <2>2 DEF FetchInv
<1>3. ASSUME PushTraffic PROVE FetchInv'
  <2>1. call = "PushTraffic" /\ call' = call /\ pc \notin {"fetch", "fetched"}
    BY <1>3 DEF PushTraffic, stack, FetchInv
  <2>2. pc' \notin {"fetch", "fetched"}
    BY <1>3, <2>1 DEF PushTraffic, Next, Count, Filter, RouteTag, RoutedDone, PushClient, PushFails,
                      Commit, Ended, vars
  <2> QED
    BY <2>1, <2>2 DEF FetchInv
<1>4. ASSUME PushAlive PROVE FetchInv'
  <2>1. call = "PushAlive" /\ call' = call /\ pc \notin {"fetch", "fetched"}
    BY <1>4 DEF PushAlive, FilterAlive, RouteAliveTag, RoutedAliveDone, PushAliveClient,
                PushAliveFails, PushAliveDone, stack, FetchInv
  <2>2. pc' \notin {"fetch", "fetched"}
    BY <1>4, <2>1 DEF PushAlive, FilterAlive, RouteAliveTag, RoutedAliveDone, PushAliveClient,
                      PushAliveFails, PushAliveDone
  <2> QED
    BY <2>1, <2>2 DEF FetchInv
<1>5. ASSUME StartFetch PROVE FetchInv'
  <2>1. /\ UNCHANGED <<cfg, call, lists, users>> /\ todo' = Asked
        /\ call = "FetchUsers" /\ pc = "open" /\ pc' = "fetch" /\ users = Nothing
    BY <1>5 DEF StartFetch, stack, FetchInv
  <2>2. DefaultNodes' = DefaultNodes /\ Asked' = Asked
    BY <2>1, FlagsKept
  <2>3. AskedInOrder'
    BY <1>1, <2>1, <2>2, NodesAsked DEF AskedInOrder
  <2>4. MergedSoFar'
    BY <2>1, <2>2 DEF MergedSoFar, Nothing
  <2> QED
    BY <2>1, <2>3, <2>4 DEF FetchInv
<1>6. ASSUME NEW n \in Nodes, FetchFails(n) PROVE FetchInv'
  BY <1>6 DEF FetchFails, FetchInv
<1>7. ASSUME FetchDone PROVE FetchInv'
  <2>1. /\ UNCHANGED <<cfg, call, lists, users, todo>> /\ todo = {}
        /\ call = "FetchUsers" /\ pc = "fetch" /\ pc' = "fetched" /\ AskedInOrder /\ MergedSoFar
    BY <1>7 DEF FetchDone, stack, FetchInv
  <2>2. DefaultNodes' = DefaultNodes /\ Asked' = Asked
    BY <2>1, FlagsKept
  <2>3. AskedInOrder' /\ MergedSoFar'
    BY <2>1, <2>2 DEF AskedInOrder, MergedSoFar
  <2> QED
    BY <2>1, <2>3 DEF FetchInv
<1>8. CASE UNCHANGED stackVars
  BY <1>2, <1>8 DEF stackVars, vars, stack
<1> QED
  BY <1>3, <1>4, <1>5, <1>6, <1>7, <1>8, ClientMerged DEF NextStack, FetchUsers, Returned

\* A list of users that FetchUsers returns has every user of every client, each
\* with the record of the primary node or else of the Hysteria 2 node.
THEOREM FetchIsUnion == StackSpec => []FetchedIsUnion
<1>1. InitStack => StackTypeOK /\ FetchInv
  <2>1. InitStack => FetchInv
    BY DEF InitStack, Init, FetchInv
  <2> QED
    BY <2>1, InitType
<1>2. StackTypeOK /\ FetchInv /\ [NextStack]_stackVars => StackTypeOK' /\ FetchInv'
  BY NextType, NextFetch
<1>3. StackTypeOK /\ FetchInv => FetchedIsUnion
  <2> SUFFICES ASSUME StackTypeOK, FetchInv, pc = "fetched" PROVE FetchedIsUnion
    BY DEF FetchedIsUnion
  <2>1. todo = {} /\ MergedSoFar
    BY DEF FetchInv
  <2>2. Asked \ todo = Asked /\ DefaultNodes \ todo = DefaultNodes
    BY <2>1
  <2> QED
    BY <2>1, <2>2 DEF MergedSoFar, FetchedIsUnion
<1> QED
  BY <1>1, <1>2, <1>3, PTL DEF StackSpec

=============================================================================
