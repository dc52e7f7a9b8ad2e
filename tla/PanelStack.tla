----------------------------- MODULE PanelStack -----------------------------
(***************************************************************************)
(* The three calls of the Panel interface on the stack of PanelRouting.     *)
(*                                                                         *)
(* FetchUsers merges the user lists of the clients, PushTraffic is          *)
(* PanelRouting, and PushAlive takes address lists the way PushTraffic      *)
(* takes bytes.  The stack keeps nothing between two calls, so a behaviour  *)
(* is one call of any of them.  The lists of an alive delta are those of    *)
(* one user: no layer treats two users differently.                         *)
(***************************************************************************)
EXTENDS PanelRouting

CONSTANTS
    Ids,        \* user ids above 0; ApplyBox ignores the others
    Ips,        \* peer addresses
    MaxEntries  \* bound: tags the user has an entry under

ASSUME StackAssumption == MaxEntries \in Nat

VARIABLES
    call,   \* the method called
    alive,  \* alive[t]: the user's addresses, for the tags in the delta
    table,  \* table[p]: what routeAlive collected for panel p
    shown,  \* shown[n]: the list the client of node n was sent, if it was
    lists,  \* lists[n]: the ids the panel lists for node n
    short,  \* ids whose secret is too short for the cipher of the node
    users   \* users[id]: the node whose record of id was merged

stack == <<call, alive, table, shown, lists, short, users>>
stackVars == <<vars, stack>>

Nothing == [x \in {} |-> {}]

\* The entries of f, and of g where f has none: f @@ g of module TLC, in a form
\* that can be reasoned about.
Over(f, g) == [x \in DOMAIN f \cup DOMAIN g |-> IF x \in DOMAIN f THEN f[x] ELSE g[x]]

\* m with y stored under x.
Stored(m, x, y) == Over([z \in {x} |-> y], m)

\* The tags connections can be counted under, with the flags of cfg.
Countable == {SourceInboundTag(b, l) : b \in Served(cfg.mode), l \in Labels \cup {NoLabel}}

Deltas ==
    UNION {[D -> SUBSET Ips] : D \in {D \in SUBSET Countable : Cardinality(D) \in 1..MaxEntries}}

\* The clients FetchUsers asks: source filters do not apply to it.
Asked == DefaultNodes \cup cfg.mapped

InitStack ==
    /\ Init
    /\ table = [p \in {"default"} \cup Labels |-> Nothing]
    /\ shown = Nothing /\ users = Nothing
    /\ \/ /\ call = "PushTraffic"
          /\ alive = Nothing /\ lists = Nothing /\ short = {}
       \/ /\ call = "PushAlive"
          /\ alive \in Deltas /\ lists = Nothing /\ short = {}
       \/ /\ call = "FetchUsers"
          /\ alive = Nothing
          /\ lists \in [Asked -> SUBSET Ids]
          /\ short \in SUBSET Ids

-----------------------------------------------------------------------------
(* PushAlive *)

Kept == {t \in DOMAIN alive : ~ShouldDrop(t)}

\* Mutant of FilteredAlive: a user with an empty list gets no entry.
FilteredAliveNoTombstone == [t \in {t \in Kept : alive[t] # {}} |-> alive[t]]

\* SourceFilteredPanel.filterAlive.  Empty lists stay: they clear the user.
FilteredAlive == [t \in Kept |-> alive[t]]

\* SourceFilteredPanel.PushAlive.
FilterAlive ==
    /\ call = "PushAlive" /\ pc = "open"
    /\ \/ /\ FilteredAlive = Nothing
          /\ pc' = "committed"
          /\ UNCHANGED <<due, todo>>
       \/ /\ FilteredAlive # Nothing /\ cfg.mapped = {}
          /\ pc' = "push"
          /\ todo' = DefaultNodes
          /\ UNCHANGED due
       \/ /\ FilteredAlive # Nothing /\ cfg.mapped # {}
          /\ pc' = "route"
          /\ due' = DOMAIN FilteredAlive
          /\ UNCHANGED todo
    /\ UNCHANGED <<cfg, bytes, rest, routed, sent, stack>>

\* routeAlive, one tag: its list replaces the one of another tag of the user
\* that goes to the same panel under the same base inbound.
RouteAliveTag(t) ==
    /\ call = "PushAlive" /\ pc = "route" /\ t \in due
    /\ due' = due \ {t}
    /\ \/ /\ Hashable(RouteOf(t))
          /\ table' = [table EXCEPT ![RouteOf(t)] = Stored(@, BaseTag(t), FilteredAlive[t])]
          /\ UNCHANGED pc
       \/ ~Hashable(RouteOf(t)) /\ pc' = "panicked" /\ UNCHANGED table
    /\ UNCHANGED <<cfg, bytes, rest, routed, todo, sent, call, alive, shown, lists, short, users>>

\* SourceMappedPanel.PushAlive: the panels that were routed something.
RoutedAliveDone ==
    /\ call = "PushAlive" /\ pc = "route" /\ due = {}
    /\ pc' = "push"
    /\ todo' = {p \in Labels : table[p] # Nothing}
               \cup (IF table["default"] # Nothing THEN DefaultNodes ELSE {})
    /\ UNCHANGED <<cfg, bytes, rest, due, routed, sent, stack>>

\* The delta a client is given, and the tags in it that the client matches.
AlivePartOf(n) ==
    IF cfg.mapped = {} THEN FilteredAlive
    ELSE IF n \in Labels THEN table[n] ELSE table["default"]

Matched(n) == {t \in DOMAIN AlivePartOf(n) : MatchesInbound(n, t)}

\* MultiPanel asks its clients in order; the panels of a map in any order.
Turn(n) == n \in todo /\ (n = "hy2" => "primary" \notin todo)

\* Client.PushAlive: one list per user, of the addresses under all tags it
\* matches.  It sends nothing if the user is under none.
PushAliveClient(n) ==
    /\ call = "PushAlive" /\ pc = "push" /\ Turn(n)
    /\ todo' = todo \ {n}
    /\ shown' = IF Matched(n) = {} THEN shown
                ELSE Stored(shown, n, UNION {AlivePartOf(n)[t] : t \in Matched(n)})
    /\ UNCHANGED <<cfg, bytes, rest, due, routed, sent, pc, call, alive, table, lists, short, users>>

PushAliveFails(n) ==
    /\ call = "PushAlive" /\ pc = "push" /\ Turn(n)
    /\ Matched(n) # {}
    /\ pc' = "failed"
    /\ UNCHANGED <<cfg, bytes, rest, due, routed, todo, sent, stack>>

PushAliveDone ==
    /\ call = "PushAlive" /\ pc = "push" /\ todo = {}
    /\ pc' = "committed"
    /\ UNCHANGED <<cfg, bytes, rest, due, routed, todo, sent, stack>>

-----------------------------------------------------------------------------
(* FetchUsers *)

StartFetch ==
    /\ call = "FetchUsers" /\ pc = "open"
    /\ pc' = "fetch"
    /\ todo' = Asked
    /\ UNCHANGED <<cfg, bytes, rest, due, routed, sent, stack>>

\* SourceMappedPanel asks its default panel before the mapped ones.
FetchTurn(n) == Turn(n) /\ (n \in Labels => todo \cap DefaultNodes = {})

\* Client.FetchUsers has a password for each user.  For Shadowsocks it is cut
\* from the secret, and a secret too short for the cipher is an error.
Usable(n) == cfg.mode = "ss" => lists[n] \cap short = {}

\* A client answers: its users are merged, the record merged first stays.
FetchClient(n) ==
    /\ call = "FetchUsers" /\ pc = "fetch" /\ FetchTurn(n)
    /\ Usable(n)
    /\ todo' = todo \ {n}
    /\ users' = Over(users, [id \in lists[n] |-> n])
    /\ UNCHANGED <<cfg, bytes, rest, due, routed, sent, pc, call, alive, table, shown, lists, short>>

\* Mutant of FetchFails: the users of the other clients are returned.
FetchFailsSkips(n) ==
    /\ call = "FetchUsers" /\ pc = "fetch" /\ FetchTurn(n)
    /\ todo' = todo \ {n}
    /\ UNCHANGED <<cfg, bytes, rest, due, routed, sent, pc, stack>>

\* An error of any client fails the call: nothing is returned.
FetchFails(n) ==
    /\ call = "FetchUsers" /\ pc = "fetch" /\ FetchTurn(n)
    /\ pc' = "failed"
    /\ users' = Nothing
    /\ UNCHANGED <<cfg, bytes, rest, due, routed, todo, sent, call, alive, table, shown, lists, short>>

FetchDone ==
    /\ call = "FetchUsers" /\ pc = "fetch" /\ todo = {}
    /\ pc' = "fetched"
    /\ UNCHANGED <<cfg, bytes, rest, due, routed, todo, sent, stack>>

-----------------------------------------------------------------------------
PushTraffic == call = "PushTraffic" /\ Next /\ UNCHANGED stack

PushAlive ==
    \/ FilterAlive
    \/ \E t \in Tags : RouteAliveTag(t)
    \/ RoutedAliveDone
    \/ \E n \in Nodes : PushAliveClient(n) \/ PushAliveFails(n)
    \/ PushAliveDone

FetchUsers ==
    \/ StartFetch
    \/ \E n \in Nodes : FetchClient(n) \/ FetchFails(n)
    \/ FetchDone

Returned == pc \in {"committed", "failed", "panicked", "fetched"} /\ UNCHANGED stackVars

NextStack == PushTraffic \/ PushAlive \/ FetchUsers \/ Returned

StackSpec == InitStack /\ [][NextStack]_stackVars

-----------------------------------------------------------------------------
(* Properties *)

TypeOK ==
    /\ RoutingTypeOK
    /\ call \in {"PushTraffic", "PushAlive", "FetchUsers"}
    /\ pc \in {"open", "route", "push", "fetch", "committed", "fetched", "failed", "panicked"}
    /\ alive \in Deltas \cup {Nothing}
    /\ \A p \in DOMAIN table : \A t \in DOMAIN table[p] : table[p][t] \subseteq Ips
    /\ DOMAIN shown \subseteq Nodes /\ \A n \in DOMAIN shown : shown[n] \subseteq Ips
    /\ DOMAIN lists \subseteq Nodes /\ \A n \in DOMAIN lists : lists[n] \subseteq Ids
    /\ short \subseteq Ids
    /\ users \in UNION {[D -> Nodes] : D \in SUBSET Ids}

\* The entries a node should be told of.
Own(n) == {t \in DOMAIN alive \cap Reported : NodeFor(t) = n}

\* At no point, errors included, has a node been sent addresses of a dropped
\* source or of another node; a list it was sent is the list of one of its own
\* tags, all of it.  And under flags that leave a client for every tag, each node
\* with an entry has been sent one when PushAlive returns nil, be it empty: the
\* syncer then remembers the delta as known to the panel and does not repeat it.
AliveIsRouted ==
    /\ \A n \in DOMAIN shown : \E t \in Own(n) : shown[n] = alive[t]
    /\ ClientForEveryTag /\ call = "PushAlive" /\ pc = "committed" =>
           \A n \in Nodes : Own(n) # {} => n \in DOMAIN shown

\* A list that is returned holds every user of every client, and of a user that
\* several list, the record of the primary node or else of the Hysteria 2 node:
\* a client that fails must not make its users look removed.
FetchedIsUnion ==
    pc = "fetched" =>
        /\ DOMAIN users = UNION {lists[n] : n \in Asked}
        /\ \A id \in DOMAIN users :
               /\ id \in lists[users[id]]
               /\ \A n \in DefaultNodes : id \in lists[n] => users[id] \in {"primary", n}
               /\ id \in lists["primary"] => users[id] = "primary"

=============================================================================
