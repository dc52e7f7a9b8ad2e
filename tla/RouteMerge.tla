----------------------------- MODULE RouteMerge -----------------------------
(***************************************************************************)
(* mergeCustomRouting: the outbounds, route rules and sections of the nodes  *)
(* a configuration is generated for, in the order of the nodes.             *)
(*                                                                         *)
(* Of a node there are its DNS and options sections, its outbounds (a tag    *)
(* and settings, which include the protocol), its rules (an action, a        *)
(* target, whether they are disabled and whether they match anything) and    *)
(* its custom_routes, entries that are taken for a section or a rule.       *)
(***************************************************************************)
EXTENDS Integers, Sequences, SequencesExt

CONSTANTS
    Tags,      \* outbound tags as they are spelled, without surrounding blanks
    LowerCase, \* LowerCase[t]: tag t in lower case
    None       \* nil, and what a record leaves empty

Reserved == {"direct", "block"}

ASSUME TagAssumption ==
    /\ Reserved \subseteq Tags /\ None \notin Tags
    /\ LowerCase \in [Tags -> Tags]
    /\ \A t \in Reserved : LowerCase[t] = t

-----------------------------------------------------------------------------
(* Outbounds *)

\* seenTags: a tag that is reserved or was seen, upper and lower case alike.
Taken(outbounds, t) ==
    LowerCase[t] \in Reserved \cup {LowerCase[o.tag] : o \in ToSet(outbounds)}

\* Of several outbounds with a tag the first is kept.
AddOutbound(outbounds, o) == IF Taken(outbounds, o.tag) THEN outbounds ELSE Append(outbounds, o)

AddOutbounds(outbounds, node) == FoldLeft(AddOutbound, outbounds, node.outbounds)

MergedOutbounds(nodes) == FoldLeft(AddOutbounds, <<>>, nodes)

-----------------------------------------------------------------------------
(* Rules and sections *)

\* Rules that are disabled or match nothing are left out.
Live(rule) == ~rule.disabled /\ rule.matches

\* customRouteRuleToSingBox: the outbound a rule leads to.
OutboundOf(rule) == IF rule.action = "route" THEN rule.target ELSE rule.action

AddRule(merged, rule) ==
    IF Live(rule)
    THEN [merged EXCEPT !.rules = Append(@, [outbound |-> OutboundOf(rule), entry |-> None])]
    ELSE merged

\* An entry of custom_routes is the DNS section or the options section if there
\* is none yet, and else a rule.
AddRoute(merged, entry) ==
    IF entry.dns # None /\ merged.dns = None THEN [merged EXCEPT !.dns = entry.dns]
    ELSE IF entry.options # None /\ merged.options = None
    THEN [merged EXCEPT !.options = entry.options]
    ELSE [merged EXCEPT !.rules = Append(@, [outbound |-> None, entry |-> entry])]

AddRules(merged, node)  == FoldLeft(AddRule, merged, node.rules)
AddRoutes(merged, node) == FoldLeft(AddRoute, merged, node.routes)

\* A node's rules, then its custom_routes.
AddNode(merged, node) == AddRoutes(AddRules(merged, node), node)

\* Mutant of FirstSection: only the first node is asked.
SectionOfFirst(sections) == sections[1]

\* The first custom_dns (route_options) there is goes before all entries.
FirstSection(sections) ==
    LET n == SelectInSeq(sections, LAMBDA s : s # None)
    IN  IF n = 0 THEN None ELSE sections[n]

Merged(nodes) ==
    FoldLeft(AddNode,
             [outbounds |-> MergedOutbounds(nodes),
              dns       |-> FirstSection([n \in DOMAIN nodes |-> nodes[n].dns]),
              options   |-> FirstSection([n \in DOMAIN nodes |-> nodes[n].options]),
              rules     |-> <<>>],
             nodes)

\* customOutboundToSingBox and customRouteRuleToSingBox return no error: an
\* outbound has a tag and settings, a rule an action that is known and a target
\* that is reserved or an outbound of any of the nodes.
Mergeable(nodes) ==
    /\ \A node \in ToSet(nodes) : \A o \in ToSet(node.outbounds) :
          o.tag # None /\ o.settings # None
    /\ \A node \in ToSet(nodes) : \A r \in {r \in ToSet(node.rules) : Live(r)} :
          \/ r.action \in Reserved
          \/ r.action = "route" /\ r.target # None /\ Taken(MergedOutbounds(nodes), r.target)

=============================================================================
