-------------------------- MODULE NodeProvisioning --------------------------
(***************************************************************************)
(* The installed service, from its start to the running agent.              *)
(*                                                                         *)
(* The service manager runs generate-config.sh and then the agent, and       *)
(* starts over 3 seconds after either has ended.  The script leaves a        *)
(* config.json that is not empty alone; otherwise xboard-generate-config     *)
(* fetches the records of the nodes of the mode, builds their inbounds,      *)
(* makes a certificate for a Hysteria 2 inbound, merges the routes, and      *)
(* writes config.json.  Files survive a crash the way they were left; a      *)
(* write can be cut short by a crash or an error.  An installation removes   *)
(* config.json, keeps the certificate, and may change the mode.              *)
(*                                                                         *)
(* sing-box is external: it starts with a file it can parse, whose rules     *)
(* name outbounds that are there, and with a certificate and key that        *)
(* belong together.                                                         *)
(***************************************************************************)
EXTENDS RouteMerge, FiniteSets

CONSTANTS
    Options,  \* options of an installation: mode, and the node ids given
    Records,  \* what the panel has for the nodes: a record for each type
    Absent,   \* a file that is not there,
    Empty,    \*   is there without content,
    Torn,     \*   or whose content was cut short
    MaxFaults \* bound: crashes, failed writes and installations

Types == {"vless", "hysteria", "shadowsocks"}

\* What the panel has for a node: lists of outbounds, rules and entries.
IsList(s) == s \in Seq(ToSet(s))

IsRecord(node) ==
    /\ IsList(node.outbounds) /\ IsList(node.rules)
    /\ IsList(node.routes) /\ None \notin ToSet(node.routes)

ASSUME ProvisioningAssumption ==
    /\ Options \subseteq [mode : {"vless", "hy2", "ss", "both"},
                          ids : SUBSET {"panel", "vless", "hy2"}]
    /\ \A r \in Records : DOMAIN r = Types /\ \A t \in Types : IsRecord(r[t])
    /\ Absent # Torn /\ Absent \notin Nat /\ Torn \notin Nat  \* key pairs are numbers
    /\ MaxFaults \in Nat

VARIABLES
    opts,    \* env: the options of the installation
    records, \* the panel's records
    cert,    \* cert.pem: the number of its key pair, if it is complete
    key,     \* key.pem
    config,  \* config.json: what was merged, if it is complete
    pc,
    got,     \* records fetched
    built,   \* records whose inbound is built
    made,    \* key pairs generated so far
    faults   \* crashes, failed writes and installations so far

files == <<cert, key, config>>
run   == <<pc, got, built>>
vars  == <<opts, records, files, run, made, faults>>

Init ==
    /\ opts \in Options /\ records \in Records
    /\ cert = Absent /\ key = Absent /\ config = Absent
    /\ pc = "down" /\ got = <<>> /\ built = 0
    /\ made = 0 /\ faults = 0

-----------------------------------------------------------------------------
(* generateXboardConfig *)

\* The node types of a mode, in the order they are fetched and built.
Wanted(mode) ==
    CASE mode = "vless" -> <<"vless">>
      [] mode = "hy2"   -> <<"hysteria">>
      [] mode = "ss"    -> <<"shadowsocks">>
      [] mode = "both"  -> <<"vless", "hysteria">>

\* firstNonEmpty over the id options of a mode; "both" takes no id of the
\* panel's for Hysteria 2.
HasIds(o) ==
    CASE o.mode = "vless" -> o.ids \cap {"vless", "panel"} # {}
      [] o.mode = "hy2"   -> o.ids \cap {"hy2", "panel"} # {}
      [] o.mode = "ss"    -> "panel" \in o.ids
      [] o.mode = "both"  -> o.ids \cap {"vless", "panel"} # {} /\ "hy2" \in o.ids

\* Mutant of Fail: the inbounds built are remembered.
FailKeepsBuilt == pc' = "down" /\ got' = <<>> /\ UNCHANGED built

\* The program or the script ended with an error: the service manager waits.
Fail == pc' = "down" /\ got' = <<>> /\ built' = 0

Goto(step) == pc' = step /\ UNCHANGED <<got, built>>

\* generate-config.sh: a config.json with content is not generated again.
Start ==
    /\ pc = "down"
    /\ IF config \in {Absent, Empty} THEN Goto("fetch") ELSE Goto("agent")
    /\ UNCHANGED <<opts, records, files, made, faults>>

IdsMissing ==
    /\ pc = "fetch" /\ ~HasIds(opts)
    /\ Fail
    /\ UNCHANGED <<opts, records, files, made, faults>>

\* FetchNodeConfig for the next node.
Fetch ==
    /\ pc = "fetch" /\ HasIds(opts) /\ Len(got) < Len(Wanted(opts.mode))
    /\ got' = Append(got, records[Wanted(opts.mode)[Len(got) + 1]])
    /\ UNCHANGED <<opts, records, files, pc, built, made, faults>>

\* No answer, an error status, or no record that can be decoded.
FetchFails ==
    /\ pc = "fetch" /\ HasIds(opts) /\ Len(got) < Len(Wanted(opts.mode))
    /\ Fail
    /\ UNCHANGED <<opts, records, files, made, faults>>

Fetched ==
    /\ pc = "fetch" /\ Len(got) = Len(Wanted(opts.mode))
    /\ Goto("inbound")
    /\ UNCHANGED <<opts, records, files, made, faults>>

Node == got[built + 1]

\* inboundFromNodeConfig: a record lacks its port, key or cipher, or is of a
\* protocol that is not supported.
BadRecord ==
    /\ pc = "inbound" /\ built < Len(got) /\ ~Node.complete
    /\ Fail
    /\ UNCHANGED <<opts, records, files, made, faults>>

BuildInbound ==
    /\ pc = "inbound" /\ built < Len(got) /\ Node.complete /\ Node.protocol # "hysteria"
    /\ built' = built + 1
    /\ UNCHANGED <<opts, records, files, pc, got, made, faults>>

-----------------------------------------------------------------------------
(* ensureSelfSignedCert *)

\* Mutant of CheckPair: one file is enough.
CheckPairCert ==
    /\ pc = "inbound" /\ built < Len(got) /\ Node.complete /\ Node.protocol = "hysteria"
    /\ IF cert # Absent
       THEN built' = built + 1 /\ UNCHANGED <<pc, got, made>>
       ELSE Goto("openCert") /\ made' = made + 1
    /\ UNCHANGED <<opts, records, files, faults>>

\* Two files are enough, whatever is in them; else a new pair is generated.
CheckPair ==
    /\ pc = "inbound" /\ built < Len(got) /\ Node.complete /\ Node.protocol = "hysteria"
    /\ IF cert # Absent /\ key # Absent
       THEN built' = built + 1 /\ UNCHANGED <<pc, got, made>>
       ELSE Goto("openCert") /\ made' = made + 1
    /\ UNCHANGED <<opts, records, files, faults>>

\* OpenFile truncates; Encode and Close complete the file.
OpenCert ==
    /\ pc = "openCert"
    /\ cert' = Torn /\ Goto("writeCert")
    /\ UNCHANGED <<opts, records, key, config, made, faults>>

WriteCert ==
    /\ pc = "writeCert"
    /\ cert' = made /\ Goto("openKey")
    /\ UNCHANGED <<opts, records, key, config, made, faults>>

OpenKey ==
    /\ pc = "openKey"
    /\ key' = Torn /\ Goto("writeKey")
    /\ UNCHANGED <<opts, records, cert, config, made, faults>>

WriteKey ==
    /\ pc = "writeKey"
    /\ key' = made
    /\ pc' = "inbound" /\ built' = built + 1
    /\ UNCHANGED <<opts, records, cert, config, got, made, faults>>

-----------------------------------------------------------------------------
(* The file, and the agent *)

\* Mutant of Content: the routes of the node built last.
ContentLast ==
    [inbounds |-> [n \in DOMAIN got |-> got[n].protocol], routing |-> Merged(<<Last(got)>>)]

Content == [inbounds |-> [n \in DOMAIN got |-> got[n].protocol], routing |-> Merged(got)]

\* Routes that cannot be merged leave config.json as it was.
Merge ==
    /\ pc = "inbound" /\ built = Len(got)
    /\ IF Mergeable(got) THEN Goto("openConfig") ELSE Fail
    /\ UNCHANGED <<opts, records, files, made, faults>>

\* WriteFile truncates, then writes.
OpenConfig ==
    /\ pc = "openConfig"
    /\ config' = Empty /\ Goto("writeConfig")
    /\ UNCHANGED <<opts, records, cert, key, made, faults>>

WriteConfig ==
    /\ pc = "writeConfig"
    /\ config' = Content
    /\ pc' = "agent" /\ got' = <<>> /\ built' = 0
    /\ UNCHANGED <<opts, records, cert, key, made, faults>>

\* sing-box can load a configuration.
TargetsThere(c) ==
    \A r \in ToSet(c.routing.rules) :
        r.entry = None => r.outbound \in Reserved \cup {o.tag : o \in ToSet(c.routing.outbounds)}

PairMatches == cert = key /\ cert \in Nat

Loads ==
    /\ config \notin {Absent, Empty, Torn}
    /\ TargetsThere(config)
    /\ "hysteria" \in ToSet(config.inbounds) => PairMatches

RunAgent ==
    /\ pc = "agent"
    /\ IF Loads THEN Goto("running") ELSE Fail
    /\ UNCHANGED <<opts, records, files, made, faults>>

\* The agent ends.
AgentExits ==
    /\ pc = "running"
    /\ Fail
    /\ UNCHANGED <<opts, records, files, made, faults>>

-----------------------------------------------------------------------------
(* Faults and installations *)

Fault == faults < MaxFaults /\ faults' = faults + 1

\* The process is killed or the machine goes down between two writes; a file that
\* was being written stays truncated, as it does when the write returns an error.
Crash ==
    /\ Fault /\ pc # "down"
    /\ Fail
    /\ UNCHANGED <<opts, records, files, made>>

\* The same, with a part of config.json written.
ConfigCut ==
    /\ Fault /\ pc = "writeConfig"
    /\ config' = Torn
    /\ Fail
    /\ UNCHANGED <<opts, records, cert, key, made>>

\* Mutant of Install: config.json is kept.
InstallKeeps(o) ==
    /\ Fault
    /\ opts' = o
    /\ Fail
    /\ UNCHANGED <<records, cert, key, config, made>>

\* install.sh, and the restart at its end.
Install(o) ==
    /\ Fault
    /\ opts' = o /\ config' = Absent
    /\ Fail
    /\ UNCHANGED <<records, cert, key, made>>

-----------------------------------------------------------------------------
Service ==
    \/ Start \/ IdsMissing \/ Fetch \/ FetchFails \/ Fetched
    \/ BadRecord \/ BuildInbound \/ CheckPair
    \/ OpenCert \/ WriteCert \/ OpenKey \/ WriteKey
    \/ Merge \/ OpenConfig \/ WriteConfig \/ RunAgent

Next ==
    \/ Service
    \/ AgentExits
    \/ Crash \/ ConfigCut
    \/ \E o \in Options : Install(o)

\* The service manager always starts over, and the programs go on; a node that is
\* asked for again and again is answered at some time.
Fairness ==
    /\ WF_vars(Service)
    /\ \A k \in 0 .. 1 : SF_vars(Len(got) = k /\ Fetch)

Spec == Init /\ [][Next]_vars /\ Fairness

-----------------------------------------------------------------------------
(* Properties *)

Pairs == 1 .. MaxFaults + 1

Complete == config \notin {Absent, Empty, Torn}

TypeOK ==
    /\ opts \in Options /\ records \in Records
    /\ cert \in Pairs \cup {Absent, Torn} /\ key \in Pairs \cup {Absent, Torn}
    /\ Complete => DOMAIN config = {"inbounds", "routing"}
    /\ got \in Seq({records[t] : t \in Types}) /\ Len(got) <= 2
    /\ built \in 0 .. Len(got)
    /\ made \in 0 .. MaxFaults + 1 /\ faults \in 0 .. MaxFaults

\* The records of the nodes that are installed.
RecordsOf(o, r) == [n \in DOMAIN Wanted(o.mode) |-> r[Wanted(o.mode)[n]]]

Own == RecordsOf(opts, records)

OwnOutbounds == UNION {ToSet(node.outbounds) : node \in ToSet(Own)}
OwnRules     == UNION {{r \in ToSet(node.rules) : Live(r)} : node \in ToSet(Own)}

\* The agent that runs has the inbounds of the mode installed last, in all
\* orders of installations, crashes and failed runs of the generator.
RunsWhatIsInstalled ==
    pc = "running" =>
        /\ HasIds(opts)
        /\ config.inbounds = [n \in DOMAIN Own |-> Own[n].protocol]
        /\ \A node \in ToSet(Own) : node.complete

\* No two outbounds of the nodes share a tag, and rules spell tags as they are.
TagsApart ==
    /\ \A o, p \in OwnOutbounds : LowerCase[o.tag] = LowerCase[p.tag] => o = p
    /\ \A o \in OwnOutbounds, r \in OwnRules :
          r.action = "route" /\ LowerCase[o.tag] = LowerCase[r.target] => o.tag = r.target

\* Then every rule of every node is in a generated configuration, and the tag it
\* names is there, and is the outbound a node has under this tag, unless it is a
\* reserved one in some other case: its outbound is left out, and the rule is not.
RulesReachTheirOutbound ==
    Complete /\ TagsApart =>
        \A r \in OwnRules :
            /\ \E x \in ToSet(config.routing.rules) : x.entry = None /\ x.outbound = OutboundOf(r)
            /\ r.action = "route" /\ LowerCase[r.target] \notin Reserved =>
                  \E o \in OwnOutbounds :
                      {p \in ToSet(config.routing.outbounds) : p.tag = r.target} = {o}

\* Where the nodes can have a section: <<n, 0>> is node n itself, with custom_dns
\* and route_options, and <<n, k>> its k-th entry of custom_routes.
Places == UNION {{<<n, k>> : k \in 0 .. Len(Own[n].routes)} : n \in DOMAIN Own}

At(p) == IF p[2] = 0 THEN Own[p[1]] ELSE Own[p[1]].routes[p[2]]

DnsPlaces     == {p \in Places : At(p).dns # None}
OptionsPlaces == {p \in Places : At(p).options # None}

\* The nodes together have one DNS and one options section at most, whichever node
\* has it and in whichever of the two forms, and no entry has both.
OneSectionEach ==
    /\ \A p, q \in DnsPlaces : p = q
    /\ \A p, q \in OptionsPlaces : p = q
    /\ \A p \in DnsPlaces \cap OptionsPlaces : p[2] = 0

\* Then a generated configuration has these sections, and no entry that carries one
\* ends up among its rules.
OneSectionIsKept ==
    Complete /\ OneSectionEach =>
        /\ \A p \in DnsPlaces : config.routing.dns = At(p).dns
        /\ \A p \in OptionsPlaces : config.routing.options = At(p).options
        /\ \A x \in ToSet(config.routing.rules) :
              x.entry # None => x.entry.dns = None /\ x.entry.options = None

\* The panel's records make a configuration sing-box can load.
Provisionable ==
    /\ HasIds(opts)
    /\ \A node \in ToSet(Own) : node.complete
    /\ Mergeable(Own)
    /\ TargetsThere([routing |-> Merged(Own)])

\* A write was cut short and left a file that is taken for complete: config.json
\* with a part of its content, or a certificate and a key of which one is cut off
\* or of another pair.
Stuck ==
    /\ pc = "down"
    /\ \/ config = Torn
       \/ cert # Absent /\ key # Absent /\ ~PairMatches

\* Otherwise the service comes up, again and again: after a crash at any other
\* step, a failed fetch, or a new installation, nothing has to be repaired.
ServiceComesUp == []<>(pc = "running" \/ Stuck \/ ~Provisionable)

=============================================================================
