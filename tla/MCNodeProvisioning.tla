------------------------ MODULE MCNodeProvisioning ------------------------
(* NodeProvisioning for TLC: records of nodes that have something to merge. *)
EXTENDS NodeProvisioning, TLC

CONSTANTS s1, s2, d1, d2

SmallTags == {"direct", "Direct", "block", "a", "A", "b"}
Lower     == [t \in SmallTags |-> CASE t = "A" -> "a" [] t = "Direct" -> "direct" [] OTHER -> t]

SmallOptions ==
    {[mode |-> "vless", ids |-> {"vless"}], [mode |-> "hy2", ids |-> {"hy2"}],
     [mode |-> "ss", ids |-> {"panel"}], [mode |-> "both", ids |-> {"vless", "hy2"}],
     [mode |-> "both", ids |-> {"vless"}]}

Plain(protocol) ==
    [protocol |-> protocol, complete |-> TRUE, dns |-> None, options |-> None,
     outbounds |-> <<>>, rules |-> <<>>, routes |-> <<>>]

Outbound(tag, settings) == [tag |-> tag, settings |-> settings]

Rule(action, target) == [action |-> action, target |-> target, disabled |-> FALSE, matches |-> TRUE]

\* Records that differ from a plain one in what can meet another node's.
Variants(protocol, s, d) ==
    LET p == Plain(protocol)
    IN  {p,
         [p EXCEPT !.complete = FALSE],
         [p EXCEPT !.outbounds = <<Outbound("a", s)>>, !.rules = <<Rule("route", "a")>>],
         [p EXCEPT !.outbounds = <<Outbound("A", s), Outbound("direct", s)>>,
                   !.rules = <<Rule("route", "direct")>>],
         [p EXCEPT !.outbounds = <<Outbound("b", s)>>,
                   !.rules = <<Rule("block", None), [Rule("route", "a") EXCEPT !.disabled = TRUE],
                               Rule("route", "b"), [Rule("deny", None) EXCEPT !.matches = FALSE]>>],
         [p EXCEPT !.rules = <<Rule("route", "a")>>],
         [p EXCEPT !.outbounds = <<Outbound("Direct", s)>>, !.rules = <<Rule("route", "Direct")>>],
         [p EXCEPT !.outbounds = <<Outbound("a", None)>>],
         [p EXCEPT !.dns = d],
         [p EXCEPT !.routes = <<[dns |-> None, options |-> None], [dns |-> d, options |-> None]>>],
         [p EXCEPT !.options = d, !.routes = <<[dns |-> d, options |-> d]>>]}

SmallRecords ==
    {[vless |-> v, hysteria |-> h, shadowsocks |-> Plain("shadowsocks")] :
        v \in Variants("vless", s1, d1), h \in Variants("hysteria", s2, d2)}
=============================================================================
