---------------------------- MODULE MCMcpGateway ----------------------------
(* Two configurations: the shape of config/mcp-allowlist.yaml, and an edited *)
(* file with a permissive policy, a malformed limit and a denied tool.       *)
EXTENDS McpGateway

MCTools == {"ssh", "context7", "shell"}
MCMethods == {"m1", "m2"}
MCSeconds == [sec |-> 1, min |-> 2, hour |-> 4]

Tool(methods, count, period, audited) ==
  [methods |-> methods, rate_limit |-> [count |-> count, period |-> period],
   audit |-> audited]

Shipped ==
  [policy |-> "deny",
   allowed_tools |-> [ssh |-> Tool({"m1"}, 2, "min", TRUE),
                      context7 |-> Tool({"*"}, 1, "other", FALSE)],
   denied_tools |-> {"shell"}]

Edited ==
  [policy |-> "allow",
   allowed_tools |-> [ssh |-> Tool({"m2"}, 1, "sec", TRUE),
                      shell |-> Tool({"*"}, 3, "malformed", TRUE)],
   denied_tools |-> {}]

MCConfigs == {Shipped, Edited}
=============================================================================
