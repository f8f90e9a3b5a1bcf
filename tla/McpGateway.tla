----------------------------- MODULE McpGateway -----------------------------
(***************************************************************************)
(* The MCP gateway (mcp_proxy): a default-deny allowlist, a sliding-window *)
(* rate limiter per tool and method, and an audit log.  invoke_tool never  *)
(* waits (forwarding is a placeholder), so one request is one step; the    *)
(* limiter lives in the process and is lost by a restart, the audit log is *)
(* written to standard output and is not.  The clock that the limiter      *)
(* reads may be set while it runs, back or forward.                        *)
(***************************************************************************)
EXTENDS Naturals, FiniteSets

CONSTANTS Tools, Methods,
          Configs,       \* what config/mcp-allowlist.yaml may say
          Seconds,       \* the length of each period of parse_rate_limit
          Settings,      \* what the clock may be set to
          MAX_TIME,      \* bound: time ends here
          MAX_SETTINGS,  \* bound: the clock is set so often
          MAX_REQUESTS,  \* bound: requests in all
          MAX_RESTARTS   \* bound: restarts of the process

\* "10/min" is [count |-> 10, period |-> "min"]; the period "malformed" stands
\* for a text that is not a number, a slash and a word.
RateLimits == [count : Nat, period : {"sec", "min", "hour", "other", "malformed"}]
Permissions == [methods : SUBSET (Methods \cup {"*"}), rate_limit : RateLimits,
                audit : BOOLEAN]
IsAllowlist(c) ==
  /\ c.policy \in {"deny", "allow"}
  /\ DOMAIN c.allowed_tools \subseteq Tools
  /\ \A tool \in DOMAIN c.allowed_tools : c.allowed_tools[tool] \in Permissions
  /\ c.denied_tools \subseteq Tools

ASSUME ConfigsAssumption == \A c \in Configs : IsAllowlist(c)
ASSUME SecondsAssumption == Seconds \in [{"sec", "min", "hour"} -> Nat \ {0}]
ASSUME SettingsAssumption == Settings \subseteq Nat
ASSUME BoundsAssumption ==
  MAX_TIME \in Nat /\ MAX_SETTINGS \in Nat /\ MAX_REQUESTS \in Nat /\ MAX_RESTARTS \in Nat

VARIABLES now,        \* the time that has passed, in whole units
          clock,      \* what time.time() says
          settings,   \* how often the clock was set
          trusted,    \* the last request before the clock was last set forward (history)
          allowlist,  \* the configuration this process loaded
          requests,   \* the rate limiter: what it remembers of each key
          life,       \* which process this is
          served,     \* every request ever answered (history)
          audit       \* the audit log

vars == <<now, clock, settings, trusted, allowlist, requests, life, served, audit>>

Keys == Tools \X Methods
Outcomes == {"not_in_allowlist", "rate_limited", "error", "success"}
Served == [id : Nat \ {0}, tool : Tools, method : Methods, outcome : Outcomes,
           time : Nat, at : Nat, life : Nat]  \* time as the clock says, at as it is
AuditEvents == [id : Nat \ {0}, status : {"denied", "error", "success"}]

Init ==
  /\ now = 0
  /\ clock \in Settings
  /\ settings = 0
  /\ trusted = 0
  /\ allowlist \in Configs
  /\ requests = [k \in Keys |-> {}]
  /\ life = 0
  /\ served = {}
  /\ audit = {}
-----------------------------------------------------------------------------
Listed(tool) == tool \in DOMAIN allowlist.allowed_tools
Permission(tool) == allowlist.allowed_tools[tool]

allows_method(p, method) == "*" \in p.methods \/ method \in p.methods

\* The denied tools come first, whatever the policy.
is_allowed(tool, method) ==
  /\ tool \notin allowlist.denied_tools
  /\ allowlist.policy = "deny" =>
       Listed(tool) /\ allows_method(Permission(tool), method)

\* parse_rate_limit: an unknown period is a minute, a malformed limit raises.
Parses(tool) == Permission(tool).rate_limit.period # "malformed"
Limit(tool) == Permission(tool).rate_limit.count
Window(tool) ==
  LET period == Permission(tool).rate_limit.period
  IN IF period \in DOMAIN Seconds THEN Seconds[period] ELSE Seconds["min"]

\* (variant) a request is forgotten one unit too early
RecentEarly(tool, method) == {g \in requests[tool, method] : g.time + Window(tool) > clock + 1}

\* What is left of a key's list once the times at or before the cutoff are
\* dropped.  An entry carries its request, for equal times count separately.
Recent(tool, method) == {g \in requests[tool, method] : g.time + Window(tool) > clock}

\* (variant) the comparison lets one more through
HasRoomInclusive(tool, method) == Cardinality(Recent(tool, method)) <= Limit(tool)

HasRoom(tool, method) == Cardinality(Recent(tool, method)) < Limit(tool)

\* (variant) a rejected request is recorded like an admitted one
RememberedAlways(tool, method, g) == Recent(tool, method) \cup {g}

\* What RateLimiter.is_allowed leaves in the list: a rejection adds nothing.
Remembered(tool, method, g) ==
  IF HasRoom(tool, method) THEN Recent(tool, method) \cup {g} ELSE Recent(tool, method)

\* Whether the handler gets as far as the rate limiter.
IsLimited(tool, method) == is_allowed(tool, method) /\ Listed(tool) /\ Parses(tool)

Outcome(tool, method) ==
  CASE ~is_allowed(tool, method) -> "not_in_allowlist"
    [] is_allowed(tool, method) /\ Listed(tool) /\ ~Parses(tool) -> "error"
    [] IsLimited(tool, method) /\ ~HasRoom(tool, method) -> "rate_limited"
    [] OTHER -> "success"

\* (variant) the 429 is answered before it is logged
StatusesQuiet(tool, outcome) ==
  CASE outcome = "not_in_allowlist" -> {"denied"}
    [] outcome = "error" -> {"error"}
    [] outcome = "success" /\ Listed(tool) /\ Permission(tool).audit -> {"success"}
    [] OTHER -> {}

\* (variant) the reason of a denial is logged in place of its status
StatusesReason(tool, outcome) == {outcome}

\* The audit events of a request: a success is logged where its tool asks for
\* it, anything else always.
Statuses(tool, outcome) ==
  CASE outcome \in {"not_in_allowlist", "rate_limited"} -> {"denied"}
    [] outcome = "error" -> {"error"}
    [] outcome = "success" /\ Listed(tool) /\ Permission(tool).audit -> {"success"}
    [] OTHER -> {}

\* POST /invoke.
invoke_tool(tool, method) ==
  /\ Cardinality(served) < MAX_REQUESTS
  /\ LET outcome == Outcome(tool, method)
         id == Cardinality(served) + 1
         g == [id |-> id, tool |-> tool, method |-> method, outcome |-> outcome,
               time |-> clock, at |-> now, life |-> life]
     IN /\ served' = served \cup {g}
        /\ audit' = audit \cup {[id |-> id, status |-> s] : s \in Statuses(tool, outcome)}
        /\ requests' = IF IsLimited(tool, method)
                       THEN [requests EXCEPT ![<<tool, method>>] = Remembered(tool, method, g)]
                       ELSE requests
  /\ UNCHANGED <<now, clock, settings, trusted, allowlist, life>>

Tick ==
  /\ now < MAX_TIME
  /\ now' = now + 1
  /\ clock' = clock + 1
  /\ UNCHANGED <<settings, trusted, allowlist, requests, life, served, audit>>

\* Somebody sets the clock.
set_clock(t) ==
  /\ settings < MAX_SETTINGS /\ t # clock
  /\ settings' = settings + 1
  /\ clock' = t
  /\ trusted' = IF t > clock THEN Cardinality(served) ELSE trusted
  /\ UNCHANGED <<now, allowlist, requests, life, served, audit>>

\* The process is restarted, perhaps on an edited configuration.
lifespan ==
  /\ life < MAX_RESTARTS
  /\ life' = life + 1
  /\ allowlist' \in Configs
  /\ requests' = [k \in Keys |-> {}]
  /\ UNCHANGED <<now, clock, settings, trusted, served, audit>>

Next ==
  \/ \E tool \in Tools, method \in Methods : invoke_tool(tool, method)
  \/ Tick
  \/ \E t \in Settings : set_clock(t)
  \/ lifespan

Spec == Init /\ [][Next]_vars
-----------------------------------------------------------------------------
TypeOK ==
  /\ now \in Nat /\ clock \in Nat /\ settings \in Nat /\ trusted \in Nat
  /\ allowlist \in Configs
  /\ requests \in [Keys -> SUBSET Served]
  /\ life \in Nat
  /\ served \subseteq Served
  /\ audit \subseteq AuditEvents

\* The requests of this process that were forwarded for a tool and method.
Admitted(tool, method) ==
  {g \in served : /\ g.life = life /\ g.outcome = "success"
                  /\ g.tool = tool /\ g.method = method}

\* In no window of the configured length, wherever it ends, did this process
\* forward more requests for one tool and method than the limit allows, as time
\* really passes and however often the clock was set back; setting it forward makes
\* the limiter forget, and the count starts anew.
WindowBound ==
  \A tool \in DOMAIN allowlist.allowed_tools, method \in Methods :
    Parses(tool) =>
      \A t \in 0..now :
        Cardinality({g \in Admitted(tool, method) :
                       g.id > trusted /\ g.at <= t /\ t < g.at + Window(tool)}) <= Limit(tool)

\* A request is rejected with 429 only where the window before it, by the clock that
\* the callers see too, is full of forwarded ones: rejections, other keys and expired
\* requests never count, so a caller that keeps retrying is not locked out by its own
\* retries.
RejectionJustified ==
  \A s \in served : s.life = life /\ s.outcome = "rate_limited" =>
    Cardinality({g \in Admitted(s.tool, s.method) :
                   g.id < s.id /\ s.time < g.time + Window(s.tool)}) >= Limit(s.tool)

\* The log accounts for every request that was not forwarded, by one event with
\* the right status, for every forwarded one whose tool is audited, and for no
\* request twice, across restarts.
AuditTrail ==
  /\ \A s \in served :
       /\ s.outcome \in {"not_in_allowlist", "rate_limited"} => [id |-> s.id, status |-> "denied"] \in audit
       /\ s.outcome = "error" => [id |-> s.id, status |-> "error"] \in audit
       /\ s.outcome = "success" /\ s.life = life =>
            (\E a \in audit : a.id = s.id) <=> (Listed(s.tool) /\ Permission(s.tool).audit)
  /\ \A a, b \in audit : a.id = b.id => a = b
  /\ \A a \in audit : \E s \in served : a.id = s.id
-----------------------------------------------------------------------------
(* Why it holds: the inductive invariant of McpGatewayProofs. *)

\* Requests are numbered in order, and none is of a later time or process.
HistoryInv ==
  /\ IsFiniteSet(served)
  /\ \A s \in served : s.id <= Cardinality(served) /\ s.at <= now /\ s.life <= life

\* Since the clock was last set forward it has not gone faster than time.
ClockInv == \A s \in served : s.id > trusted => clock + s.at <= s.time + now

\* The limiter remembers every forwarded request that still counts, and only
\* forwarded requests of its key.
LimiterInv ==
  \A tool \in Tools, method \in Methods :
    /\ requests[tool, method] \subseteq Admitted(tool, method)
    /\ Listed(tool) /\ Parses(tool) =>
         \A g \in Admitted(tool, method) :
           g.id > trusted /\ now < g.at + Window(tool) => g \in requests[tool, method]

\* Whoever was rejected or forwarded under a limit is a listed tool.
RejectedInv ==
  \A s \in served : s.life = life /\ s.outcome = "rate_limited" => Listed(s.tool) /\ Parses(s.tool)

IInv ==
  /\ TypeOK /\ HistoryInv /\ ClockInv /\ LimiterInv /\ RejectedInv
  /\ WindowBound /\ RejectionJustified /\ AuditTrail
=============================================================================
