----------------------------- MODULE McpGateway -----------------------------
(***************************************************************************)
(* crates/sdqp-mcp-gateway: AI agents call tools on behalf of users.  A    *)
(* call is authenticated, charged to the two token buckets of its agent    *)
(* and tool, and runs the tool, in the order of the crate's tests.  Each   *)
(* bucket is charged under a lock of its own, so calls interleave between  *)
(* them; agents may be registered anew at any time.                        *)
(*                                                                         *)
(* Time passes in ticks.  What a bucket holds is counted in parts: a token *)
(* is as many parts as its period has ticks, and a tick refills as many    *)
(* parts as the bucket holds tokens.                                       *)
(***************************************************************************)
EXTENDS Integers, FiniteSets

CONSTANTS
  Agents,          \* agent ids
  McpUsers,        \* users agents act for
  Registrations,   \* what an agent may be registered with:
                   \* [key, users, tools, minute, hour], the last two limits
  MinuteTicks,     \* ticks of the shorter period
  HourTicks,       \* ticks of the longer period
  McpCalls,        \* calls that may be in progress at a time
  MaxMcpCalls,     \* bound: calls
  MaxMcpTicks,     \* bound: time
  MaxRegistrations \* bound: registrations

McpTools == {"sdqp_query", "sdqp_request_permission"}

\* What the limiter keeps its buckets for.
Lines == Agents \X McpTools

\* Limits are unsigned and may be 0; either bucket may be the slower one.
ASSUME McpGatewayAssumption ==
  /\ MinuteTicks \in Nat \ {0} /\ HourTicks \in Nat \ {0}
  /\ \A x \in Registrations : x.minute \in Nat /\ x.hour \in Nat

VARIABLES
  agents,        \* AgentRegistry, by agent
  minutes, hours,\* InMemoryRateLimiter: the buckets, by line
  call,          \* calls in progress
  mcpClock, mcpCalls, registered,
  mcpGrants,     \* users who hold an active grant
  applications,  \* permission applications, by user
  permitted,     \* history: calls allowed, by line
  told,          \* history: the last refusal on a line no other call of
                 \* which was under way: when, and the delay suggested
  misled         \* history: how long agents had waited, alone, when they
                 \* were refused again, and the delay suggested before

mcpVars == <<agents, minutes, hours, call, mcpClock, mcpCalls, registered, mcpGrants, applications,
             permitted, told, misled>>

Bucket(limit, period) ==
  [limit |-> limit, period |-> period, parts |-> limit * period, at |-> mcpClock, born |-> mcpClock]

NotTold == [at |-> 0, delay |-> 0]

NoCall == [pc |-> "idle"]

McpTypeOK ==
  /\ DOMAIN minutes \subseteq Lines /\ DOMAIN hours \subseteq Lines
  /\ \A b \in {minutes[a] : a \in DOMAIN minutes} \union {hours[a] : a \in DOMAIN hours} :
       b.parts \in 0 .. b.limit * b.period
  /\ \A c \in McpCalls : call[c].pc \in {"idle", "minute", "hour", "tool", "query"}
  /\ \A l \in Lines : told[l].at \in 0..mcpClock

McpInit ==
  /\ agents \in [Agents -> Registrations]
  /\ minutes = <<>> /\ hours = <<>>
  /\ call = [c \in McpCalls |-> NoCall]
  /\ mcpClock = 1 /\ mcpCalls = 0 /\ registered = 0
  /\ mcpGrants = McpUsers /\ applications = [u \in McpUsers |-> 0]
  /\ permitted = [l \in Lines |-> 0]
  /\ told = [l \in Lines |-> NotTold] /\ misled = {}

----
(* rate_limit.rs. *)

\* TokenBucket::consume refills first.
Refilled(b) ==
  LET parts == b.parts + b.limit * (mcpClock - b.at)
  IN  [b EXCEPT !.parts = IF parts < b.limit * b.period THEN parts ELSE b.limit * b.period,
                !.at = mcpClock]

Allowed(b) == Refilled(b).parts >= b.period

Consumed(b) == IF Allowed(b) THEN [Refilled(b) EXCEPT !.parts = @ - b.period] ELSE Refilled(b)

\* The delay until a token is full, in whole ticks; an hour if none ever is.
RetryAfter(b) ==
  IF Allowed(b) THEN 0
  ELSE IF b.limit = 0 THEN HourTicks
  ELSE (b.period - Refilled(b).parts + b.limit - 1) \div b.limit

\* consume_bucket: a bucket is created at its first use and keeps its limits.
BucketOf(buckets, l, limit, period) ==
  IF l \in DOMAIN buckets THEN buckets[l] ELSE Bucket(limit, period)

PutBucket(buckets, l, b) == [k \in DOMAIN buckets \union {l} |-> IF k = l THEN b ELSE buckets[k]]

----
(* Calls. *)

\* McpAuthenticator::authenticate; the principal is a copy.
Authenticate(c, a, u, key, tool) ==
  /\ call[c].pc = "idle" /\ mcpCalls < MaxMcpCalls /\ mcpCalls' = mcpCalls + 1
  /\ key = agents[a].key /\ u \in agents[a].users
  /\ call' = [call EXCEPT ![c] = [pc |-> "minute", line |-> <<a, tool>>, user |-> u, tools |-> agents[a].tools,
                                  minute |-> agents[a].minute, hour |-> agents[a].hour,
                                  allowed |-> FALSE, wait |-> 0, waited |-> 0]]
  /\ UNCHANGED <<agents, minutes, hours, mcpClock, registered, mcpGrants, applications,
                 permitted, told, misled>>

\* Other calls of the agent to the tool between authentication and decision.
Rivals(c) == {d \in McpCalls \ {c} : /\ call[d].pc \in {"minute", "hour"}
                                      /\ call[d].line = call[c].line}

ConsumeMinute(c) ==
  LET l == call[c].line
      b == BucketOf(minutes, l, call[c].minute, MinuteTicks)
  IN  /\ call[c].pc = "minute"
      /\ minutes' = PutBucket(minutes, l, Consumed(b))
      /\ call' = [call EXCEPT ![c].pc = "hour", ![c].allowed = Allowed(b), ![c].wait = RetryAfter(b),
           ![c].waited = IF told[l].at # 0 /\ Rivals(c) = {} THEN mcpClock - told[l].at ELSE 0]
      /\ UNCHANGED <<agents, hours, mcpClock, mcpCalls, registered, mcpGrants, applications,
                     permitted, told, misled>>

\* Mutant: one of the two buckets is enough.
BothAllow_Either(minute, hour) == minute \/ hour

BothAllow(minute, hour) == minute /\ hour

LongerDelay(x, y) == IF x < y THEN y ELSE x

\* The second bucket is charged whatever the first one said, and the first
\* one stays charged when the second refuses.
ConsumeHour(c) ==
  LET l == call[c].line
      b == BucketOf(hours, l, call[c].hour, HourTicks)
      ok == BothAllow(call[c].allowed, Allowed(b))
  IN  /\ call[c].pc = "hour"
      /\ hours' = PutBucket(hours, l, Consumed(b))
      /\ call' = [call EXCEPT ![c] = IF ok THEN [@ EXCEPT !.pc = "tool"] ELSE NoCall]
      /\ permitted' = [permitted EXCEPT ![l] = @ + (IF ok THEN 1 ELSE 0)]
      /\ told' = [told EXCEPT ![l] = IF ok \/ Rivals(c) # {} THEN NotTold
           ELSE [at |-> mcpClock, delay |-> LongerDelay(call[c].wait, RetryAfter(b))]]
      /\ misled' = IF ~ok /\ call[c].waited > 0 /\ told[l].at # 0 /\ Rivals(c) = {}
                   THEN misled \union {[line |-> l, waited |-> call[c].waited, delay |-> told[l].delay]}
                   ELSE misled
      /\ UNCHANGED <<agents, minutes, mcpClock, mcpCalls, registered, mcpGrants, applications>>

\* sdqp_query up to the executor's await; or the tool refuses.
QueryTool(c) ==
  /\ call[c].pc = "tool" /\ call[c].line[2] = "sdqp_query"
  /\ IF "sdqp_query" \in call[c].tools /\ call[c].user \in mcpGrants
     THEN call' = [call EXCEPT ![c].pc = "query"]
     ELSE call' = [call EXCEPT ![c] = NoCall]
  /\ UNCHANGED <<agents, minutes, hours, mcpClock, mcpCalls, registered, mcpGrants, applications,
                 permitted, told, misled>>

\* The result, with a watermark that names agent and user; or an error.
AnswerQuery(c) ==
  /\ call[c].pc = "query"
  /\ call' = [call EXCEPT ![c] = NoCall]
  /\ UNCHANGED <<agents, minutes, hours, mcpClock, mcpCalls, registered, mcpGrants, applications,
                 permitted, told, misled>>

\* sdqp_request_permission; the other two tools only read.
RequestPermission(c) ==
  /\ call[c].pc = "tool" /\ call[c].line[2] = "sdqp_request_permission"
  /\ applications' = [applications EXCEPT ![call[c].user] =
       IF "sdqp_request_permission" \in call[c].tools THEN @ + 1 ELSE @]
  /\ call' = [call EXCEPT ![c] = NoCall]
  /\ UNCHANGED <<agents, minutes, hours, mcpClock, mcpCalls, registered, mcpGrants,
                 permitted, told, misled>>

----
(* Around the calls. *)

\* AgentRegistry::register replaces the registration.
Register(a, x) ==
  /\ registered < MaxRegistrations /\ registered' = registered + 1 /\ x # agents[a]
  /\ agents' = [agents EXCEPT ![a] = x]
  /\ UNCHANGED <<minutes, hours, call, mcpClock, mcpCalls, mcpGrants, applications, permitted,
                 told, misled>>

McpTick ==
  /\ mcpClock < MaxMcpTicks /\ mcpClock' = mcpClock + 1
  /\ UNCHANGED <<agents, minutes, hours, call, mcpCalls, registered, mcpGrants, applications,
                 permitted, told, misled>>

\* A user's grant is revoked.
GrantEnds(u) ==
  /\ u \in mcpGrants /\ mcpGrants' = mcpGrants \ {u}
  /\ UNCHANGED <<agents, minutes, hours, call, mcpClock, mcpCalls, registered, applications,
                 permitted, told, misled>>

McpNext ==
  \/ \E c \in McpCalls :
       \/ \E a \in Agents, u \in McpUsers, x \in Registrations, tool \in McpTools :
            Authenticate(c, a, u, x.key, tool)
       \/ ConsumeMinute(c) \/ ConsumeHour(c)
       \/ QueryTool(c) \/ AnswerQuery(c) \/ RequestPermission(c)
  \/ \E a \in Agents, x \in Registrations : Register(a, x)
  \/ McpTick
  \/ \E u \in McpUsers : GrantEnds(u)

McpSpec == McpInit /\ [][McpNext]_mcpVars

----
(* Properties. *)

\* Whatever the interleaving, an agent is never served more calls of a tool
\* than one full bucket and what has been refilled since, for both periods,
\* and being registered anew does not give it a second allowance
\* (InMemoryRateLimiter::check, consume_bucket).
WithinRate ==
  \A l \in Lines : permitted[l] > 0 =>
    /\ l \in DOMAIN minutes /\ l \in DOMAIN hours
    /\ \A b \in {minutes[l], hours[l]} :
         permitted[l] * b.period <= b.limit * (b.period + mcpClock - b.born)

\* An agent that is refused and leaves it alone for as long as the slower
\* bucket takes to fill a token is served, although refused calls are charged
\* to a bucket that would have allowed them and another registration may
\* have come (TokenBucket::consume).
TokenTimeSuffices ==
  \A x \in misled :
    \/ x.waited * minutes[x.line].limit < MinuteTicks
    \/ x.waited * hours[x.line].limit < HourTicks

\* The delay suggested to a refused agent is long enough
\* (rate_limit.rs:42 "Suggested retry delay when denied").
RetryAfterSuffices == \A x \in misled : x.waited < x.delay

\* The limits of an agent hold, and the time in which a token is refilled is
\* enough for an agent that calls alone (InMemoryRateLimiter::check).
RateHolds == McpTypeOK /\ WithinRate /\ TokenTimeSuffices
=============================================================================
