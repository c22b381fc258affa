----------------------------- MODULE MCAnalysis -----------------------------
(* Small instances of what analysts, reviewers and agents work with:       *)
(* queries, classified fields, snapshot views, templates, behaviour        *)
(* analytics and its rules, and the gateway of agents.  The variable part  *)
(* says which is explored.                                                 *)
EXTENDS TLC, MCInProcessQuery, DataPolicies, SnapshotView, AnalysisTemplates, UebaStream, UebaRules,
        McpGateway

CONSTANTS e1, e2, r1, r2, c1, c2, h1, h2, u1, u2

VARIABLE part

vars == <<queryVars, policyVars, viewVars, templateVars, uebaVars, rulesVars, mcpVars, part>>

----
(* Classification: one book of rules detects mail, one shows what it calls  *)
(* sensitive.                                                              *)

Internal == [matches |-> {"staff"}, level |-> 2, mask |-> "none", detects |-> FALSE]
Mail == [matches |-> {"mail"}, level |-> 4, mask |-> "email", detects |-> TRUE]
Open == [matches |-> {"staff"}, level |-> 4, mask |-> "none", detects |-> FALSE]
MCBooks == <<<<Mail, Internal>>, <<Open>>>>
MCFound == {[f \in PolicyFields |-> <<>>],
            [f \in PolicyFields |-> IF f = "mail" THEN <<"email">> ELSE <<"phone">>]}

Detected == {d \in Detections : detection[d].pc # "idle"}

\* Equal reviewers, calls and editors are taken in order.
PoliciesStep ==
  /\ PoliciesNext
  /\ reviews' + Cardinality(Detected') + policyFaults' <= 4
  /\ detection'[2].pc # "idle" => detection[1].pc # "idle"
  /\ review[r2].pc = "idle" /\ review'[r2].pc # "idle" => review[r1].pc # "idle"

----
(* Views: a@x, ab@x and @x; two numbers of seven digits and one of two. *)

MCRows == <<[mail |-> <<20, 2, 29>>, tel |-> <<11, 12, 13, 14, 15, 16, 17>>],
            [mail |-> <<20, 21, 2, 29>>, tel |-> <<11, 12, 13, 15, 15, 16, 17>>],
            [mail |-> <<2, 29>>, tel |-> <<11, 12>>]>>
MCFields == <<"mail", "tel">>
MCFallback == [mail |-> "email", tel |-> "none"]
MCStored == {<<>>, [tel |-> "phone"], [mail |-> "none", tel |-> "full"]}
MCGrants == {{}, {"mail"}, {"mail", "tel"}}

----
(* Templates. *)

TemplatesStep ==
  /\ TemplatesNext
  /\ h2 \in DOMAIN handler' \ DOMAIN handler => h1 \in DOMAIN handler

----
(* Behaviour: a user about to query too often, or to export too much. *)

MCTenantOf == u1 :> "t1" @@ u2 :> "t2"

Event(u, kind, p) == [user |-> u, kind |-> kind, project |-> p]

MCEarlier == {<<Event(u1, "query", "p1"), Event(u1, "query", "p1"), Event(u1, "query", "p1"),
                Event(u1, "query", "p2")>>,
              <<Event(u1, "export", "p1"), Event(u1, "denied", "p1"), Event(u1, "export", "p2"),
                Event(u2, "control", "p2")>>}

NewEvents == {Event(u1, "query", "p1"), Event(u1, "denied", "p1"), Event(u1, "denied", "p2"),
              Event(u1, "export", "p1"), Event(u1, "late", "p2"), Event(u2, "dns", "p1")}

BehaviourStep ==
  /\ UebaNext
  /\ uebaFaults' + uebaRestarts' <= 1
  /\ Len(uebaEvents') > Len(uebaEvents) => uebaEvents'[Len(uebaEvents')] \in NewEvents

----
(* Rules: two rules, and users of usual and of unusual activity. *)

MCNames == <<"ExportSpike", "HighFrequencyQuery">>
MCActivities == {<<<<3>>, <<3, 5>>>>, <<<<0, 4, 4>>, <<3, 3, 3, 3>>>>}
MCDefault == <<3, 3>>

\* Requests that change no rule are explored alone, and three requests only
\* one after the other.
Reading == {"list", "replay", "propose", "calibrate"}

RulesStep ==
  /\ RulesNext
  /\ \A e, f \in Editors : e # f /\ editor'[e].op \in Reading => editor'[f].pc = "idle"
  /\ (\E e \in Editors : editor'[e].op \in {"list", "calibrate"}) => ruleRequests' = 1
  /\ disturbed' => ruleRequests' <= 2
  /\ editor[e2].pc = "idle" /\ editor'[e2].pc # "idle" => editor[e1].pc # "idle"

----
(* Agents: three registrations of one agent, whose slower bucket is the    *)
(* hour's, the minute's, and one that never fills.                         *)

MCRegistrations ==
  {[key |-> "k1", users |-> McpUsers, tools |-> McpTools, minute |-> 1, hour |-> 1],
   [key |-> "k2", users |-> McpUsers, tools |-> {"sdqp_query"}, minute |-> 1, hour |-> 3],
   [key |-> "k3", users |-> McpUsers, tools |-> McpTools, minute |-> 1, hour |-> 0]}

AtTool == {c \in McpCalls : call[c].pc \in {"tool", "query"}}

\* A tool runs as soon as its call is allowed; a grant ends beside it.  Only
\* the last call may ask for a permission.  With a third call, time passes
\* between calls.
AgentsStep ==
  /\ McpNext
  /\ AtTool # {} => (\E c \in AtTool : call'[c] # call[c]) \/ mcpGrants' # mcpGrants
  /\ mcpGrants' # mcpGrants => AtTool # {} \/ mcpCalls = 0
  /\ mcpClock' # mcpClock /\ mcpCalls > 2 => \A c \in McpCalls : call[c].pc = "idle"
  /\ agents' # agents => \A c \in McpCalls : call[c].pc = "idle"
  /\ mcpCalls' < MaxMcpCalls => \A c \in McpCalls :
       call[c].pc = "idle" /\ call'[c].pc = "minute" => call'[c].line[2] = "sdqp_query"
  /\ call[c2].pc = "idle" /\ call'[c2].pc # "idle" => call[c1].pc # "idle"

----

\* What is not explored starts in one way.
MCInit ==
  /\ part \in {"queries", "policies", "views", "templates", "behaviour", "rules", "agents"}
  /\ InProcInit /\ (part # "queries" => withDatabase)
  /\ PoliciesInit
  /\ ViewInit /\ (part # "views" => fieldGrant = {} /\ storedMask = <<>>)
  /\ TemplatesInit
  /\ UebaInit /\ (part # "behaviour" => uebaMode = "stream" /\ uebaEvents[1].kind = "query")
  /\ RulesInit /\ (part # "rules" => rulesMode = "memory" /\ Len(activity[1]) = 1)
  /\ McpInit /\ (part # "agents" => \A a \in Agents : agents[a].key = "k1")

MCNext ==
  /\ \/ /\ part = "queries" /\ InProcStep
        /\ UNCHANGED <<policyVars, viewVars, templateVars, uebaVars, rulesVars, mcpVars>>
     \/ /\ part = "policies" /\ PoliciesStep
        /\ UNCHANGED <<queryVars, viewVars, templateVars, uebaVars, rulesVars, mcpVars>>
     \/ /\ part = "views" /\ ViewNext
        /\ UNCHANGED <<queryVars, policyVars, templateVars, uebaVars, rulesVars, mcpVars>>
     \/ /\ part = "templates" /\ TemplatesStep
        /\ UNCHANGED <<queryVars, policyVars, viewVars, uebaVars, rulesVars, mcpVars>>
     \/ /\ part = "behaviour" /\ BehaviourStep
        /\ UNCHANGED <<queryVars, policyVars, viewVars, templateVars, rulesVars, mcpVars>>
     \/ /\ part = "rules" /\ RulesStep
        /\ UNCHANGED <<queryVars, policyVars, viewVars, templateVars, uebaVars, mcpVars>>
     \/ /\ part = "agents" /\ AgentsStep
        /\ UNCHANGED <<queryVars, policyVars, viewVars, templateVars, uebaVars, rulesVars>>
  /\ part' = part

MCSpec == MCInit /\ [][MCNext]_vars
=============================================================================
