-------------------------- MODULE AnalysisTemplates --------------------------
(***************************************************************************)
(* Saved analyses of one project: the analysis template handlers of        *)
(* phase4.rs over state.analysis_templates and the analysis_templates      *)
(* table.  A handler copies the template, changes the copy, saves it as a  *)
(* row and only then puts it into memory; nothing orders two handlers.     *)
(***************************************************************************)
EXTENDS Naturals, FiniteSets, Functions

CONSTANTS
  Templates,            \* template ids
  Authors,              \* users of the project
  TemplateFields,       \* columns an analysis may refer to
  TemplateRequests,     \* handlers that may run at a time
  MaxTemplateCalls,     \* bound: requests
  MaxTemplateFaults,    \* bound: failed statements
  MaxTemplateRestarts,  \* bound: restarts of the API
  MaxTemplateGrants     \* bound: changes of grants

ASSUME AnalysisTemplatesAssumption ==
  /\ MaxTemplateCalls \in Nat /\ MaxTemplateFaults \in Nat
  /\ MaxTemplateRestarts \in Nat /\ MaxTemplateGrants \in Nat

VARIABLES
  templates,       \* state.analysis_templates, by id
  templateRows,    \* analysis_templates, by id
  handler,         \* handlers between their copy and the end
  authorGrant,     \* for each author, the columns the merged grant allows
  templateCalls, templateFaults, templateRestarts, templateGrants,
  asked,           \* history: what the owner last had saved for a template
  contended        \* history: templates that two handlers changed at a time

templateVars == <<templates, templateRows, handler, authorGrant, templateCalls, templateFaults,
                  templateRestarts, templateGrants, asked, contended>>

Template == [owner : Authors, fields : SUBSET TemplateFields,
             visibility : {"private", "published"}]

\* What a handler holds: the template it saves, or that it deletes.
Handling == [pc : {"save", "memory"}, op : {"create", "update", "publish", "unpublish", "delete"},
             id : Templates, copy : Template]

TemplatesTypeOK ==
  /\ DOMAIN templates \subseteq Templates /\ \A t \in DOMAIN templates : templates[t] \in Template
  /\ DOMAIN templateRows \subseteq Templates /\ \A t \in DOMAIN templateRows : templateRows[t] \in Template
  /\ DOMAIN handler \subseteq TemplateRequests
  /\ \A h \in DOMAIN handler : handler[h] \in Handling
  /\ \A t \in DOMAIN templates \union DOMAIN templateRows : asked[t] # "none"

TemplatesInit ==
  /\ templates = <<>> /\ templateRows = <<>> /\ handler = <<>>
  /\ authorGrant \in [Authors -> {TemplateFields}]
  /\ templateCalls = 0 /\ templateFaults = 0 /\ templateRestarts = 0 /\ templateGrants = 0
  /\ asked = [t \in Templates |-> "none"] /\ contended = {}

\* A map after an insert.
Inserted(map, key, entry) ==
  [k \in DOMAIN map \union {key} |-> IF k = key THEN entry ELSE map[k]]

\* The handlers at work on a template.
Busy(t) == {h \in DOMAIN handler : handler[h].id = t}

Handle(h, op, t, copy) ==
  /\ h \notin DOMAIN handler /\ templateCalls < MaxTemplateCalls
  /\ templateCalls' = templateCalls + 1
  /\ handler' = Inserted(handler, h, [pc |-> "save", op |-> op, id |-> t, copy |-> copy])
  /\ contended' = IF Busy(t) # {} THEN contended \union {t} ELSE contended
  /\ UNCHANGED <<templates, templateRows, authorGrant, templateFaults, templateRestarts,
                 templateGrants, asked>>

\* load_active_grant and authorize_fields.
MayUse(u, fields) == fields # {} /\ fields \subseteq authorGrant[u]

\* load_owned_analysis_template: only the owner gets past it, and only what
\* is in memory counts.
Owns(u, t) == t \in DOMAIN templates /\ templates[t].owner = u

\* An id is new: ULIDs do not repeat.
UnusedId(t) == t \notin DOMAIN templates \union DOMAIN templateRows /\ Busy(t) = {} /\ asked[t] = "none"

CreateTemplate(h, u, t, fields) ==
  /\ UnusedId(t) /\ MayUse(u, fields)
  /\ Handle(h, "create", t, [owner |-> u, fields |-> fields, visibility |-> "private"])

\* Mutant: an edited template is private again.
UpdateTemplate_Private(h, u, t, fields) ==
  /\ Owns(u, t) /\ MayUse(u, fields)
  /\ Handle(h, "update", t, [templates[t] EXCEPT !.fields = fields, !.visibility = "private"])

UpdateTemplate(h, u, t, fields) ==
  /\ Owns(u, t) /\ MayUse(u, fields)
  /\ Handle(h, "update", t, [templates[t] EXCEPT !.fields = fields])

PublishTemplate(h, u, t) ==
  Owns(u, t) /\ Handle(h, "publish", t, [templates[t] EXCEPT !.visibility = "published"])

UnpublishTemplate(h, u, t) ==
  Owns(u, t) /\ Handle(h, "unpublish", t, [templates[t] EXCEPT !.visibility = "private"])

DeleteTemplate(h, u, t) == Owns(u, t) /\ Handle(h, "delete", t, templates[t])

\* A map with the handler's template put in or taken out.
Applied(map, x) ==
  IF x.op = "delete" THEN Restrict(map, DOMAIN map \ {x.id}) ELSE Inserted(map, x.id, x.copy)

\* What the owner asks for with a request.
Wish(x) == CASE x.op = "publish" -> "published"
             [] x.op \in {"create", "unpublish"} -> "private"
             [] x.op = "delete" -> "gone"
             [] x.op = "update" -> asked[x.id]

Leave(h) == handler' = Restrict(handler, DOMAIN handler \ {h})

\* save_analysis_template or delete_analysis_template; an error answers the
\* request and leaves memory alone.
SaveTemplate(h) ==
  LET x == handler[h]
  IN  /\ h \in DOMAIN handler /\ x.pc = "save"
      /\ \/ /\ templateRows' = Applied(templateRows, x)
            /\ handler' = [handler EXCEPT ![h].pc = "memory"]
            /\ asked' = [asked EXCEPT ![x.id] = Wish(x)]
            /\ UNCHANGED templateFaults
         \/ /\ templateFaults < MaxTemplateFaults /\ templateFaults' = templateFaults + 1
            /\ Leave(h) /\ UNCHANGED <<templateRows, asked>>
      /\ UNCHANGED <<templates, authorGrant, templateCalls, templateRestarts, templateGrants, contended>>

\* The map in memory follows.
StoreTemplate(h) ==
  /\ h \in DOMAIN handler /\ handler[h].pc = "memory"
  /\ templates' = Applied(templates, handler[h]) /\ Leave(h)
  /\ UNCHANGED <<templateRows, authorGrant, templateCalls, templateFaults, templateRestarts,
                 templateGrants, asked, contended>>

\* load_analysis_templates.
LoadTemplates == templateRows

RestartTemplates ==
  /\ templateRestarts < MaxTemplateRestarts /\ templateRestarts' = templateRestarts + 1
  /\ templates' = LoadTemplates /\ handler' = <<>>
  /\ UNCHANGED <<templateRows, authorGrant, templateCalls, templateFaults, templateGrants, asked,
                 contended>>

\* Grants come and go elsewhere.
GrantMoves(u, fields) ==
  /\ templateGrants < MaxTemplateGrants /\ fields # authorGrant[u]
  /\ templateGrants' = templateGrants + 1 /\ authorGrant' = [authorGrant EXCEPT ![u] = fields]
  /\ UNCHANGED <<templates, templateRows, handler, templateCalls, templateFaults, templateRestarts,
                 asked, contended>>

TemplatesNext ==
  \/ \E h \in TemplateRequests, u \in Authors, t \in Templates :
       \/ \E fields \in SUBSET TemplateFields :
            CreateTemplate(h, u, t, fields) \/ UpdateTemplate(h, u, t, fields)
       \/ PublishTemplate(h, u, t) \/ UnpublishTemplate(h, u, t) \/ DeleteTemplate(h, u, t)
  \/ \E h \in TemplateRequests : SaveTemplate(h) \/ StoreTemplate(h)
  \/ RestartTemplates
  \/ \E u \in Authors, fields \in SUBSET TemplateFields : GrantMoves(u, fields)

TemplatesSpec == TemplatesInit /\ [][TemplatesNext]_templateVars

----
(* Properties. *)

\* What a user may open (load_accessible_analysis_template).
Visible(u) == {t \in DOMAIN templates : templates[t].owner = u \/ templates[t].visibility = "published"}

\* Once its handlers are through, a template is the same in memory and in
\* its row, through failed saves and restarts, unless two handlers changed
\* it at a time: those may save in one order and store in the other.
TemplatesAgree ==
  \A t \in Templates \ contended : Busy(t) = {} =>
    /\ t \in DOMAIN templates <=> t \in DOMAIN templateRows
    /\ t \in DOMAIN templates => templates[t] = templateRows[t]

\* Others see a template exactly when its owner last had it published: an
\* edit does not publish it or take it back, a template deleted or unpublished
\* does not return with a restart; unless two handlers changed it at a time,
\* when the copy of one undoes the other.
OwnersWishHolds ==
  \A t \in Templates \ contended, u \in Authors :
    Busy(t) = {} /\ t \in DOMAIN templates /\ templates[t].owner # u =>
      (t \in Visible(u) <=> asked[t] = "published")

\* A template is in memory what it is in its row, and others see it when its
\* owner last had it published, as long as its handlers do not overlap.
TemplatesHold == TemplatesTypeOK /\ TemplatesAgree /\ OwnersWishHolds
=============================================================================
