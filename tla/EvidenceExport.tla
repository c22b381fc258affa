--------------------------- MODULE EvidenceExport ---------------------------
(***************************************************************************)
(* Evidence packages and their download: phase5.rs of apps/sdqp-api over   *)
(* the crate sdqp-evidence.  An export collects the audit events of a      *)
(* project, builds a package, has it time-stamped and anchored, and keeps  *)
(* a task for it in memory and in Postgres.  A pending anchor is refreshed *)
(* on request.  A completed task can be authorised for download: the token *)
(* is kept in memory and in Postgres until a download consumes it.         *)
(*                                                                         *)
(* A digest is modelled by the value it is computed from, an audit event   *)
(* by its position in the ledger.  Every await of a handler ends a step.   *)
(***************************************************************************)
EXTENDS Integers, Sequences, FiniteSets

CONSTANTS
  ExportCalls,        \* requests in flight at the same time
  ExportUsers,
  ExportProjects,
  NoProject,          \* the project of an event that names none
  NoExport,           \* what a map, a table or a field without an entry holds
  ExportTaskIds,
  DownloadTokens,
  TsaProvider,        \* EvidenceConfig: "mock", "internal-hsm", "rfc3161"
  AnchorProvider,     \* EvidenceConfig: "mock", "ethereum"
  MaxLedger,          \* bound: audit events
  MaxExportFaults,    \* bound: failed statements
  MaxExportRestarts   \* bound: restarts

Certificates == [extract : SUBSET Nat, document : Nat]

HashChains == [extract : SUBSET Nat, certificate : Certificates, document : Nat]

AnchorReceiptSet ==
  [digest : HashChains, status : {"pending", "confirmed", "failed"}, proof : BOOLEAN]

Packages ==
  [events : SUBSET Nat, certificate : Certificates, chain : HashChains,
   stamp : [digest : HashChains, provider : {TsaProvider}], anchor : AnchorReceiptSet,
   manifest : [events : SUBSET Nat, certificate : Certificates, chain : HashChains,
               anchor : AnchorReceiptSet,
               status : {"pending_anchor", "verified", "failed_anchor"}]]

ExportTaskRecords ==
  [user : ExportUsers, project : ExportProjects, package : Packages,
   status : {"completed", "failed", "pending_anchor", "failed_anchor"}, verified : BOOLEAN]

DownloadAuthorizations ==
  [task : ExportTaskIds, user : ExportUsers, project : ExportProjects, consumed : BOOLEAN]

ASSUME ExportAssumption ==
  /\ NoProject \notin ExportProjects
  /\ TsaProvider \in {"mock", "internal-hsm", "rfc3161"}
  /\ AnchorProvider \in {"mock", "ethereum"}
  /\ MaxLedger \in Nat /\ MaxExportFaults \in Nat /\ MaxExportRestarts \in Nat
  /\ NoExport \notin ExportTaskIds \cup DownloadTokens
  /\ NoExport \notin Packages /\ NoExport \notin ExportTaskRecords
  /\ NoExport \notin DownloadAuthorizations

VARIABLES
  ledger,         \* the projects of the audit events, in order
  archived,       \* how many of them retention has moved to the archive
  exportTasks,    \* ApiState.export_tasks
  exportRows,     \* table export_tasks
  packageRows,    \* table evidence_packages
  tokens,         \* ApiState.download_tokens
  tokenRows,      \* table download_authorizations
  expired,        \* tokens whose time has passed
  exportCall,     \* the requests
  issued,         \* history: tokens a user was given
  certified,      \* history: tasks that were completed at some time
  served,         \* history: downloads that were answered with a package
  exportFaults,
  exportRestarts

exportVars == <<ledger, archived, exportTasks, exportRows, packageRows, tokens,
                tokenRows, expired, exportCall, issued, certified, served,
                exportFaults, exportRestarts>>

IdleCall == [at |-> "idle", op |-> "none", user |-> NoExport, project |-> NoExport,
             task |-> NoExport, token |-> NoExport, found |-> NoExport, auth |-> NoExport]

----
(* The package. *)

(* The events of the project and those that name no project, from the hot  *)
(* part of the trail.                                                      *)
ScopedEvents(p) ==
  {i \in archived + 1 .. Len(ledger) : ledger[i] \in {p, NoProject}}

(* verify_chain: each event names its predecessor in the ledger, and the   *)
(* first one names none.                                                   *)
VerifyScopedChain(events) == events = 1..Cardinality(events)

(* The certificate names the digests of the parts. *)
Certificate(events) == [extract |-> events, document |-> Cardinality(events)]

HashChain(events, certificate) ==
  [extract |-> events, certificate |-> certificate,
   document |-> Cardinality(events)]

(* The digest sent to the authority comes back in the receipt. *)
TimestampReceipt(digest) == [digest |-> digest, provider |-> TsaProvider]

StampVerifies(receipt, digest) == receipt.digest = digest

(* The mock chain confirms at once.  An external provider answers that the *)
(* receipt is pending, confirmed (with a proof that may or may not check)  *)
(* or failed; an answer for another digest or network is refused.          *)
AnchorReceipts(digest) ==
  IF AnchorProvider = "mock"
    THEN {[digest |-> digest, status |-> "confirmed", proof |-> TRUE]}
    ELSE [digest : {digest}, status : {"confirmed"}, proof : BOOLEAN]
           \cup [digest : {digest}, status : {"pending", "failed"}, proof : {FALSE}]

MockRefresh(receipt) == [receipt EXCEPT !.status = "confirmed"]

RefreshedReceipts(receipt) ==
  IF AnchorProvider = "mock" THEN {MockRefresh(receipt)}
                             ELSE AnchorReceipts(receipt.digest)

AnchorVerifies(receipt, digest) ==
  /\ receipt.digest = digest
  /\ receipt.status = "confirmed"
  /\ receipt.proof

ManifestStatus(receipt) ==
  CASE receipt.status = "pending"   -> "pending_anchor"
    [] receipt.status = "confirmed" -> "verified"
    [] receipt.status = "failed"    -> "failed_anchor"

BuildPackage(events, receipt) ==
  LET certificate == Certificate(events)
      chain       == HashChain(events, certificate)
  IN [events |-> events, certificate |-> certificate, chain |-> chain,
      stamp |-> TimestampReceipt(chain), anchor |-> receipt,
      manifest |-> [events |-> events, certificate |-> certificate,
                    chain |-> chain, anchor |-> receipt,
                    status |-> ManifestStatus(receipt)]]

RefreshAnchorReceipt(package, receipt) ==
  [package EXCEPT !.anchor = receipt,
                  !.manifest.anchor = receipt,
                  !.manifest.status = ManifestStatus(receipt)]

(* The certificate and the chain are recomputed from the package, the      *)
(* audit part is compared with the events the verifier is given.           *)
IntegrityVerified(package, events) ==
  /\ VerifyScopedChain(events)
  /\ package.events = events
  /\ package.manifest.events = events
  /\ package.manifest.certificate = package.certificate
  /\ package.certificate = Certificate(package.events)
  /\ package.manifest.chain = package.chain
  /\ package.chain = HashChain(package.events, package.certificate)
  /\ package.manifest.anchor = package.anchor
  /\ package.manifest.status = ManifestStatus(package.anchor)
  /\ StampVerifies(package.stamp, package.chain)

AnchorValid(package) ==
  CASE package.anchor.status = "pending"   -> package.anchor.digest = package.chain
    [] package.anchor.status = "confirmed" -> AnchorVerifies(package.anchor, package.chain)
    [] package.anchor.status = "failed"    -> FALSE

\* Mutant: a package whose anchor is only pending passes as verified.
VerifyPackage_Pending(package, events) ==
  IF ~IntegrityVerified(package, events) THEN "invalid"
  ELSE IF AnchorValid(package) THEN "verified" ELSE "failed_anchor"

VerifyPackage(package, events) ==
  IF ~IntegrityVerified(package, events) THEN "invalid"
  ELSE IF AnchorValid(package) THEN ManifestStatus(package.anchor)
                               ELSE "failed_anchor"

ExportStatus(verification) ==
  CASE verification = "verified" -> "completed"
    [] verification = "invalid"  -> "failed"
    [] OTHER                     -> verification

ExportTask(user, project, package, verification) ==
  [user |-> user, project |-> project, package |-> package,
   status |-> ExportStatus(verification), verified |-> verification = "verified"]

SynchronizeExportTask(task, package, verification) ==
  [task EXCEPT !.package = package, !.status = ExportStatus(verification),
               !.verified = verification = "verified"]

MarkAnchorRefreshFailed(task) ==
  [task EXCEPT !.status = "failed_anchor", !.verified = FALSE]

TaskMatchesScope(task, call) == task.project = call.project

----
(* Steps the handlers share. *)

ExportInit ==
  /\ ledger = <<>>
  /\ archived = 0
  /\ exportTasks = [t \in ExportTaskIds |-> NoExport]
  /\ exportRows = [t \in ExportTaskIds |-> NoExport]
  /\ packageRows = [t \in ExportTaskIds |-> NoExport]
  /\ tokens = [k \in DownloadTokens |-> NoExport]
  /\ tokenRows = [k \in DownloadTokens |-> NoExport]
  /\ expired = {}
  /\ exportCall = [c \in ExportCalls |-> IdleCall]
  /\ issued = {} /\ certified = {} /\ served = {}
  /\ exportFaults = 0 /\ exportRestarts = 0

AppendAudit(project) ==
  /\ Len(ledger) < MaxLedger
  /\ ledger' = Append(ledger, project)

Continue(c, call) == exportCall' = [exportCall EXCEPT ![c] = call]

Finish(c) == Continue(c, IdleCall)

ExportFault ==
  /\ exportFaults < MaxExportFaults
  /\ exportFaults' = exportFaults + 1

CacheExportTask(t, task) ==
  /\ exportTasks' = [exportTasks EXCEPT ![t] = task]
  /\ certified' = IF task.status = "completed" THEN certified \cup {t} ELSE certified

CacheAuthorization(k, auth) == tokens' = [tokens EXCEPT ![k] = auth]

(* A statement that fails ends the request with an error; the memory keeps *)
(* what was cached before.                                                 *)
SaveEvidencePackage(c) ==
  /\ exportCall[c].at = "savePackage"
  /\ \/ /\ packageRows' = [packageRows EXCEPT ![exportCall[c].task] =
                             exportCall[c].found.package]
        /\ Continue(c, [exportCall[c] EXCEPT !.at = "saveTask"])
        /\ UNCHANGED exportFaults
     \/ ExportFault /\ Finish(c) /\ UNCHANGED packageRows
  /\ UNCHANGED <<ledger, archived, exportTasks, exportRows, tokens, tokenRows,
                 expired, issued, certified, served, exportRestarts>>

(* The row of a task refers to the row of its package. *)
SaveExportTask(c) ==
  LET t == exportCall[c].task IN
  /\ exportCall[c].at = "saveTask"
  /\ \/ /\ packageRows[t] # NoExport
        /\ exportRows' = [exportRows EXCEPT ![t] = exportCall[c].found]
        /\ Continue(c, [exportCall[c] EXCEPT !.at = "audit"])
        /\ UNCHANGED exportFaults
     \/ ExportFault /\ Finish(c) /\ UNCHANGED exportRows
  /\ UNCHANGED <<ledger, archived, exportTasks, packageRows, tokens, tokenRows,
                 expired, issued, certified, served, exportRestarts>>

(* The audit event of a request that succeeded; then its answer. *)
AuditAndAnswer(c) ==
  LET call == exportCall[c] IN
  /\ call.at = "audit"
  /\ AppendAudit(call.project)
  /\ Finish(c)
  /\ issued' = IF call.op = "authorize" THEN issued \cup {call.token} ELSE issued
  /\ served' = IF call.op = "download"
                 THEN served \cup {[token |-> call.token, user |-> call.user,
                                    project |-> call.project, task |-> call.task]}
                 ELSE served
  /\ UNCHANGED <<archived, exportTasks, exportRows, packageRows, tokens, tokenRows,
                 expired, certified, exportFaults, exportRestarts>>

----
(* POST /v1/exports/evidence *)

(* A project whose state does not allow exports is refused on record. *)
ExportEvidenceDenied(u, p) ==
  /\ AppendAudit(p)
  /\ UNCHANGED <<archived, exportTasks, exportRows, packageRows, tokens, tokenRows,
                 expired, exportCall, issued, certified, served, exportFaults,
                 exportRestarts>>

NewTask(t) ==
  /\ exportTasks[t] = NoExport /\ exportRows[t] = NoExport
  /\ \A c \in ExportCalls : exportCall[c].task # t

(* The audit events are read before the authority and the chain are asked. *)
ExportEvidence(c, u, p) ==
  /\ exportCall[c] = IdleCall
  /\ ScopedEvents(p) # {}
  /\ VerifyScopedChain(ScopedEvents(p))
  /\ \E t \in ExportTaskIds :
       /\ NewTask(t)
       /\ t = CHOOSE n \in ExportTaskIds : NewTask(n)
       /\ Continue(c, [IdleCall EXCEPT !.at = "certify", !.op = "export",
                         !.user = u, !.project = p, !.task = t,
                         !.found = ScopedEvents(p)])
  /\ UNCHANGED <<ledger, archived, exportTasks, exportRows, packageRows, tokens,
                 tokenRows, expired, issued, certified, served, exportFaults,
                 exportRestarts>>

(* An authority or a chain that cannot be reached, or that answers against *)
(* the protocol, fails the export before anything is kept.                 *)
CertificationFails(c) ==
  /\ exportCall[c].at = "certify"
  /\ "rfc3161" = TsaProvider \/ "ethereum" = AnchorProvider
  /\ Finish(c)
  /\ UNCHANGED <<ledger, archived, exportTasks, exportRows, packageRows, tokens,
                 tokenRows, expired, issued, certified, served, exportFaults,
                 exportRestarts>>

PackageCertified(c) ==
  LET call   == exportCall[c]
      events == call.found
  IN
  /\ call.at = "certify"
  /\ \E receipt \in AnchorReceipts(HashChain(events, Certificate(events))) :
       LET package == BuildPackage(events, receipt)
           task    == ExportTask(call.user, call.project, package,
                                 VerifyPackage(package, events))
       IN /\ CacheExportTask(call.task, task)
          /\ Continue(c, [call EXCEPT !.at = "savePackage", !.found = task])
  /\ UNCHANGED <<ledger, archived, exportRows, packageRows, tokens, tokenRows,
                 expired, issued, served, exportFaults, exportRestarts>>

----
(* Requests that name a task or a token. *)

(* What a handler does with the task it loaded, up to its next await. *)
RefreshStarts(c, call, task) ==
  /\ call.op = "refresh"
  /\ IF TaskMatchesScope(task, call) /\ task.user = call.user
       THEN Continue(c, [call EXCEPT !.at = "refresh", !.found = task]) /\ UNCHANGED ledger
       ELSE AppendAudit(call.project) /\ Finish(c)
  /\ UNCHANGED tokens

StatusRead(c, call, task) ==
  /\ call.op = "status"
  /\ AppendAudit(call.project)
  /\ Finish(c)
  /\ UNCHANGED tokens

NewToken(k) ==
  /\ tokens[k] = NoExport /\ tokenRows[k] = NoExport
  /\ \A c \in ExportCalls : exportCall[c].token # k

DownloadAuthorized(task, call) ==
  /\ TaskMatchesScope(task, call)
  /\ task.user = call.user
  /\ task.status = "completed"
  /\ task.verified

AuthorizeDownload(c, call, task) ==
  /\ call.op = "authorize"
  /\ IF DownloadAuthorized(task, call)
       THEN \E k \in {n \in DownloadTokens : NewToken(n)} :
              LET auth == [task |-> call.task, user |-> task.user,
                           project |-> task.project, consumed |-> FALSE]
              IN /\ CacheAuthorization(k, auth)
                 /\ Continue(c, [call EXCEPT !.at = "saveToken", !.token = k, !.auth = auth])
                 /\ UNCHANGED ledger
       ELSE AppendAudit(call.project) /\ Finish(c) /\ UNCHANGED tokens

(* The state of the task is not looked at again. *)
ConsumeAuthorization(c, call, task) ==
  LET auth == [call.auth EXCEPT !.consumed = TRUE] IN
  /\ call.op = "download"
  /\ CacheAuthorization(call.token, auth)
  /\ Continue(c, [call EXCEPT !.at = "consume", !.auth = auth])
  /\ UNCHANGED ledger

WithTask(c, call, task) ==
  \/ RefreshStarts(c, call, task)
  \/ StatusRead(c, call, task)
  \/ AuthorizeDownload(c, call, task)
  \/ ConsumeAuthorization(c, call, task)

(* load_export_task: the memory, else the row, which is cached whatever    *)
(* the memory holds by the time it arrives.                                *)
LoadExportTask(c, call) ==
  /\ IF exportTasks[call.task] # NoExport
       THEN WithTask(c, call, exportTasks[call.task])
       ELSE /\ IF exportRows[call.task] = NoExport THEN Finish(c)
               ELSE Continue(c, [call EXCEPT !.at = "taskRow",
                                             !.found = exportRows[call.task]])
            /\ UNCHANGED <<ledger, tokens>>

TaskRequest(c, op, u, p, t) ==
  /\ exportCall[c] = IdleCall
  /\ exportTasks[t] # NoExport \/ exportRows[t] # NoExport
  /\ LoadExportTask(c, [IdleCall EXCEPT !.op = op, !.user = u, !.project = p, !.task = t])
  /\ UNCHANGED <<archived, exportTasks, exportRows, packageRows, tokenRows, expired,
                 issued, certified, served, exportFaults, exportRestarts>>

TaskRowArrives(c) ==
  LET call == exportCall[c] IN
  /\ call.at = "taskRow"
  /\ CacheExportTask(call.task, call.found)
  /\ WithTask(c, call, call.found)
  /\ UNCHANGED <<archived, exportRows, packageRows, tokenRows, expired, issued, served,
                 exportFaults, exportRestarts>>

----
(* POST /v1/exports/tasks/{id}/refresh-anchor *)

(* Verified against the events the trail holds now. *)
AnchorRefreshed(c) ==
  LET call == exportCall[c] IN
  /\ call.at = "refresh"
  /\ \E receipt \in RefreshedReceipts(call.found.package.anchor) :
       LET package == RefreshAnchorReceipt(call.found.package, receipt)
           task    == SynchronizeExportTask(call.found, package,
                        VerifyPackage(package, ScopedEvents(call.project)))
       IN /\ CacheExportTask(call.task, task)
          /\ Continue(c, [call EXCEPT !.at = "savePackage", !.found = task])
  /\ UNCHANGED <<ledger, archived, exportRows, packageRows, tokens, tokenRows,
                 expired, issued, served, exportFaults, exportRestarts>>

(* The failed task is saved if it can be; the failure goes on record. *)
AnchorRefreshFails(c) ==
  LET call == exportCall[c]
      task == MarkAnchorRefreshFailed(call.found)
  IN
  /\ call.at = "refresh"
  /\ AnchorProvider = "ethereum"
  /\ CacheExportTask(call.task, task)
  /\ Continue(c, [call EXCEPT !.at = "saveFailed", !.found = task])
  /\ UNCHANGED <<ledger, archived, exportRows, packageRows, tokens, tokenRows,
                 expired, issued, served, exportFaults, exportRestarts>>

SaveFailedTask(c) ==
  LET call == exportCall[c] IN
  /\ call.at = "saveFailed"
  /\ Continue(c, [call EXCEPT !.at = "audit"])
  /\ \/ /\ packageRows[call.task] # NoExport
        /\ exportRows' = [exportRows EXCEPT ![call.task] = call.found]
        /\ UNCHANGED exportFaults
     \/ packageRows[call.task] = NoExport /\ UNCHANGED <<exportRows, exportFaults>>
     \/ ExportFault /\ UNCHANGED exportRows
  /\ UNCHANGED <<ledger, archived, exportTasks, packageRows, tokens, tokenRows,
                 expired, issued, certified, served, exportRestarts>>

----
(* POST .../authorize-download and GET /v1/exports/download/{token} *)

(* The row of a token refers to the row of its task. *)
SaveDownloadAuthorization(c) ==
  LET call == exportCall[c] IN
  /\ call.at = "saveToken"
  /\ \/ /\ exportRows[call.task] # NoExport
        /\ tokenRows' = [tokenRows EXCEPT ![call.token] = call.auth]
        /\ Continue(c, [call EXCEPT !.at = "audit"])
        /\ UNCHANGED exportFaults
     \/ exportRows[call.task] = NoExport /\ Finish(c) /\ UNCHANGED <<tokenRows, exportFaults>>
     \/ ExportFault /\ Finish(c) /\ UNCHANGED tokenRows
  /\ UNCHANGED <<ledger, archived, exportTasks, exportRows, packageRows, tokens,
                 expired, issued, certified, served, exportRestarts>>

(* The scope, the time and the use of the token, then its task. *)
WithAuthorization(c, call, auth) ==
  IF auth.project # call.project \/ auth.user # call.user
    THEN AppendAudit(call.project) /\ Finish(c) /\ UNCHANGED tokens
  ELSE IF call.token \in expired \/ auth.consumed
    THEN Finish(c) /\ UNCHANGED <<ledger, tokens>>
  ELSE LoadExportTask(c, [call EXCEPT !.auth = auth, !.task = auth.task])

(* Only who was given a token can present it. *)
DownloadExport(c, u, p, k) ==
  LET call == [IdleCall EXCEPT !.op = "download", !.user = u, !.project = p, !.token = k]
  IN
  /\ exportCall[c] = IdleCall
  /\ k \in issued
  /\ IF tokens[k] # NoExport
       THEN WithAuthorization(c, call, tokens[k])
       ELSE /\ Continue(c, [call EXCEPT !.at = "tokenRow", !.auth = tokenRows[k]])
            /\ UNCHANGED <<ledger, tokens>>
  /\ UNCHANGED <<archived, exportTasks, exportRows, packageRows, tokenRows, expired,
                 issued, certified, served, exportFaults, exportRestarts>>

(* The token is cached, then checked; both precede the handler's next await *)
(* unless the task is to be loaded from its row.                           *)
TokenRowArrives(c) ==
  LET call == exportCall[c] IN
  /\ call.at = "tokenRow"
  /\ CacheAuthorization(call.token, call.auth)
  /\ Continue(c, [call EXCEPT !.at = "checkToken"])
  /\ UNCHANGED <<ledger, archived, exportTasks, exportRows, packageRows, tokenRows,
                 expired, issued, certified, served, exportFaults, exportRestarts>>

CheckToken(c) ==
  /\ exportCall[c].at = "checkToken"
  /\ WithAuthorization(c, exportCall[c], exportCall[c].auth)
  /\ UNCHANGED <<archived, exportTasks, exportRows, packageRows, tokenRows, expired,
                 issued, certified, served, exportFaults, exportRestarts>>

(* The UPDATE does not look at the row's consumed_at. *)
ConsumeDownloadAuthorization(c) ==
  LET call == exportCall[c] IN
  /\ call.at = "consume"
  /\ \/ /\ tokenRows' = [tokenRows EXCEPT ![call.token] = call.auth]
        /\ Continue(c, [call EXCEPT !.at = "audit"])
        /\ UNCHANGED exportFaults
     \/ ExportFault /\ Finish(c) /\ UNCHANGED tokenRows
  /\ UNCHANGED <<ledger, archived, exportTasks, exportRows, packageRows, tokens,
                 expired, issued, certified, served, exportRestarts>>

----
(* The surroundings. *)

(* Any other request puts an event on record. *)
OtherAuditEvent ==
  /\ \E p \in ExportProjects \cup {NoProject} : AppendAudit(p)
  /\ UNCHANGED <<archived, exportTasks, exportRows, packageRows, tokens, tokenRows,
                 expired, exportCall, issued, certified, served, exportFaults,
                 exportRestarts>>

(* Retention moves the oldest events out of the hot trail. *)
ArchiveAuditEvents ==
  /\ archived' \in archived + 1 .. Len(ledger)
  /\ UNCHANGED <<ledger, exportTasks, exportRows, packageRows, tokens, tokenRows,
                 expired, exportCall, issued, certified, served, exportFaults,
                 exportRestarts>>

TokenExpires(k) ==
  /\ tokens[k] # NoExport \/ tokenRows[k] # NoExport
  /\ k \notin expired
  /\ expired' = expired \cup {k}
  /\ UNCHANGED <<ledger, archived, exportTasks, exportRows, packageRows, tokens,
                 tokenRows, exportCall, issued, certified, served, exportFaults,
                 exportRestarts>>

(* A restart loses the two maps and the requests. *)
ExportRestart ==
  /\ exportRestarts < MaxExportRestarts
  /\ exportRestarts' = exportRestarts + 1
  /\ exportTasks' = [t \in ExportTaskIds |-> NoExport]
  /\ tokens' = [k \in DownloadTokens |-> NoExport]
  /\ exportCall' = [c \in ExportCalls |-> IdleCall]
  /\ UNCHANGED <<ledger, archived, exportRows, packageRows, tokenRows, expired,
                 issued, certified, served, exportFaults>>

ExportStep(c) ==
  \/ SaveEvidencePackage(c) \/ SaveExportTask(c) \/ AuditAndAnswer(c)
  \/ CertificationFails(c) \/ PackageCertified(c) \/ TaskRowArrives(c)
  \/ AnchorRefreshed(c) \/ AnchorRefreshFails(c) \/ SaveFailedTask(c)
  \/ SaveDownloadAuthorization(c) \/ TokenRowArrives(c) \/ CheckToken(c)
  \/ ConsumeDownloadAuthorization(c)

ExportNext ==
  \/ \E c \in ExportCalls : ExportStep(c)
  \/ \E c \in ExportCalls, u \in ExportUsers, p \in ExportProjects :
       \/ ExportEvidence(c, u, p)
       \/ \E t \in ExportTaskIds, op \in {"refresh", "status", "authorize"} :
            TaskRequest(c, op, u, p, t)
       \/ \E k \in DownloadTokens : DownloadExport(c, u, p, k)
  \/ \E u \in ExportUsers, p \in ExportProjects : ExportEvidenceDenied(u, p)
  \/ OtherAuditEvent
  \/ ArchiveAuditEvents
  \/ \E k \in DownloadTokens : TokenExpires(k)
  \/ ExportRestart

ExportSpec == ExportInit /\ [][ExportNext]_exportVars

----
(* Properties. *)

KnownTasks ==
  ({exportTasks[t] : t \in ExportTaskIds} \cup {exportRows[t] : t \in ExportTaskIds})
    \ {NoExport}

(* The rows keep the references the schema declares, and a request knows   *)
(* the record it is about to save.                                         *)
EvidenceTypeOK ==
  /\ ledger \in Seq(ExportProjects \cup {NoProject}) /\ archived \in 0..Len(ledger)
  /\ \A t \in ExportTaskIds : exportRows[t] # NoExport => packageRows[t] # NoExport
  /\ \A k \in DownloadTokens : tokenRows[k] # NoExport => exportRows[tokenRows[k].task] # NoExport
  /\ \A k \in issued : tokenRows[k] # NoExport
  /\ \A c \in ExportCalls :
       /\ exportCall[c].at \in {"savePackage", "saveTask", "saveFailed", "refresh"}
            => exportCall[c].found.user \in ExportUsers
       /\ exportCall[c].at = "consume" => exportCall[c].auth.consumed

(* Every package that is kept is consistent in itself: its certificate,    *)
(* chain, time stamp, receipt and manifest belong to the events it holds.  *)
PackagesConsistent ==
  \A package \in {task.package : task \in KnownTasks}
                   \cup ({packageRows[t] : t \in ExportTaskIds} \ {NoExport}) :
    IntegrityVerified(package, package.events)

(* A task that says completed holds a package whose anchor is confirmed    *)
(* with a proof that checks.                                               *)
CompletedMeansAnchored ==
  \A task \in KnownTasks :
    task.status = "completed" =>
      task.verified /\ AnchorVerifies(task.package.anchor, task.package.chain)

(* Whatever was downloaded had been certified, and went to the user and    *)
(* the project it was exported for.                                        *)
DownloadsAuthorised ==
  \A d \in served :
    /\ d.task \in certified
    /\ exportRows[d.task].user = d.user
    /\ exportRows[d.task].project = d.project

(* A package whose anchor the chain has confirmed, with a proof that       *)
(* checks, is completed by the refresh that learns it.                     *)
RefreshCompletes ==
  \A c \in ExportCalls :
    (exportCall[c].op = "refresh" /\ exportCall[c].at = "savePackage"
       /\ AnchorVerifies(exportCall[c].found.package.anchor, exportCall[c].found.package.chain))
      => exportCall[c].found.status = "completed"

\* Evidence can be relied on: packages are consistent through every refresh, a
\* completed export has a confirmed anchor, and only its user downloads it,
\* after it was completed (phase5.rs).
ExportsSound ==
  /\ EvidenceTypeOK
  /\ PackagesConsistent
  /\ CompletedMeansAnchored
  /\ DownloadsAuthorised
=============================================================================
