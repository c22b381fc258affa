----------------------------- MODULE MCRecords ------------------------------
(* Small instances of what the system keeps: encrypted snapshots, the      *)
(* audit trail and evidence packages; part says which is explored.         *)
EXTENDS SnapshotVault, AuditTrail, EvidenceExport, TLC

VARIABLE part

vars == <<vaultVars, auditVars, exportVars, part>>

MCRetention == [c \in Categories |-> IF c = "Evidence" THEN 2 ELSE 1]

\* The external system and the store are explored apart.
MCInit ==
  /\ part \in {"vault", "trail", "evidence"}
  /\ VaultInit /\ (part # "vault" => activeKms = "vault")
  /\ AuditInit /\ (part # "trail" => forwarder = "disabled")
  /\ ExportInit

\* Two calls, and one of a fault and a restart; if cycles and requests
\* overlap, one of all three, or two about the first snapshot: the second is as it
\* was, or went with the project.  They overlap under Vault.
VaultPart ==
  /\ part = "vault"
  /\ VaultNext
  /\ vaultFaults' + vaultRestarts' <= 1
  /\ vaultOverlap' =>
       /\ activeKms' = "vault" \/ vaultRestarts' = 1
       /\ \/ vaultCalls' + vaultFaults' + vaultRestarts' <= 1
          \/ /\ vaultCalls' + vaultFaults' + vaultRestarts' = 2
             /\ \A u \in VaultUsers : request'[u].snap = 1
             /\ \A c \in RotationCycles : keyCycle'[c].todo \subseteq {1}
             /\ keyState'[2].dek = 0 /\ rec'[2].rewrapped = 0
             /\ rec'[2].state = "Active" \/ 2 \in withProject'
  /\ UNCHANGED <<auditVars, exportVars>>

\* A deletion is the second event.  Three events, or days that pass, come
\* with one event at a time, and nothing fails on the second day or
\* with a third event.
TrailPart ==
  /\ part = "trail"
  /\ AuditNext
  /\ auditFaults' + auditRestarts' <= 1
  /\ auditDay' = 2 \/ auditCount' = 3 => auditFaults' + auditRestarts' = 0
  /\ forwarder # "disabled" => /\ auditDay' = 0 /\ auditFaults' = 0 /\ auditRestarts' = 0
                               /\ retention' = NoRun /\ auditCount' <= 2
  /\ \A e \in Range(trail'.events) : e.kind = "deletion" => e.id = 2
  /\ \A w \in Writers : appends'[w].pc = "deleting" => auditCount = 1
  /\ (auditDay' > 0 \/ auditCount' = 3)
       => \A e, f \in Range(trail'.events) : e.slot = f.slot => e = f
  /\ UNCHANGED <<vaultVars, exportVars>>

InProgress == {c \in ExportCalls : exportCall[c] # IdleCall}

\* Two calls of one project, at most one of them a refresh; the second
\* project has events before them.  Events are archived when all is quiet,
\* and once something failed calls follow one another.
EvidencePart ==
  /\ part = "evidence"
  /\ ExportNext
  /\ exportFaults' + exportRestarts' <= 1
  /\ exportFaults' + exportRestarts' = 1 => Cardinality(InProgress') <= 1
  /\ (exportCall' = exportCall /\ ledger' # ledger) => Len(ledger) < 1
  /\ archived' <= 1
  /\ archived' # archived
       => Len(ledger) > 1 /\ InProgress = {} /\ \A k \in DownloadTokens : tokens[k] = NoExport
  /\ expired' # expired
       => \A c \in ExportCalls : exportCall[c].at \in {"idle", "saveToken", "tokenRow"}
  /\ \A c, d \in ExportCalls : c # d =>
       /\ ~(exportCall'[c].op = "refresh" /\ exportCall'[d].op \in {"refresh", "status"})
       /\ exportCall'[c].project = "p2"
            => exportCall'[c].op # "export" /\ exportCall'[d] = IdleCall
  /\ UNCHANGED <<vaultVars, auditVars>>

MCNext == (VaultPart \/ TrailPart \/ EvidencePart) /\ part' = part

MCSpec == MCInit /\ [][MCNext]_vars

Symmetry == Permutations(Writers) \cup Permutations(ExportCalls)
=============================================================================
