---------------------------- MODULE SnapshotView ----------------------------
(***************************************************************************)
(* Looking at one snapshot: the page, pivot and drilldown handlers of      *)
(* phase4.rs over crates/sdqp-data-view.  A request loads the snapshot, the*)
(* grant and the field policies one after the other while the snapshot is  *)
(* deleted and restored and the grant and the policies change; a client    *)
(* pages by sending the cursor back.  Text is a sequence of character      *)
(* codes: what masking hides, and what it does to sorting, grouping and    *)
(* filtering, is decided character by character.                           *)
(***************************************************************************)
EXTENDS Integers, Sequences, FiniteSets, Functions

CONSTANTS
  ViewFields,       \* the columns of the snapshot, a sequence
  ViewRows,         \* its rows: for each column, a text
  FallbackMask,     \* fallback_policy: for each column, how it is masked
  StoredMasks,      \* what the stored policies may say: partial functions
  FieldGrants,      \* the sets of columns grants may allow
  PageSize,         \* rows asked for at a time
  Viewers,          \* clients
  MaxViewChanges,   \* bound: deletions and changes of grant or policies
  MaxViewFaults     \* bound: failed statements

Columns == Range(ViewFields)

Strategies == {"none", "email", "phone", "full"}

ASSUME SnapshotViewAssumption ==
  /\ PageSize \in Nat \ {0} /\ MaxViewChanges \in Nat /\ MaxViewFaults \in Nat
  /\ ViewFields \in Seq(STRING) /\ ViewRows \in Seq([Columns -> Seq(Nat)])
  /\ FallbackMask \in [Columns -> Strategies]
  /\ \A s \in StoredMasks, c \in Columns : c \in DOMAIN s => s[c] \in Strategies
  /\ \A g \in FieldGrants : g \subseteq Columns

VARIABLES
  inMemory,      \* the snapshot in state.snapshots: "Active", "SoftDeleted"
  inRow,         \* the snapshot's row
  deleting,      \* a deletion is between memory and row
  fieldGrant,    \* columns the merged grant allows
  storedMask,    \* classification_field_policies
  viewer,        \* what each client is doing
  viewChanges, viewFaults,
  revived        \* history: a reader had read the row of a snapshot being deleted

viewVars == <<inMemory, inRow, deleting, fieldGrant, storedMask, viewer, viewChanges, viewFaults,
              revived>>

NoAsk == [kind |-> "none", cols |-> <<>>, dim |-> "", key |-> <<>>, metric |-> "count",
              field |-> "", format |-> "json"]

\* fresh: asked after the deletion was answered; steady: neither grant nor
\* policies changed, and no load of them failed, since the client began.
NoViewer == [pc |-> "idle", ask |-> NoAsk, copy |-> "none", cols |-> <<>>, cursor |-> 0,
             shown |-> <<>>, buckets |-> <<>>, fresh |-> FALSE, steady |-> TRUE]

ViewTypeOK ==
  /\ inMemory \in {"Active", "SoftDeleted"} /\ inRow \in {"Active", "SoftDeleted"}
  /\ fieldGrant \in FieldGrants /\ storedMask \in StoredMasks
  /\ \A v \in Viewers :
       /\ viewer[v].pc \in {"idle", "load", "row", "grant", "policies", "more", "done"}
       /\ viewer[v].cursor \in 0 .. Len(ViewRows)
       /\ Range(viewer[v].cols) \subseteq Columns

ViewInit ==
  /\ inMemory = "Active" /\ inRow = "Active" /\ deleting = FALSE
  /\ fieldGrant \in FieldGrants /\ storedMask \in StoredMasks
  /\ viewer = [v \in Viewers |-> NoViewer]
  /\ viewChanges = 0 /\ viewFaults = 0 /\ revived = FALSE

ViewFault == viewFaults < MaxViewFaults /\ viewFaults' = viewFaults + 1

----
(* Masking (mask_value).  Codes: 1 is '*', 2 is '@', from 10 on digits,     *)
(* from 20 on letters.                                                     *)

Star == 1
At == 2
Digits == 10..19

Stars(n) == [i \in 1..n |-> Star]

\* The first k characters, n stars, and the text from character q on.
Starred(text, k, n, q) ==
  [i \in 1..(k + n + Len(text) - q + 1) |->
     IF i <= k THEN text[i] ELSE IF i <= k + n THEN Star ELSE text[i - k - n + q - 1]]

\* Where split_once splits.
FirstAt(text) ==
  CHOOSE i \in DOMAIN text : text[i] = At /\ \A j \in 1..(i - 1) : text[j] # At

MaskValue(strategy, text) ==
  CASE strategy = "none" -> text
    [] strategy = "email" ->
         IF At \in Range(text)
         THEN Starred(text, IF FirstAt(text) = 1 THEN 0 ELSE 1, 3, FirstAt(text))
         ELSE Stars(3)
    [] strategy = "phone" ->
         IF Len(text) >= 7 THEN Starred(text, 3, 4, Len(text) - 3) ELSE Stars(4)
    [] strategy = "full" -> Stars(IF Len(text) < 4 THEN 4 ELSE Len(text))

\* build_access_profile; a failed load leaves only the fallback.
Profile(failed) ==
  [c \in Columns |-> IF ~failed /\ c \in DOMAIN storedMask THEN storedMask[c] ELSE FallbackMask[c]]

----
(* crates/sdqp-data-view, over a profile p. *)

\* secure_record_batches: rows as everything behind it sees them.
Secured(p, cols, i) == [c \in Range(cols) |-> MaskValue(p[c], ViewRows[i][c])]

\* Text in ascending order, character by character.
Before(s, t) ==
  \E i \in 1..Len(t) :
    /\ \A j \in 1..(i - 1) : j <= Len(s) /\ s[j] = t[j]
    /\ i > Len(s) \/ s[i] < t[i]

RowBefore(cols, a, b) ==
  \E i \in DOMAIN cols : /\ \A j \in 1..(i - 1) : a[cols[j]] = b[cols[j]]
                         /\ Before(a[cols[i]], b[cols[i]])

\* The filter of execute_drilldown, on the masked column.
Matching(p, ask) ==
  {i \in DOMAIN ViewRows : ask.kind = "drill" =>
     MaskValue(p[ask.dim], ViewRows[i][ask.dim]) = MaskValue(p[ask.dim], ask.key)}

\* The members of a set in order, given for each those up to it.
InOrder(S, upto) == [n \in 1..Cardinality(S) |-> CHOOSE i \in S : Cardinality(upto[i]) = n]

\* select, filter, sort; rows that look the same keep their order.
Sorted(p, cols, ask) ==
  LET found == Matching(p, ask)
      rows == [i \in found |-> Secured(p, cols, i)]
      upto == [i \in found |-> {j \in found : \/ RowBefore(cols, rows[j], rows[i])
                                            \/ (rows[j] = rows[i] /\ j <= i)}]
  IN  [n \in 1..Cardinality(found) |-> rows[InOrder(found, upto)[n]]]

\* limit(offset, page_size + 1), of which one row more than a page is dropped.
PageRows(rows, offset) ==
  SubSeq(rows, offset + 1, IF offset + PageSize < Len(rows) THEN offset + PageSize ELSE Len(rows))

\* Mutant: only a page is fetched, so a full page looks like the last one.
HasMore_NoLookahead(rows, offset) == FALSE

\* The row more tells that there is another page.
HasMore(rows, offset) == Len(rows) - offset > PageSize

NextCursor(rows, offset) == IF HasMore(rows, offset) THEN offset + PageSize ELSE 0

\* validate_numeric_metric_field; an empty text passes.
ValidateNumeric(p, ask) ==
  ask.metric = "number" =>
    \A i \in DOMAIN ViewRows : Range(MaskValue(p[ask.field], ViewRows[i][ask.field])) \subseteq Digits

\* execute_pivot: for each key, the rows its metric is computed from.
Buckets(p, ask) ==
  LET key(i) == MaskValue(p[ask.dim], ViewRows[i][ask.dim])
  IN  [k \in {key(i) : i \in DOMAIN ViewRows} |-> {i \in DOMAIN ViewRows : key(i) = k}]

\* build_snapshot_page_response masks what is masked already; Arrow does not.
Rendered(p, ask, rows) ==
  IF ask.format = "arrow" THEN rows
  ELSE [n \in DOMAIN rows |-> [c \in DOMAIN rows[n] |-> MaskValue(p[c], rows[n][c])]]

----
(* A request. *)

SetViewer(v, new) == viewer' = [viewer EXCEPT ![v] = new]

\* A page of all granted columns, or a pivot over a column and a metric.
PageRequests == {[NoAsk EXCEPT !.kind = "page", !.format = f] : f \in {"json", "arrow"}}

PivotRequests ==
  {[NoAsk EXCEPT !.kind = "pivot", !.dim = d, !.cols = <<d>>] : d \in Columns}
    \union {[NoAsk EXCEPT !.kind = "pivot", !.dim = x[1], !.metric = "number", !.field = x[2],
                              !.cols = <<x[1], x[2]>>] : x \in {x \in Columns \X Columns : x[1] # x[2]}}

AskView(v, ask) ==
  /\ viewer[v].pc \in {"idle", "done", "more"}
  /\ SetViewer(v, [NoViewer EXCEPT !.pc = "load", !.ask = ask,
                     !.fresh = inRow = "SoftDeleted" /\ ~deleting])
  /\ UNCHANGED <<inMemory, inRow, deleting, fieldGrant, storedMask, viewChanges, viewFaults, revived>>

\* A drilldown into a bucket of the client's last pivot.
AskDrilldown(v, key) ==
  /\ viewer[v].pc = "done" /\ viewer[v].ask.kind = "pivot" /\ key \in DOMAIN viewer[v].buckets
  /\ SetViewer(v, [viewer[v] EXCEPT !.pc = "load", !.cursor = 0, !.shown = <<>>,
       !.ask = [NoAsk EXCEPT !.kind = "drill", !.dim = viewer[v].ask.dim, !.key = key,
                                 !.cols = viewer[v].ask.cols],
       !.fresh = inRow = "SoftDeleted" /\ ~deleting])
  /\ UNCHANGED <<inMemory, inRow, deleting, fieldGrant, storedMask, viewChanges, viewFaults, revived>>

NextPage(v) ==
  /\ viewer[v].pc = "more"
  /\ SetViewer(v, [viewer[v] EXCEPT !.pc = "load", !.fresh = inRow = "SoftDeleted" /\ ~deleting])
  /\ UNCHANGED <<inMemory, inRow, deleting, fieldGrant, storedMask, viewChanges, viewFaults, revived>>

\* The answer is an error: the client has nothing.
Refuse(v) == SetViewer(v, NoViewer)

\* load_scoped_snapshot: the snapshot in memory or else the row.
LoadScopedSnapshot(v) ==
  /\ viewer[v].pc = "load"
  /\ \/ /\ inMemory = "Active"
        /\ SetViewer(v, [viewer[v] EXCEPT !.pc = "grant"]) /\ UNCHANGED <<viewFaults, revived>>
     \/ /\ inMemory # "Active"
        /\ SetViewer(v, [viewer[v] EXCEPT !.pc = "row", !.copy = inRow])
        /\ revived' = (revived \/ inRow = "Active") /\ UNCHANGED viewFaults
     \/ inMemory # "Active" /\ ViewFault /\ Refuse(v) /\ UNCHANGED revived
  /\ UNCHANGED <<inMemory, inRow, deleting, fieldGrant, storedMask, viewChanges>>

\* An active row is put back into memory.
RestoreLoaded(v) ==
  /\ viewer[v].pc = "row"
  /\ \/ /\ viewer[v].copy = "Active" /\ inMemory' = "Active"
        /\ SetViewer(v, [viewer[v] EXCEPT !.pc = "grant"])
     \/ viewer[v].copy # "Active" /\ Refuse(v) /\ UNCHANGED inMemory
  /\ UNCHANGED <<inRow, deleting, fieldGrant, storedMask, viewChanges, viewFaults, revived>>

\* grant_allowed_snapshot_columns.
AllowedColumns ==
  LET kept == {k \in DOMAIN ViewFields : ViewFields[k] \in fieldGrant}
      order == InOrder(kept, [k \in kept |-> {j \in kept : j <= k}])
  IN  [n \in 1..Cardinality(kept) |-> ViewFields[order[n]]]

\* load_active_grant, then authorize_fields for the columns asked for.
LoadActiveGrant(v) ==
  LET ask == viewer[v].ask
      cols == IF ask.kind = "page" THEN AllowedColumns ELSE ask.cols
  IN  /\ viewer[v].pc = "grant"
      /\ \/ /\ cols # <<>> /\ Range(cols) \subseteq fieldGrant
            /\ SetViewer(v, [viewer[v] EXCEPT !.pc = "policies", !.cols = cols])
         \/ (cols = <<>> \/ ~(Range(cols) \subseteq fieldGrant)) /\ Refuse(v)
      /\ UNCHANGED <<inMemory, inRow, deleting, fieldGrant, storedMask, viewChanges, viewFaults, revived>>

\* load_field_policies, and the answer.
ServePage(v, failed) ==
  LET p == Profile(failed)
      rows == Sorted(p, viewer[v].cols, viewer[v].ask)
      offset == viewer[v].cursor
  IN  /\ viewer[v].ask.kind \in {"page", "drill"}
      /\ SetViewer(v, [viewer[v] EXCEPT
           !.shown = @ \o Rendered(p, viewer[v].ask, PageRows(rows, offset)),
           !.cursor = NextCursor(rows, offset),
           !.pc = IF HasMore(rows, offset) THEN "more" ELSE "done",
           !.steady = @ /\ ~failed])

ServePivot(v, failed) ==
  LET p == Profile(failed)
      ask == viewer[v].ask
  IN  /\ ask.kind = "pivot"
      /\ \/ /\ ValidateNumeric(p, ask)
            /\ SetViewer(v, [viewer[v] EXCEPT !.buckets = Buckets(p, ask), !.pc = "done",
                                              !.steady = @ /\ ~failed])
         \/ ~ValidateNumeric(p, ask) /\ Refuse(v)

Serve(v, failed) ==
  /\ viewer[v].pc = "policies"
  /\ IF failed THEN ViewFault ELSE UNCHANGED viewFaults
  /\ ServePage(v, failed) \/ ServePivot(v, failed)
  /\ UNCHANGED <<inMemory, inRow, deleting, fieldGrant, storedMask, viewChanges, revived>>

----
(* What changes meanwhile. *)

ViewChange == viewChanges < MaxViewChanges /\ viewChanges' = viewChanges + 1

\* A deletion marks the snapshot in memory, then in its row; it is answered
\* with an error when the row cannot be saved.
SoftDeleteView ==
  /\ inMemory = "Active" /\ inRow = "Active" /\ ~deleting /\ ViewChange
  /\ inMemory' = "SoftDeleted" /\ deleting' = TRUE
  /\ UNCHANGED <<inRow, fieldGrant, storedMask, viewer, viewFaults, revived>>

SaveDeletedView ==
  /\ deleting /\ deleting' = FALSE
  /\ \/ inRow' = "SoftDeleted" /\ UNCHANGED viewFaults
     \/ ViewFault /\ UNCHANGED inRow
  /\ UNCHANGED <<inMemory, fieldGrant, storedMask, viewer, viewChanges, revived>>

Disturbed == [v \in Viewers |-> [viewer[v] EXCEPT !.steady = FALSE]]

ChangeView(g, s) ==
  /\ <<g, s>> # <<fieldGrant, storedMask>> /\ ViewChange
  /\ fieldGrant' = g /\ storedMask' = s /\ viewer' = Disturbed
  /\ UNCHANGED <<inMemory, inRow, deleting, viewFaults, revived>>

ViewNext ==
  \/ \E v \in Viewers :
       \/ \E ask \in PageRequests \union PivotRequests : AskView(v, ask)
       \/ \E key \in DOMAIN viewer[v].buckets : AskDrilldown(v, key)
       \/ NextPage(v) \/ LoadScopedSnapshot(v) \/ RestoreLoaded(v) \/ LoadActiveGrant(v)
       \/ \E failed \in BOOLEAN : Serve(v, failed)
  \/ SoftDeleteView \/ SaveDeletedView
  \/ \E g \in FieldGrants : ChangeView(g, storedMask)
  \/ \E s \in StoredMasks : ChangeView(fieldGrant, s)

ViewSpec == ViewInit /\ [][ViewNext]_viewVars

----
(* Properties. *)

\* The exception to what follows: a text that begins with '@' has nothing
\* before it to keep, and masking it again adds a star (mask_value).
Addressless(strategy, masked) == strategy = "email" /\ Len(masked) > 3 /\ masked[4] = At

\* Following the cursors to the end, a client has seen every row once, masked
\* once and in order, in either format, although every page is sorted anew
\* over masked values and the JSON answer masks again; as long as grant and
\* policies stay (read_page_batches, build_snapshot_page_response).
PagesComplete ==
  \A v \in Viewers :
    viewer[v].pc = "done" /\ viewer[v].steady /\ viewer[v].ask.kind = "page" =>
      LET p == Profile(FALSE)
          rows == Sorted(p, viewer[v].cols, viewer[v].ask)
          shown == viewer[v].shown
      IN  /\ DOMAIN shown = DOMAIN rows
          /\ \A n \in DOMAIN rows, c \in Range(viewer[v].cols) :
               \/ shown[n][c] = rows[n][c]
               \/ viewer[v].ask.format = "json" /\ Addressless(p[c], rows[n][c])

\* A drilldown into the bucket of a pivot lists exactly the bucket's rows,
\* although the key it sends is masked a second time (execute_drilldown).
BucketsOpen ==
  \A v \in Viewers :
    LET ask == viewer[v].ask
    IN  viewer[v].pc = "done" /\ viewer[v].steady /\ ask.kind = "drill" =>
          \/ Len(viewer[v].shown) = Cardinality(viewer[v].buckets[ask.key])
          \/ Addressless(Profile(FALSE)[ask.dim], ask.key)

\* No number is computed from a masked column: as long as grant and policies
\* stay, a pivot over one is refused (validate_numeric_metric_field), unless
\* there are no rows to compute one from.
NumbersNeedClearText ==
  \A v \in Viewers :
    LET ask == viewer[v].ask
    IN  viewer[v].pc = "done" /\ viewer[v].steady /\ ask.kind = "pivot" /\ ask.metric = "number" =>
          Profile(FALSE)[ask.field] = "none" \/ ViewRows = <<>>

\* A request sent after a deletion was answered sees nothing of the snapshot,
\* unless someone had read the row while it was being deleted: that reader
\* puts it back into memory for everyone (load_scoped_snapshot).
DeletedNotShown ==
  \A v \in Viewers : viewer[v].fresh /\ viewer[v].pc \in {"more", "done"} => revived

\* Views are honest: pages add up to the snapshot, buckets open to their rows,
\* numbers come from clear text, and what was deleted is not shown.
ViewsHonest ==
  /\ ViewTypeOK
  /\ PagesComplete
  /\ BucketsOpen
  /\ NumbersNeedClearText
  /\ DeletedNotShown
=============================================================================
