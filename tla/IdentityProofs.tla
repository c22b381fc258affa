----------------------------- MODULE IdentityProofs -----------------------------
(***************************************************************************)
(* Proofs about who may act: sessions and the directory they belong to,    *)
(* the credentials of integrations, and the agents of the gateway, for any *)
(* number of users, logins, concurrent requests, provisioning jobs, keys,  *)
(* cycles and agents, and any number of failed statements and restarts.    *)
(*                                                                         *)
(* Sessions.  What the properties say of memory and table is not           *)
(* inductive: clones on their way to the table are copies too, and a login *)
(* is spent only if no stage of it is left to be verified again, in memory *)
(* or in the rows a restart reads back.  CopiesFollow and LoginsSpent say  *)
(* so; ExchangesCounted, that a token which still is good was not          *)
(* exchanged by this process.                                              *)
(*                                                                         *)
(* Directory.  A synchronisation applies a plan it made earlier.           *)
(* SyncsOnCourse: until somebody else touches the directory, whatever      *)
(* differs from the provider still has its patch.  LateKnown: a login that *)
(* may still become a session belongs to an account in use, or was under   *)
(* way when the account ended.                                             *)
(*                                                                         *)
(* Credentials.  While a rotation is under way the key, its row, the state *)
(* and its row differ in every combination; what makes them meet again is  *)
(* where the one cycle stands.  RotationInv says how far each may be apart *)
(* at each of its steps, and that the stored state says Rotating before    *)
(* the stored secret changes, so that a restart in between does not take   *)
(* the old state for the new secret.                                       *)
(*                                                                         *)
(* Agents.  Between the two locks of the limiter a call has spent a token  *)
(* of the first bucket and is not served yet.  LedgerFits counts it among  *)
(* what that bucket let through; ToldFits and WaitFits say who has charged *)
(* a line since its last refusal.                                          *)
(***************************************************************************)
EXTENDS ScimProvisioning, CredentialRotation, McpGateway, FiniteSetTheorems, TLAPS

----
(* The inductive invariant. *)

\* The copies of the session of v: in memory, stored, or on their way.
Copies(v) ==
  ({active[v], row[v]} \cup {c[2] : c \in {x \in saves : x[1] = v}}) \ {NoSession}

\* No copy is ahead of memory, or of another session.
CopiesFollow ==
  /\ \A v \in Verifies : \A s \in Copies(v) :
       /\ active[v] # NoSession /\ s.login = active[v].login
       /\ s.token <= active[v].token /\ s.token <= tokens /\ s.previous < s.token
  /\ \A v, w \in Verifies : \A s \in Copies(v), t \in Copies(w) : s.token = t.token => v = w

\* A login that was turned into a session cannot be verified again.
Spent(l) ==
  /\ login[l] = "answered" /\ l \notin pending /\ l \notin pendingRow
  /\ \A v \in Verifies : verify[v].pc = "removed" => verify[v].login # l

LoginsSpent ==
  /\ OneSessionPerLogin
  /\ \A v \in Verifies : active[v] # NoSession => verify[v].pc = "done" /\ Spent(active[v].login)
  /\ \A v \in Verifies : verify[v].pc \in {"checked", "removed"} => login[verify[v].login] = "answered"
  /\ \A v \in Verifies : verify[v].pc = "removed" => verify[v].login \notin pending
  /\ \A v, w \in Verifies :
       verify[v].pc = "removed" /\ verify[w].pc = "removed" /\ verify[v].login = verify[w].login => v = w

\* A token that is still good was exchanged in earlier processes only.
ExchangesCounted ==
  /\ restarts \in Nat /\ saveFaults \in Nat
  /\ \A t \in 1..MaxTokens : exchanged[t] <= 1 + restarts /\ (t > tokens => exchanged[t] = 0)
  /\ \A v \in Verifies : active[v] # NoSession => exchanged[active[v].token] <= restarts

SessionsInv == SessionsTypeOK /\ CopiesFollow /\ LoginsSpent /\ ExchangesCounted

JobRecord ==
  [pc : {"idle", "groups", "apply", "save"}, sync : BOOLEAN, todo : SUBSET (GroupPatch \cup UserPatch),
   clean : BOOLEAN, policy : Policy, users : [Users -> {"active", "inactive", Gone}],
   groups : [Groups -> Group \cup {NoGroup}],
   write : {<<>>} \cup (GroupPatch \X (Group \cup {NoGroup})) \cup (UserPatch \X (Account \cup {Absent}))]

JobsOK ==
  /\ job \in [Jobs -> JobRecord]
  /\ \A j \in Jobs : job[j].pc = "save" => job[j].write # <<>>

\* The patch is the one the plan makes for its group or user.
InPlan(p, j) ==
  \/ /\ p.kind = "group"
     /\ IF job[j].groups[p.id] # NoGroup THEN p.op = "Upsert" /\ p.group = job[j].groups[p.id]
        ELSE \/ job[j].policy.deleteGroups /\ p.op = "Delete"
             \/ ~job[j].policy.deleteGroups /\ p.op = "Disable"
  \/ /\ p.kind = "user"
     /\ IF job[j].users[p.id] # Gone THEN p.op = "Upsert" /\ p.active = (job[j].users[p.id] = "active")
        ELSE \/ job[j].policy.deleteUsers /\ p.op = "Delete"
             \/ ~job[j].policy.deleteUsers /\ p.op = "Disable"

\* An undisturbed synchronisation still holds a patch for all that differs.
PlanCovers(j) ==
  /\ \A p \in job[j].todo : InPlan(p, j)
  /\ \A g \in Groups : \/ \E p \in job[j].todo : p.kind = "group" /\ p.id = g
                       \/ GroupMatches(g, job[j].groups[g], job[j].policy)
  /\ \A u \in Users : \/ \E p \in job[j].todo : p.kind = "user" /\ p.id = u
                      \/ UserMatches(u, job[j].users[u], job[j].policy)

SyncsOnCourse ==
  \A j \in Jobs : job[j].pc \in {"apply", "save"} /\ job[j].sync /\ job[j].clean => PlanCovers(j)

\* A login that may still become a session.
UnderWay(l) ==
  \/ login[l] = "saving" \/ l \in pending
  \/ \E v \in Verifies : verify[v].login = l /\ verify[v].pc = "removed"

\* It belongs to an account in use, or was under way when the account ended.
LateKnown ==
  restarts = 0 => \A l \in Logins : UnderWay(l) => Enabled(Owner[l]) \/ l \in late

DirectoryTyped ==
  /\ groups \in [Groups -> Group \cup {NoGroup}] /\ groupRow \in [Groups -> Group \cup {NoGroup}]
  /\ provider \in Directory /\ served \in 0..MaxJobs /\ providerSteps \in 0..MaxProviderSteps

ScimInv == DirectoryTyped /\ JobsOK /\ SyncsOnCourse /\ SyncConverges

IdentityInv == SessionsInv /\ ScimInv /\ LateKnown /\ DisabledHasNoSession

----
(* Sessions and what steps make of them. *)

\* r is the session s with other marks, and revoked if s is.
Marks(s, r) ==
  /\ r \in Session /\ r.login = s.login /\ r.token = s.token /\ r.previous = s.previous
  /\ s.revoked => r.revoked

\* Sessions neither come nor go, none changes its login, and none is revived.
SessionsGoOn ==
  \A v \in Verifies :
    /\ active[v] # NoSession <=> active'[v] # NoSession
    /\ active[v] # NoSession => /\ active'[v].login = active[v].login
                                /\ active[v].revoked => active'[v].revoked

LEMMA SessionFields ==
  ASSUME NEW s \in Session
  PROVE  /\ s # NoSession /\ s.login \in Logins /\ s.token \in 1..MaxTokens /\ s.token \in Nat
         /\ s.previous \in 0..MaxTokens /\ s.previous \in Nat /\ s.revoked \in BOOLEAN
<1>1. MaxTokens \in Nat BY SessionsAssumption
<1>2. /\ s.login \in Logins /\ s.token \in 1..MaxTokens /\ s.previous \in 0..MaxTokens
      /\ s.revoked \in BOOLEAN
  BY DEF Session
<1>3. s.token # 0 BY <1>1, <1>2
<1>4. NoSession.token = 0 BY DEF NoSession
<1>5. s.token \in Nat /\ s.previous \in Nat BY <1>1, <1>2
<1> QED BY <1>2, <1>3, <1>4, <1>5

LEMMA ActiveCases ==
  ASSUME SessionsTypeOK, NEW v \in Verifies
  PROVE  /\ active[v] # NoSession <=> active[v] \in Session
         /\ row[v] # NoSession <=> row[v] \in Session
<1>1. active[v] \in Session \cup {NoSession} /\ row[v] \in Session \cup {NoSession} BY DEF SessionsTypeOK
<1> QED BY <1>1, SessionFields

LEMMA CopiesMeaning ==
  ASSUME SessionsTypeOK, NEW v \in Verifies, NEW s
  PROVE  /\ s \in Copies(v) <=> s # NoSession /\ (s = active[v] \/ s = row[v] \/ <<v, s>> \in saves)
         /\ s \in Copies(v) => s \in Session
<1>1. \A c \in saves : c = <<c[1], c[2]>> /\ c[2] \in Session BY DEF SessionsTypeOK
<1>2. s \in Copies(v) <=> s # NoSession /\ (s = active[v] \/ s = row[v] \/ <<v, s>> \in saves)
  BY <1>1 DEF Copies
<1>3. <<v, s>> \in saves => s \in Session BY DEF SessionsTypeOK
<1> QED BY <1>2, <1>3, ActiveCases

LEMMA CopiesAfter ==
  ASSUME SessionsTypeOK', NEW v \in Verifies, NEW s \in Copies(v)'
  PROVE  s # NoSession /\ (s = active'[v] \/ s = row'[v] \/ <<v, s>> \in saves')
<1>1. \A c \in saves' : c = <<c[1], c[2]>> BY DEF SessionsTypeOK
<1> QED BY <1>1 DEF Copies

LEMMA MarkFields ==
  ASSUME NEW s \in Session, NEW b \in BOOLEAN, NEW c \in BOOLEAN
  PROVE  /\ Marks(s, s)
         /\ Marks(s, [s EXCEPT !.stepUp = b, !.challenge = c])
         /\ Marks(s, [s EXCEPT !.stepUp = b])
         /\ Marks(s, [s EXCEPT !.revoked = TRUE])
         /\ Marks(s, [s EXCEPT !.revoked = TRUE, !.stepUp = b])
         /\ Marks(s, [s EXCEPT !.revoked = TRUE, !.stepUp = b, !.challenge = c])
  BY DEF Marks, Session

LEMMA AssessMarks ==
  ASSUME NEW s \in Session, NEW signal
  PROVE  Marks(s, Assess(s, signal))
<1> DEFINE a == ForScore(Score(signal))
<1>1. a \in {"Allow", "StepUpAuth", "TerminateSession"} BY DEF ForScore
<1>2. \/ Assess(s, signal) = s
      \/ Assess(s, signal) = [s EXCEPT !.stepUp = FALSE, !.challenge = FALSE]
      \/ Assess(s, signal) = [s EXCEPT !.stepUp = TRUE, !.challenge = TRUE]
      \/ Assess(s, signal) = [s EXCEPT !.revoked = TRUE, !.stepUp = FALSE, !.challenge = FALSE]
  <2> HIDE DEF a
  <2> QED BY <1>1 DEF Assess, a
<1> QED BY <1>2, MarkFields

\* A copy of v is an old one but for its marks, or the first with the newest token.
LEMMA CopiesKept ==
  ASSUME SessionsTypeOK, SessionsTypeOK', CopiesFollow, tokens <= tokens',
         \A v \in Verifies : active[v] # NoSession =>
            /\ active'[v] # NoSession /\ active'[v].login = active[v].login
            /\ active[v].token <= active'[v].token,
         \A v \in Verifies : \A s \in Copies(v)' :
            \/ \E o \in Copies(v) : s.login = o.login /\ s.token = o.token /\ s.previous = o.previous
            \/ s = active'[v] /\ s.token = tokens + 1 /\ tokens' = tokens + 1 /\ s.previous < s.token,
         \A u, v \in Verifies :
            active'[u].token = tokens + 1 /\ active'[v].token = tokens + 1 => u = v
  PROVE  CopiesFollow'
<1>1. tokens \in Nat /\ tokens' \in Nat BY SessionsAssumption DEF SessionsTypeOK
<1>2. \A v \in Verifies : active[v] # NoSession =>
        /\ active[v].token \in Nat /\ active'[v] # NoSession /\ active'[v].token \in Nat
        /\ active'[v].login = active[v].login /\ active[v].token <= active'[v].token
  BY ActiveCases, SessionFields DEF SessionsTypeOK
<1>3. \A v \in Verifies : \A o \in Copies(v) :
        /\ o \in Session /\ o.token \in Nat /\ o.previous \in Nat
  BY CopiesMeaning, SessionFields
<1>4. ASSUME NEW v \in Verifies, NEW s \in Copies(v)'
      PROVE  /\ active'[v] # NoSession /\ s.login = active'[v].login
             /\ s.token <= active'[v].token /\ s.token <= tokens' /\ s.previous < s.token
  <2>1. CASE \E o \in Copies(v) : s.login = o.login /\ s.token = o.token /\ s.previous = o.previous
    <3>1. PICK o \in Copies(v) : s.login = o.login /\ s.token = o.token /\ s.previous = o.previous BY <2>1
    <3>2. /\ active[v] # NoSession /\ o.login = active[v].login
          /\ o.token <= active[v].token /\ o.token <= tokens /\ o.previous < o.token
      BY DEF CopiesFollow
    <3> QED BY <1>1, <1>2, <1>3, <3>1, <3>2
  <2>2. CASE s = active'[v] /\ s.token = tokens + 1 /\ tokens' = tokens + 1 /\ s.previous < s.token
    <3>1. s # NoSession BY DEF Copies
    <3>2. s.token \in Nat BY <1>1, <2>2
    <3> QED BY <1>1, <2>2, <3>1, <3>2
  <2> QED BY <2>1, <2>2
<1>5. ASSUME NEW u \in Verifies, NEW v \in Verifies, NEW s \in Copies(u)', NEW t \in Copies(v)',
             s.token = t.token
      PROVE  u = v
  <2>1. CASE /\ \E o \in Copies(u) : s.token = o.token
             /\ \E o \in Copies(v) : t.token = o.token
    <3>1. PICK o \in Copies(u), p \in Copies(v) : s.token = o.token /\ t.token = p.token BY <2>1
    <3>2. o.token = p.token BY <1>5, <3>1
    <3> QED BY <3>2 DEF CopiesFollow
  <2>2. ASSUME NEW x \in Verifies, NEW o \in Copies(x)
        PROVE  o.token # tokens + 1
    <3>1. o.token <= tokens BY DEF CopiesFollow
    <3> QED BY <1>1, <1>3, <3>1
  <2> QED BY <1>5, <2>1, <2>2
<1> QED BY <1>4, <1>5 DEF CopiesFollow

LEMMA SpentStays ==
  ASSUME SessionsTypeOK, LoginsSpent, SessionsGoOn, UNCHANGED <<login, pending, pendingRow, verify>>
  PROVE  LoginsSpent'
<1>3. OneSessionPerLogin' BY DEF LoginsSpent, OneSessionPerLogin, SessionsGoOn
<1>4. \A v \in Verifies : (active[v] # NoSession => verify[v].pc = "done" /\ Spent(active[v].login))'
  <2>1. \A v \in Verifies : active[v] # NoSession => verify[v].pc = "done" /\ Spent(active[v].login)
    BY DEF LoginsSpent
  <2> QED BY <2>1 DEF SessionsGoOn, Spent
<1> QED BY <1>3, <1>4 DEF LoginsSpent

\* A step that marks sessions and sends copies of them to the table.
LEMMA MarkedKeeps ==
  ASSUME SessionsInv,
         UNCHANGED <<row, tokens, exchanged, login, pending, pendingRow, verify, restarts, saveFaults>>,
         users' \in [Users -> Account \cup {Absent}], userRow' \in [Users -> Account \cup {Absent}],
         refresh' \in [Refreshes -> 0..MaxTokens],
         active' \in [Verifies -> Session \cup {NoSession}],
         \A v \in Verifies : \/ active'[v] = active[v]
                             \/ active[v] \in Session /\ Marks(active[v], active'[v]),
         \A c \in saves' : c \in saves \/ \E v \in Verifies : active[v] \in Session /\ c = <<v, active'[v]>>
  PROVE  SessionsInv' /\ SessionsGoOn
<1>1. SessionsTypeOK /\ CopiesFollow /\ LoginsSpent /\ ExchangesCounted BY DEF SessionsInv
<1>2. \A v \in Verifies : active[v] \in Session =>
        /\ active'[v] \in Session /\ active'[v].login = active[v].login
        /\ active'[v].token = active[v].token /\ active'[v].previous = active[v].previous
        /\ active[v].revoked => active'[v].revoked
  BY DEF Marks
<1>3. \A v \in Verifies : active[v] # NoSession <=> active'[v] # NoSession
  BY <1>1, <1>2, ActiveCases, SessionFields
<1>4. SessionsGoOn BY <1>1, <1>2, <1>3, ActiveCases DEF SessionsGoOn
<1>5. saves' \subseteq Verifies \X Session BY <1>1, <1>2 DEF SessionsTypeOK
<1>6. SessionsTypeOK' BY <1>1, <1>5 DEF SessionsTypeOK
<1>7. CopiesFollow'
  <2>1. \A v \in Verifies : active[v] # NoSession =>
          /\ active'[v] # NoSession /\ active'[v].login = active[v].login
          /\ active[v].token <= active'[v].token
    BY <1>1, <1>2, <1>3, ActiveCases, SessionFields
  <2>2. ASSUME NEW v \in Verifies, NEW s \in Copies(v)'
        PROVE  \E o \in Copies(v) : s.login = o.login /\ s.token = o.token /\ s.previous = o.previous
    <3>1. s # NoSession /\ (s = active'[v] \/ s = row'[v] \/ <<v, s>> \in saves') BY <1>6, CopiesAfter
    <3>2. CASE s \in Copies(v) BY <3>2
    <3>3. CASE s = active'[v] /\ active[v] \in Session
      <4>1. active[v] \in Copies(v) BY <1>1, <3>3, CopiesMeaning, SessionFields
      <4> QED BY <1>2, <3>3, <4>1
    <3>4. s \in Copies(v) \/ (s = active'[v] /\ active[v] \in Session)
      <4>1. CASE s = active'[v] BY <1>1, <1>3, <3>1, <4>1, ActiveCases
      <4>2. CASE s = row'[v] BY <1>1, <3>1, <4>2, CopiesMeaning
      <4>3. CASE <<v, s>> \in saves' BY <1>1, <3>1, <4>3, CopiesMeaning
      <4> QED BY <3>1, <4>1, <4>2, <4>3
    <3> QED BY <3>2, <3>3, <3>4
  <2>3. tokens <= tokens' BY <1>1, SessionsAssumption DEF SessionsTypeOK
  <2>4. ASSUME NEW v \in Verifies PROVE active'[v].token # tokens + 1
    <3>1. tokens \in Nat BY <1>1, SessionsAssumption DEF SessionsTypeOK
    <3>2. CASE active[v] \in Session
      <4>1. active[v] \in Copies(v) BY <1>1, <3>2, CopiesMeaning, SessionFields
      <4>2. active[v].token <= tokens /\ active[v].token \in Nat
        BY <1>1, <3>2, <4>1, SessionFields DEF CopiesFollow
      <4> QED BY <1>2, <3>1, <3>2, <4>2
    <3>3. CASE active[v] \notin Session
      <4>1. active'[v] = NoSession BY <1>1, <1>3, <3>3, ActiveCases
      <4> QED BY <3>1, <4>1 DEF NoSession
    <3> QED BY <3>2, <3>3
  <2> QED BY <1>1, <1>6, <2>1, <2>2, <2>3, <2>4, CopiesKept
<1>8. LoginsSpent' BY <1>1, <1>4, SpentStays
<1>9. ExchangesCounted' BY <1>1, <1>2, <1>3, ActiveCases DEF ExchangesCounted
<1> QED BY <1>4, <1>6, <1>7, <1>8, <1>9 DEF SessionsInv

\* A step that exchanges the token of one session.
LEMMA RotatedKeeps ==
  ASSUME SessionsInv, NEW v \in Verifies, active[v] \in Session, NEW r \in Session,
         r.login = active[v].login, r.token = tokens + 1, r.previous = active[v].token,
         active[v].revoked => r.revoked,
         tokens < MaxTokens, tokens' = tokens + 1, active' = [active EXCEPT ![v] = r],
         saves' = saves \cup {<<v, r>>}, Exchange(active[v].token),
         refresh' \in [Refreshes -> 0..MaxTokens],
         UNCHANGED <<row, login, pending, pendingRow, verify, restarts, saveFaults, users, userRow>>
  PROVE  SessionsInv' /\ SessionsGoOn
<1>1. SessionsTypeOK /\ CopiesFollow /\ LoginsSpent /\ ExchangesCounted BY DEF SessionsInv
<1> DEFINE t == active[v].token
<1>2. /\ tokens \in Nat /\ MaxTokens \in Nat /\ tokens' \in 0..MaxTokens /\ t \in 1..MaxTokens
      /\ t \in Nat /\ restarts \in Nat
  BY <1>1, SessionsAssumption, SessionFields DEF SessionsTypeOK, ExchangesCounted
<1>3. active[v] \in Copies(v) /\ t <= tokens
  <2>1. active[v] \in Copies(v) BY <1>1, CopiesMeaning, SessionFields
  <2> QED BY <1>1, <2>1 DEF CopiesFollow
<1>4. active' \in [Verifies -> Session \cup {NoSession}] /\ active'[v] = r
      /\ \A w \in Verifies : w # v => active'[w] = active[w]
  BY <1>1 DEF SessionsTypeOK
<1>5. exchanged \in [1..MaxTokens -> Nat] /\ exchanged' = [exchanged EXCEPT ![t] = @ + 1]
  BY <1>1 DEF Exchange, SessionsTypeOK
<1>6. exchanged' \in [1..MaxTokens -> Nat] /\ exchanged'[t] = exchanged[t] + 1
      /\ \A x \in 1..MaxTokens : x # t => exchanged'[x] = exchanged[x]
  BY <1>2, <1>5
<1>7. SessionsTypeOK'
  <2>1. saves' \subseteq Verifies \X Session BY <1>1 DEF SessionsTypeOK
  <2> QED BY <1>1, <1>2, <1>4, <1>6, <2>1 DEF SessionsTypeOK
<1>8. SessionsGoOn BY <1>4, SessionFields DEF SessionsGoOn
<1>9. LoginsSpent' BY <1>1, <1>8, SpentStays
<1>10. CopiesFollow'
  <2>1. t <= tokens + 1 BY <1>2, <1>3
  <2>2. \A w \in Verifies : active[w] # NoSession =>
          /\ active'[w] # NoSession /\ active'[w].login = active[w].login
          /\ active[w].token <= active'[w].token
    <3>1. \A w \in Verifies : active[w] # NoSession => active[w].token \in Nat
      BY <1>1, ActiveCases, SessionFields
    <3> QED BY <1>4, <2>1, <3>1, SessionFields
  <2>3. ASSUME NEW w \in Verifies, NEW s \in Copies(w)'
        PROVE  \/ \E o \in Copies(w) : s.login = o.login /\ s.token = o.token /\ s.previous = o.previous
               \/ s = active'[w] /\ s.token = tokens + 1 /\ tokens' = tokens + 1 /\ s.previous < s.token
    <3>1. s # NoSession /\ (s = active'[w] \/ s = row'[w] \/ <<w, s>> \in saves') BY <1>7, CopiesAfter
    <3>2. s \in Copies(w) \/ (w = v /\ s = r) BY <1>1, <1>4, <3>1, CopiesMeaning
    <3>3. r.previous < r.token BY <1>2, <1>3
    <3> QED BY <1>4, <3>2, <3>3
  <2>4. tokens <= tokens' BY <1>2
  <2>5. ASSUME NEW w \in Verifies, active'[w].token = tokens + 1 PROVE w = v
    <3>1. NoSession.token = 0 BY DEF NoSession
    <3>2. active[w] = NoSession \/ (active[w] \in Copies(w) /\ active[w].token \in Nat)
      BY <1>1, ActiveCases, CopiesMeaning, SessionFields
    <3>3. active[w].token # tokens + 1 BY <1>1, <1>2, <3>1, <3>2 DEF CopiesFollow
    <3> QED BY <1>4, <2>5, <3>3
  <2> QED BY <1>1, <1>7, <2>2, <2>3, <2>4, <2>5, CopiesKept
<1>11. ExchangesCounted'
  <2>1. exchanged[t] \in Nat /\ exchanged[t] <= restarts
    BY <1>1, <1>2, <1>5, SessionFields DEF ExchangesCounted
  <2>2. \A x \in 1..MaxTokens : exchanged'[x] <= 1 + restarts /\ (x > tokens' => exchanged'[x] = 0)
    <3>1. ASSUME NEW x \in 1..MaxTokens
          PROVE  exchanged'[x] <= 1 + restarts /\ (x > tokens' => exchanged'[x] = 0)
      <4>1. exchanged[x] <= 1 + restarts /\ (x > tokens => exchanged[x] = 0) BY <1>1 DEF ExchangesCounted
      <4>2. CASE x = t BY <1>2, <1>3, <1>6, <2>1, <4>2
      <4>3. CASE x # t BY <1>2, <1>6, <4>1, <4>3
      <4> QED BY <4>2, <4>3
    <3> QED BY <3>1
  <2>3. ASSUME NEW w \in Verifies, active'[w] # NoSession
        PROVE  exchanged'[active'[w].token] <= restarts
    <3>1. CASE w = v
      <4>1. tokens + 1 \in 1..MaxTokens /\ tokens + 1 # t /\ tokens + 1 > tokens BY <1>2, <1>3
      <4>2. exchanged'[tokens + 1] = 0 BY <1>1, <1>6, <4>1 DEF ExchangesCounted
      <4> QED BY <1>2, <1>4, <3>1, <4>2
    <3>2. CASE w # v
      <4>1. active'[w] = active[w] /\ active[w] \in Copies(w) /\ active[w].token \in 1..MaxTokens
        BY <1>1, <1>4, <2>3, <3>2, CopiesMeaning, ActiveCases, SessionFields
      <4>2. active[w].token # t BY <1>1, <1>3, <3>2, <4>1 DEF CopiesFollow
      <4> QED BY <1>1, <1>6, <2>3, <4>1, <4>2 DEF ExchangesCounted
    <3> QED BY <3>1, <3>2
  <2> QED BY <1>1, <2>2, <2>3 DEF ExchangesCounted
<1> QED BY <1>7, <1>8, <1>9, <1>10, <1>11 DEF SessionsInv

----
(* The steps of a login. *)

LEMMA RegistryStays ==
  ASSUME SessionsInv, SessionsTypeOK', UNCHANGED <<active, row, saves, tokens, exchanged, restarts>>,
         saveFaults' \in Nat
  PROVE  CopiesFollow' /\ ExchangesCounted' /\ OneSessionPerLogin' /\ SessionsGoOn
<1>1. CopiesFollow' BY DEF SessionsInv, CopiesFollow, Copies
<1>2. ExchangesCounted' BY DEF SessionsInv, ExchangesCounted
<1>3. OneSessionPerLogin' BY DEF SessionsInv, LoginsSpent, OneSessionPerLogin
<1>4. SessionsGoOn BY DEF SessionsGoOn
<1> QED BY <1>1, <1>2, <1>3, <1>4

LEMMA FaultsCount ==
  ASSUME SessionsInv, SaveFails PROVE saveFaults' \in Nat
  BY DEF SessionsInv, ExchangesCounted, SaveFails

LEMMA StartPendingKeeps ==
  ASSUME SessionsInv, NEW l \in Logins, login[l] = "new", StartPending(l), UNCHANGED <<userVars, boundVars>>
  PROVE  SessionsInv' /\ SessionsGoOn
<1>1. SessionsTypeOK /\ LoginsSpent /\ ExchangesCounted BY DEF SessionsInv
<1>2. /\ login' = [login EXCEPT ![l] = "saving"] /\ pending' = pending \cup {l}
      /\ UNCHANGED <<pendingRow, verify, active, row, refresh, saves, tokens, exchanged, users, userRow,
                     restarts, saveFaults>>
  BY DEF StartPending, userVars, boundVars
<1>3. SessionsTypeOK' BY <1>1, <1>2 DEF SessionsTypeOK
<1>4. CopiesFollow' /\ ExchangesCounted' /\ OneSessionPerLogin' /\ SessionsGoOn
  BY <1>1, <1>2, <1>3, RegistryStays DEF ExchangesCounted
<1>5. \A k \in Logins : login[k] = "answered" => k # l /\ login'[k] = "answered"
  BY <1>1, <1>2 DEF SessionsTypeOK
<1>6. \A v \in Verifies : verify[v].login \in Logins BY <1>1 DEF SessionsTypeOK
<1>7. \A k \in Logins : Spent(k) => Spent(k)' BY <1>2, <1>5 DEF Spent
<1>8. \A v \in Verifies : active[v] # NoSession => active[v].login \in Logins
  BY <1>1, ActiveCases, SessionFields
<1>9. LoginsSpent' BY <1>1, <1>2, <1>4, <1>5, <1>6, <1>7, <1>8 DEF LoginsSpent
<1> QED BY <1>3, <1>4, <1>9 DEF SessionsInv

LEMMA SsoCallbackKeeps ==
  ASSUME SessionsInv, NEW l \in Logins, SsoCallback(l)
  PROVE  SessionsInv' /\ SessionsGoOn
<1>1. SessionsTypeOK /\ LoginsSpent /\ ExchangesCounted BY DEF SessionsInv
<1>2. /\ users' = [users EXCEPT ![Owner[l]] = [active |-> TRUE, source |-> "Sso"]]
      /\ UNCHANGED <<login, pending, pendingRow, verify, active, row, refresh, saves, tokens, exchanged, restarts>>
      /\ \/ userRow' = [userRow EXCEPT ![Owner[l]] = users'[Owner[l]]] /\ UNCHANGED saveFaults
         \/ SaveFails /\ UNCHANGED userRow
  BY DEF SsoCallback, sessionVars
<1>3. users' \in [Users -> Account \cup {Absent}] BY <1>1, <1>2 DEF SessionsTypeOK, Account
<1>4. userRow' \in [Users -> Account \cup {Absent}]
  BY <1>1, <1>2, <1>3, SessionsAssumption DEF SessionsTypeOK
<1>5. SessionsTypeOK' BY <1>1, <1>2, <1>3, <1>4 DEF SessionsTypeOK
<1>6. saveFaults' \in Nat BY <1>1, <1>2, FaultsCount DEF ExchangesCounted
<1>7. CopiesFollow' /\ ExchangesCounted' /\ OneSessionPerLogin' /\ SessionsGoOn
  BY <1>2, <1>5, <1>6, RegistryStays
<1>8. LoginsSpent' BY <1>1, <1>2, <1>7 DEF LoginsSpent, Spent
<1> QED BY <1>5, <1>7, <1>8 DEF SessionsInv

LEMMA SavePendingKeeps ==
  ASSUME SessionsInv, NEW l \in Logins, SavePendingSession(l)
  PROVE  SessionsInv' /\ SessionsGoOn
<1>1. SessionsTypeOK /\ LoginsSpent /\ ExchangesCounted BY DEF SessionsInv
<1>2. /\ login[l] = "saving"
      /\ login' = [login EXCEPT ![l] = "answered"] \/ login' = [login EXCEPT ![l] = "failed"]
      /\ pendingRow' \in {pendingRow, pendingRow \cup {l}}
      /\ UNCHANGED <<pending, verify, active, row, refresh, saves, tokens, exchanged, users, userRow, restarts>>
  BY DEF SavePendingSession, userVars
<1>3. SessionsTypeOK' BY <1>1, <1>2 DEF SessionsTypeOK
<1>4. saveFaults' \in Nat BY <1>1, FaultsCount DEF ExchangesCounted, SavePendingSession
<1>5. CopiesFollow' /\ ExchangesCounted' /\ OneSessionPerLogin' /\ SessionsGoOn
  BY <1>2, <1>3, <1>4, RegistryStays
<1>6. \A k \in Logins : login[k] = "answered" => k # l /\ login'[k] = "answered"
  BY <1>1, <1>2 DEF SessionsTypeOK
<1>7. \A v \in Verifies : verify[v].login \in Logins BY <1>1 DEF SessionsTypeOK
<1>8. \A k \in Logins : Spent(k) => Spent(k)' BY <1>2, <1>6 DEF Spent
<1>9. \A v \in Verifies : active[v] # NoSession => active[v].login \in Logins
  BY <1>1, ActiveCases, SessionFields
<1>10. LoginsSpent' BY <1>1, <1>2, <1>5, <1>6, <1>7, <1>8, <1>9 DEF LoginsSpent
<1> QED BY <1>3, <1>5, <1>10 DEF SessionsInv

LEMMA VerifyChallengeKeeps ==
  ASSUME SessionsInv, NEW v \in Verifies, NEW l \in Logins, VerifyChallenge(v, l)
  PROVE  SessionsInv' /\ SessionsGoOn
<1>1. SessionsTypeOK /\ LoginsSpent /\ ExchangesCounted BY DEF SessionsInv
<1>2. /\ verify[v].pc = "idle" /\ login[l] = "answered"
      /\ verify' = [verify EXCEPT ![v] = [pc |-> "checked", login |-> l]]
      /\ UNCHANGED <<login, pending, pendingRow, active, row, refresh, saves, tokens, exchanged, users,
                     userRow, restarts, saveFaults>>
  BY DEF VerifyChallenge, userVars, boundVars
<1>3. SessionsTypeOK' BY <1>1, <1>2 DEF SessionsTypeOK
<1>4. CopiesFollow' /\ ExchangesCounted' /\ OneSessionPerLogin' /\ SessionsGoOn
  BY <1>1, <1>2, <1>3, RegistryStays DEF ExchangesCounted
<1>5. verify'[v] = [pc |-> "checked", login |-> l] /\ \A w \in Verifies : w # v => verify'[w] = verify[w]
  BY <1>1, <1>2 DEF SessionsTypeOK
<1>6. \A k : Spent(k) => Spent(k)' BY <1>2, <1>5 DEF Spent
<1>7. \A w \in Verifies : verify'[w].pc = "removed" => w # v BY <1>5
<1>8. \A w \in Verifies : active[w] # NoSession => w # v BY <1>1, <1>2 DEF LoginsSpent
<1>9. (\A w \in Verifies : active[w] # NoSession => verify[w].pc = "done" /\ Spent(active[w].login))'
  BY <1>1, <1>2, <1>5, <1>6, <1>8 DEF LoginsSpent
<1>10. (\A w \in Verifies : verify[w].pc \in {"checked", "removed"} => login[verify[w].login] = "answered")'
  BY <1>1, <1>2, <1>5 DEF LoginsSpent
<1>11. (\A w \in Verifies : verify[w].pc = "removed" => verify[w].login \notin pending)'
  BY <1>1, <1>2, <1>5, <1>7 DEF LoginsSpent
<1>12. (\A u, w \in Verifies :
          verify[u].pc = "removed" /\ verify[w].pc = "removed" /\ verify[u].login = verify[w].login => u = w)'
  BY <1>1, <1>2, <1>5, <1>7 DEF LoginsSpent
<1>13. LoginsSpent' BY <1>4, <1>9, <1>10, <1>11, <1>12 DEF LoginsSpent
<1> QED BY <1>3, <1>4, <1>13 DEF SessionsInv

LEMMA RemovePendingKeeps ==
  ASSUME SessionsInv, NEW v \in Verifies, RemovePending(v)
  PROVE  SessionsInv' /\ SessionsGoOn
<1>1. SessionsTypeOK /\ LoginsSpent /\ ExchangesCounted BY DEF SessionsInv
<1> DEFINE l == verify[v].login
<1>2. /\ verify[v].pc = "checked"
      /\ verify' = [verify EXCEPT ![v].pc = IF l \in pending THEN "removed" ELSE "done"]
      /\ pending' = pending \ {l}
      /\ UNCHANGED <<login, pendingRow, active, row, refresh, saves, tokens, exchanged, users,
                     userRow, restarts, saveFaults>>
  BY DEF RemovePending, userVars, boundVars
<1>3. SessionsTypeOK' BY <1>1, <1>2 DEF SessionsTypeOK
<1>4. CopiesFollow' /\ ExchangesCounted' /\ OneSessionPerLogin' /\ SessionsGoOn
  BY <1>1, <1>2, <1>3, RegistryStays DEF ExchangesCounted
<1>5. /\ verify'[v].login = l /\ verify'[v].pc = (IF l \in pending THEN "removed" ELSE "done")
      /\ \A w \in Verifies : w # v => verify'[w] = verify[w]
  BY <1>1, <1>2 DEF SessionsTypeOK
<1>6. \A k : Spent(k) => Spent(k)' BY <1>2, <1>5 DEF Spent
<1>7. \A w \in Verifies : active[w] # NoSession => w # v BY <1>1, <1>2 DEF LoginsSpent
<1>8. (\A w \in Verifies : active[w] # NoSession => verify[w].pc = "done" /\ Spent(active[w].login))'
  BY <1>1, <1>2, <1>5, <1>6, <1>7 DEF LoginsSpent
<1>9. (\A w \in Verifies : verify[w].pc \in {"checked", "removed"} => login[verify[w].login] = "answered")'
  <2>1. login[l] = "answered" BY <1>1, <1>2 DEF LoginsSpent
  <2> QED BY <1>1, <1>2, <1>5, <2>1 DEF LoginsSpent
<1>10. (\A w \in Verifies : verify[w].pc = "removed" => verify[w].login \notin pending)'
  BY <1>1, <1>2, <1>5 DEF LoginsSpent
<1>11. (\A u, w \in Verifies :
          verify[u].pc = "removed" /\ verify[w].pc = "removed" /\ verify[u].login = verify[w].login => u = w)'
  <2>1. ASSUME NEW w \in Verifies, w # v, verify'[w].pc = "removed", verify'[v].pc = "removed"
        PROVE  verify'[w].login # l
    BY <1>1, <1>5, <2>1 DEF LoginsSpent
  <2>2. ASSUME NEW u \in Verifies, NEW w \in Verifies, u # v, w # v,
               verify'[u].pc = "removed", verify'[w].pc = "removed", verify'[u].login = verify'[w].login
        PROVE  u = w
    BY <1>1, <1>5, <2>2 DEF LoginsSpent
  <2> QED BY <1>5, <2>1, <2>2
<1>12. LoginsSpent' BY <1>4, <1>8, <1>9, <1>10, <1>11 DEF LoginsSpent
<1> QED BY <1>3, <1>4, <1>12 DEF SessionsInv

----
(* A session begins; its clones are saved; the process restarts. *)

LEMMA ActivateKeeps ==
  ASSUME SessionsInv, NEW v \in Verifies, ActivateSession(v)
  PROVE  /\ SessionsInv' /\ active[v] = NoSession
         /\ \A w \in Verifies : w # v => active'[w] = active[w]
         /\ active'[v] # NoSession => active'[v].login = verify[v].login
<1>1. SessionsTypeOK /\ CopiesFollow /\ LoginsSpent /\ ExchangesCounted BY DEF SessionsInv
<1> DEFINE l == verify[v].login
           s == NewSession(l, tokens + 1)
<1>2. /\ verify[v].pc = "removed" /\ verify' = [verify EXCEPT ![v].pc = "done"]
      /\ UNCHANGED <<login, pending, row, refresh, exchanged, users, userRow, restarts>>
  BY DEF ActivateSession, userVars
<1>3. l \in Logins /\ login[l] = "answered" /\ l \notin pending
  BY <1>1, <1>2 DEF SessionsTypeOK, LoginsSpent
<1>4. active[v] = NoSession /\ Copies(v) = {}
  <2>1. active[v] = NoSession BY <1>1, <1>2 DEF LoginsSpent
  <2> QED BY <1>1, <2>1 DEF CopiesFollow
<1>5. verify'[v].pc = "done" /\ verify'[v].login = l /\ \A w \in Verifies : w # v => verify'[w] = verify[w]
  BY <1>1, <1>2 DEF SessionsTypeOK
<1>6. verify' \in [Verifies -> [pc : {"idle", "checked", "removed", "done"}, login : Logins]]
  BY <1>1, <1>2 DEF SessionsTypeOK
<1>7. /\ (\A w \in Verifies : verify[w].pc \in {"checked", "removed"} => login[verify[w].login] = "answered")'
      /\ (\A w \in Verifies : verify[w].pc = "removed" => verify[w].login \notin pending)'
      /\ (\A u, w \in Verifies :
            verify[u].pc = "removed" /\ verify[w].pc = "removed" /\ verify[u].login = verify[w].login => u = w)'
  <2>1. \A w \in Verifies : verify'[w].pc # "done" => w # v /\ verify'[w] = verify[w] BY <1>5
  <2>2. (\A w \in Verifies : verify[w].pc \in {"checked", "removed"} => login[verify[w].login] = "answered")'
    BY <1>1, <1>2, <2>1 DEF LoginsSpent
  <2>3. (\A w \in Verifies : verify[w].pc = "removed" => verify[w].login \notin pending)'
    BY <1>1, <1>2, <2>1 DEF LoginsSpent
  <2>4. (\A u, w \in Verifies :
            verify[u].pc = "removed" /\ verify[w].pc = "removed" /\ verify[u].login = verify[w].login => u = w)'
    BY <1>1, <1>2, <2>1 DEF LoginsSpent
  <2> QED BY <2>2, <2>3, <2>4
<1>8. CASE /\ tokens < MaxTokens /\ tokens' = tokens + 1 /\ pendingRow' = pendingRow \ {l}
           /\ active' = [active EXCEPT ![v] = s] /\ saves' = saves \cup {<<v, s>>} /\ UNCHANGED saveFaults
  <2>1. /\ s \in Session /\ s.login = l /\ s.token = tokens + 1 /\ s.previous < s.token
        /\ tokens \in Nat /\ tokens' \in 0..MaxTokens /\ s # NoSession /\ tokens + 1 \in 1..MaxTokens
    <3>1. tokens \in Nat /\ MaxTokens \in Nat BY <1>1, SessionsAssumption DEF SessionsTypeOK
    <3>2. s \in Session BY <1>3, <1>8, <3>1 DEF NewSession, Session
    <3>3. s.login = l /\ s.token = tokens + 1 /\ s.previous = 0 BY DEF NewSession
    <3>4. s # NoSession BY <3>2, SessionFields
    <3> QED BY <1>8, <3>1, <3>2, <3>3, <3>4
  <2> HIDE DEF s
  <2>2. active'[v] = s /\ (\A w \in Verifies : w # v => active'[w] = active[w])
        /\ active' \in [Verifies -> Session \cup {NoSession}]
    BY <1>1, <1>8, <2>1 DEF SessionsTypeOK
  <2>3. SessionsTypeOK'
    <3>1. saves' \subseteq Verifies \X Session BY <1>1, <1>8, <2>1 DEF SessionsTypeOK
    <3> QED BY <1>1, <1>2, <1>6, <1>8, <2>1, <2>2, <3>1 DEF SessionsTypeOK
  <2>4. CopiesFollow'
    <3>1. \A w \in Verifies : active[w] # NoSession =>
            /\ active'[w] # NoSession /\ active'[w].login = active[w].login
            /\ active[w].token <= active'[w].token
      BY <1>1, <1>4, <2>2, ActiveCases, SessionFields
    <3>2. ASSUME NEW w \in Verifies, NEW c \in Copies(w)'
          PROVE  \/ \E o \in Copies(w) : c.login = o.login /\ c.token = o.token /\ c.previous = o.previous
                 \/ c = active'[w] /\ c.token = tokens + 1 /\ tokens' = tokens + 1 /\ c.previous < c.token
      <4>1. c # NoSession /\ (c = active'[w] \/ c = row'[w] \/ <<w, c>> \in saves') BY <2>3, CopiesAfter
      <4>2. c \in Copies(w) \/ (w = v /\ c = s) BY <1>1, <1>2, <1>8, <2>2, <4>1, CopiesMeaning
      <4> QED BY <1>8, <2>1, <2>2, <4>2
    <3>3. tokens <= tokens' BY <1>8, <2>1
    <3>4. ASSUME NEW w \in Verifies, active'[w].token = tokens + 1 PROVE w = v
      <4>1. NoSession.token = 0 BY DEF NoSession
      <4>2. active[w] = NoSession \/ (active[w] \in Copies(w) /\ active[w].token \in Nat)
        BY <1>1, ActiveCases, CopiesMeaning, SessionFields
      <4>3. active[w].token # tokens + 1 BY <1>1, <2>1, <4>1, <4>2 DEF CopiesFollow
      <4> QED BY <2>2, <3>4, <4>3
    <3> QED BY <1>1, <2>3, <3>1, <3>2, <3>3, <3>4, CopiesKept
  <2>5. \A w \in Verifies : active[w] # NoSession => w # v /\ verify'[w].pc = "done" /\ active[w].login # l
        /\ Spent(active[w].login)'
    <3>1. ASSUME NEW w \in Verifies, active[w] # NoSession
          PROVE  w # v /\ verify'[w].pc = "done" /\ active[w].login # l /\ Spent(active[w].login)'
      <4>1. verify[w].pc = "done" /\ Spent(active[w].login) /\ w # v BY <1>1, <1>4, <3>1 DEF LoginsSpent
      <4>2. active[w].login # l BY <1>2, <4>1 DEF Spent
      <4>3. /\ login[active[w].login] = "answered" /\ active[w].login \notin pending
            /\ active[w].login \notin pendingRow
            /\ \A u \in Verifies : verify[u].pc = "removed" => verify[u].login # active[w].login
        BY <4>1 DEF Spent
      <4>4. \A u \in Verifies : verify'[u].pc = "removed" => verify[u].pc = "removed" /\ verify'[u] = verify[u]
        BY <1>5
      <4>5. active'[w] = active[w] BY <2>2, <4>1
      <4>6. Spent(active[w].login)' BY <1>2, <1>8, <4>3, <4>4, <4>5 DEF Spent
      <4> QED BY <1>5, <4>1, <4>2, <4>6
    <3> QED BY <3>1
  <2>6. LoginsSpent'
    <3>1. Spent(active[v].login)'
      <4>1. \A u \in Verifies : verify'[u].pc = "removed" => verify'[u].login # l
        BY <1>1, <1>2, <1>5 DEF LoginsSpent
      <4>2. active'[v].login = l BY <2>1, <2>2
      <4>3. login'[l] = "answered" /\ l \notin pending' /\ l \notin pendingRow' BY <1>2, <1>3, <1>8
      <4> HIDE DEF l
      <4> QED BY <4>1, <4>2, <4>3 DEF Spent
    <3>2. OneSessionPerLogin' BY <1>1, <2>1, <2>2, <2>5 DEF LoginsSpent, OneSessionPerLogin
    <3>3. (\A w \in Verifies : active[w] # NoSession => verify[w].pc = "done" /\ Spent(active[w].login))'
      BY <1>5, <2>2, <2>5, <3>1
    <3> QED BY <1>7, <3>2, <3>3 DEF LoginsSpent
  <2>7. ExchangesCounted'
    <3>1. exchanged[tokens + 1] = 0 /\ restarts \in Nat BY <1>1, <2>1 DEF ExchangesCounted
    <3>2. \A w \in Verifies : active'[w] # NoSession => exchanged'[active'[w].token] <= restarts
      BY <1>1, <1>2, <2>1, <2>2, <3>1 DEF ExchangesCounted
    <3>3. \A t \in 1..MaxTokens : t > tokens' => t > tokens BY <1>8, <2>1
    <3> QED BY <1>1, <1>2, <1>8, <3>2, <3>3 DEF ExchangesCounted
  <2> QED BY <1>4, <2>1, <2>2, <2>3, <2>4, <2>6, <2>7 DEF SessionsInv
<1>9. CASE SaveFails /\ UNCHANGED <<tokens, pendingRow, active, saves>>
  <2>1. SessionsTypeOK' BY <1>1, <1>2, <1>6, <1>9 DEF SessionsTypeOK
  <2>2. saveFaults' \in Nat BY <1>9, FaultsCount
  <2>3. CopiesFollow' /\ ExchangesCounted' /\ OneSessionPerLogin' BY <1>2, <1>9, <2>1, <2>2, RegistryStays
  <2>4. \A k : Spent(k) => Spent(k)' BY <1>2, <1>5, <1>9 DEF Spent
  <2>5. (\A w \in Verifies : active[w] # NoSession => verify[w].pc = "done" /\ Spent(active[w].login))'
    BY <1>1, <1>5, <1>9, <2>4 DEF LoginsSpent
  <2>6. LoginsSpent' BY <1>7, <2>3, <2>5 DEF LoginsSpent
  <2> QED BY <1>4, <1>9, <2>1, <2>3, <2>6 DEF SessionsInv
<1>10. \/ /\ tokens < MaxTokens /\ tokens' = tokens + 1 /\ pendingRow' = pendingRow \ {l}
          /\ active' = [active EXCEPT ![v] = NewSession(l, tokens')] /\ saves' = saves \cup {<<v, active'[v]>>}
          /\ UNCHANGED saveFaults
       \/ SaveFails /\ UNCHANGED <<tokens, pendingRow, active, saves>>
  BY DEF ActivateSession
<1>11. active' = [active EXCEPT ![v] = s] => active'[v] = s BY <1>1 DEF SessionsTypeOK
<1> QED BY <1>8, <1>9, <1>10, <1>11

LEMMA SaveKeeps ==
  ASSUME SessionsInv, NEW v \in Verifies, NEW s, SaveActiveSession(v, s)
  PROVE  SessionsInv' /\ SessionsGoOn
<1>1. SessionsTypeOK /\ CopiesFollow /\ LoginsSpent /\ ExchangesCounted BY DEF SessionsInv
<1>2. /\ <<v, s>> \in saves /\ saves' = saves \ {<<v, s>>}
      /\ row' \in {row, [row EXCEPT ![v] = s]}
      /\ UNCHANGED <<login, pending, pendingRow, verify, active, refresh, tokens, exchanged, users, userRow, restarts>>
      /\ UNCHANGED saveFaults \/ SaveFails
  BY DEF SaveActiveSession, userVars
<1>3. s \in Session /\ saves' \subseteq saves BY <1>1, <1>2 DEF SessionsTypeOK
<1>4. \A w \in Verifies : row'[w] = row[w] \/ (w = v /\ row'[w] = s) BY <1>1, <1>2 DEF SessionsTypeOK
<1>5. SessionsTypeOK' BY <1>1, <1>2, <1>3 DEF SessionsTypeOK
<1>6. SessionsGoOn BY <1>2 DEF SessionsGoOn
<1>7. LoginsSpent' BY <1>1, <1>2, <1>6, SpentStays
<1>8. saveFaults' \in Nat BY <1>1, <1>2, FaultsCount DEF ExchangesCounted
<1>9. ExchangesCounted' BY <1>1, <1>2, <1>8 DEF ExchangesCounted
<1>10. ASSUME NEW w \in Verifies, NEW c \in Copies(w)' PROVE c \in Copies(w)
  <2>1. c # NoSession /\ (c = active'[w] \/ c = row'[w] \/ <<w, c>> \in saves') BY <1>5, CopiesAfter
  <2> QED BY <1>1, <1>2, <1>3, <1>4, <2>1, CopiesMeaning
<1>11. CopiesFollow' BY <1>1, <1>2, <1>10 DEF CopiesFollow
<1> QED BY <1>5, <1>6, <1>7, <1>9, <1>11 DEF SessionsInv

LEMMA LoadKeeps ==
  ASSUME SessionsInv, LoadSessions
  PROVE  SessionsInv' /\ restarts' # restarts /\ restarts' # 0
<1>1. SessionsTypeOK /\ CopiesFollow /\ LoginsSpent /\ ExchangesCounted BY DEF SessionsInv
<1>2. /\ restarts' = restarts + 1 /\ pending' = pendingRow /\ active' = row /\ users' = userRow /\ saves' = {}
      /\ login' = [l \in Logins |-> IF login[l] = "saving" THEN "failed" ELSE login[l]]
      /\ verify' = [v \in Verifies |-> IF verify[v].pc \in {"checked", "removed"}
                                       THEN [verify[v] EXCEPT !.pc = "done"] ELSE verify[v]]
      /\ refresh' = [f \in Refreshes |-> 0]
      /\ UNCHANGED <<pendingRow, row, tokens, exchanged, userRow, saveFaults>>
  BY DEF LoadSessions
<1>3. restarts \in Nat /\ restarts' # restarts /\ restarts' # 0 /\ restarts' \in Nat
  BY <1>1, <1>2 DEF ExchangesCounted
<1>4. SessionsTypeOK'
  <2>1. 0 \in 0..MaxTokens BY SessionsAssumption
  <2>2. verify' \in [Verifies -> [pc : {"idle", "checked", "removed", "done"}, login : Logins]]
    BY <1>1, <1>2 DEF SessionsTypeOK
  <2>3. login' \in [Logins -> {"new", "saving", "answered", "failed"}] BY <1>1, <1>2 DEF SessionsTypeOK
  <2> QED BY <1>1, <1>2, <2>1, <2>2, <2>3 DEF SessionsTypeOK
<1>5. ASSUME NEW v \in Verifies, NEW c \in Copies(v)' PROVE c = row[v] /\ c \in Copies(v)
  <2>1. c # NoSession /\ (c = active'[v] \/ c = row'[v] \/ <<v, c>> \in saves') BY <1>4, CopiesAfter
  <2> QED BY <1>1, <1>2, <2>1, CopiesMeaning
<1>6. CopiesFollow'
  <2>1. ASSUME NEW v \in Verifies, NEW c \in Copies(v)'
        PROVE  /\ active'[v] # NoSession /\ c.login = active'[v].login
               /\ c.token <= active'[v].token /\ c.token <= tokens' /\ c.previous < c.token
    <3>1. c = active'[v] /\ c \in Copies(v) /\ c # NoSession BY <1>2, <1>5, <2>1 DEF Copies
    <3>2. c.token \in Nat BY <1>1, <3>1, CopiesMeaning, SessionFields
    <3> QED BY <1>1, <1>2, <3>1, <3>2 DEF CopiesFollow
  <2>2. ASSUME NEW u \in Verifies, NEW v \in Verifies, NEW c \in Copies(u)', NEW d \in Copies(v)',
               c.token = d.token
        PROVE  u = v
    <3>1. c \in Copies(u) /\ d \in Copies(v) BY <1>5
    <3> QED BY <1>1, <2>2, <3>1 DEF CopiesFollow
  <2> QED BY <2>1, <2>2 DEF CopiesFollow
<1>7. \A v \in Verifies : active'[v] # NoSession =>
        active[v] # NoSession /\ active'[v].login = active[v].login
  <2>1. \A v \in Verifies : row[v] # NoSession => row[v] \in Copies(v) BY <1>1, CopiesMeaning
  <2> QED BY <1>1, <1>2, <2>1 DEF CopiesFollow
<1>8. LoginsSpent'
  <2>1. \A v \in Verifies : verify'[v].pc \notin {"checked", "removed"} /\ (verify[v].pc = "done" => verify'[v].pc = "done")
    BY <1>1, <1>2 DEF SessionsTypeOK
  <2>2. OneSessionPerLogin' BY <1>1, <1>7 DEF LoginsSpent, OneSessionPerLogin
  <2>3. ASSUME NEW v \in Verifies, active'[v] # NoSession
        PROVE  verify'[v].pc = "done" /\ Spent(active[v].login)' /\ active'[v].login = active[v].login
    <3>1. verify[v].pc = "done" /\ Spent(active[v].login) /\ active'[v].login = active[v].login
      BY <1>1, <1>7, <2>3 DEF LoginsSpent
    <3>2. active[v].login \in Logins BY <1>1, <1>7, <2>3, ActiveCases, SessionFields
    <3>3. active'[v].login \in Logins /\ login'[active'[v].login] = "answered"
      BY <1>2, <3>1, <3>2 DEF Spent
    <3>4. active'[v].login \notin pending' /\ active'[v].login \notin pendingRow' BY <1>2, <3>1 DEF Spent
    <3> QED BY <2>1, <3>1, <3>3, <3>4 DEF Spent
  <2>4. (\A v \in Verifies : active[v] # NoSession => verify[v].pc = "done" /\ Spent(active[v].login))'
    BY <2>3
  <2> QED BY <2>1, <2>2, <2>4 DEF LoginsSpent
<1>9. ExchangesCounted'
  <2>1. \A t \in 1..MaxTokens : exchanged[t] \in Nat /\ exchanged[t] <= 1 + restarts
    BY <1>1 DEF ExchangesCounted, SessionsTypeOK
  <2>2. \A v \in Verifies : active'[v] # NoSession => active'[v].token \in 1..MaxTokens
    BY <1>4, SessionFields DEF SessionsTypeOK
  <2>3. \A v \in Verifies : active'[v] # NoSession => exchanged'[active'[v].token] <= restarts'
    BY <1>2, <1>3, <2>1, <2>2
  <2>4. \A t \in 1..MaxTokens : exchanged'[t] <= 1 + restarts' /\ (t > tokens' => exchanged'[t] = 0)
    BY <1>1, <1>2, <1>3, <2>1 DEF ExchangesCounted
  <2> QED BY <1>1, <1>2, <1>3, <2>3, <2>4 DEF ExchangesCounted
<1> QED BY <1>3, <1>4, <1>6, <1>8, <1>9 DEF SessionsInv

----
(* Assessment, step-up, refresh, logout and mitigation. *)

LEMMA PutMarked ==
  ASSUME SessionsInv, NEW v \in Verifies, active[v] \in Session, NEW r, Marks(active[v], r), Put(v, r),
         refresh' \in [Refreshes -> 0..MaxTokens],
         UNCHANGED <<row, tokens, exchanged, login, pending, pendingRow, verify, users, userRow,
                     restarts, saveFaults>>
  PROVE  SessionsInv' /\ SessionsGoOn
<1>1. SessionsTypeOK BY DEF SessionsInv
<1>2. r \in Session /\ active' = [active EXCEPT ![v] = r] /\ saves' = saves \cup {<<v, r>>}
  BY DEF Marks, Put
<1>3. active'[v] = r /\ \A w \in Verifies : w # v => active'[w] = active[w]
  BY <1>1, <1>2 DEF SessionsTypeOK
<1>4. active' \in [Verifies -> Session \cup {NoSession}] BY <1>1, <1>2 DEF SessionsTypeOK
<1>5. \A w \in Verifies : active'[w] = active[w] \/ (active[w] \in Session /\ Marks(active[w], active'[w]))
  BY <1>3
<1>6. \A c \in saves' : c \in saves \/ \E w \in Verifies : active[w] \in Session /\ c = <<w, active'[w]>>
  BY <1>2, <1>3
<1>7. users' \in [Users -> Account \cup {Absent}] /\ userRow' \in [Users -> Account \cup {Absent}]
  BY <1>1 DEF SessionsTypeOK
<1> QED BY <1>4, <1>5, <1>6, <1>7, MarkedKeeps

LEMMA DevicePostureKeeps ==
  ASSUME SessionsInv, NEW v \in Verifies, NEW signal, DevicePosture(v, signal)
  PROVE  SessionsInv' /\ SessionsGoOn
<1> DEFINE s == Assess(active[v], signal)
<1>1. SessionsTypeOK BY DEF SessionsInv
<1>2. /\ active[v] # NoSession
      /\ Put(v, s) \/ (active' = [active EXCEPT ![v] = s] /\ UNCHANGED saves)
      /\ UNCHANGED <<login, pending, pendingRow, verify, row, refresh, tokens, exchanged, users, userRow,
                     restarts, saveFaults>>
  BY DEF DevicePosture, Found, userVars, boundVars
<1>3. active[v] \in Session BY <1>1, <1>2, ActiveCases
<1>4. Marks(active[v], s) BY <1>3, AssessMarks
<1> HIDE DEF s
<1>5. refresh' \in [Refreshes -> 0..MaxTokens] BY <1>1, <1>2 DEF SessionsTypeOK
<1>6. CASE Put(v, s) BY <1>2, <1>3, <1>4, <1>5, <1>6, PutMarked
<1>7. CASE active' = [active EXCEPT ![v] = s] /\ UNCHANGED saves
  <2>1. active'[v] = s /\ \A w \in Verifies : w # v => active'[w] = active[w]
    BY <1>1, <1>7 DEF SessionsTypeOK
  <2>2. active' \in [Verifies -> Session \cup {NoSession}] BY <1>1, <1>4, <1>7 DEF SessionsTypeOK, Marks
  <2>3. \A w \in Verifies : active'[w] = active[w] \/ (active[w] \in Session /\ Marks(active[w], active'[w]))
    BY <1>3, <1>4, <2>1
  <2>4. \A c \in saves' : c \in saves BY <1>7
  <2>5. users' \in [Users -> Account \cup {Absent}] /\ userRow' \in [Users -> Account \cup {Absent}]
    BY <1>1, <1>2 DEF SessionsTypeOK
  <2> QED BY <1>2, <1>5, <2>2, <2>3, <2>4, <2>5, MarkedKeeps
<1> QED BY <1>2, <1>6, <1>7

LEMMA StepUpVerifyKeeps ==
  ASSUME SessionsInv, NEW v \in Verifies, StepUpVerify(v)
  PROVE  SessionsInv' /\ SessionsGoOn
<1> DEFINE r == [Rotated(active[v], tokens + 1) EXCEPT !.stepUp = FALSE, !.challenge = FALSE]
<1>1. SessionsTypeOK BY DEF SessionsInv
<1>2. /\ active[v] # NoSession /\ tokens < MaxTokens /\ tokens' = tokens + 1
      /\ active' = [active EXCEPT ![v] = r] /\ saves' = saves \cup {<<v, r>>} /\ Exchange(active[v].token)
      /\ UNCHANGED <<login, pending, pendingRow, verify, row, refresh, users, userRow, restarts, saveFaults>>
  BY DEF StepUpVerify, Found, Put, userVars, boundVars
<1>3. active[v] \in Session BY <1>1, <1>2, ActiveCases
<1>4. tokens + 1 \in 1..MaxTokens BY <1>1, <1>2, SessionsAssumption DEF SessionsTypeOK
<1>5. /\ r \in Session /\ r.login = active[v].login /\ r.token = tokens + 1 /\ r.previous = active[v].token
      /\ active[v].revoked => r.revoked
  <2>1. active[v].token \in 0..MaxTokens BY <1>3, SessionFields
  <2> QED BY <1>3, <1>4, <2>1 DEF Rotated, Session
<1>6. refresh' \in [Refreshes -> 0..MaxTokens] BY <1>1, <1>2 DEF SessionsTypeOK
<1> HIDE DEF r
<1> QED BY <1>2, <1>3, <1>5, <1>6, RotatedKeeps

LEMMA DetectReplayKeeps ==
  ASSUME SessionsInv, NEW f \in Refreshes, NEW t \in 1..tokens, DetectReplay(f, t)
  PROVE  SessionsInv' /\ SessionsGoOn
<1>1. SessionsTypeOK BY DEF SessionsInv
<1>2. /\ UNCHANGED <<login, pending, pendingRow, verify, row, tokens, exchanged, users, userRow,
                     restarts, saveFaults>>
      /\ \/ refresh' = [refresh EXCEPT ![f] = t] /\ UNCHANGED <<active, saves>>
         \/ /\ \E v \in Replayed(t) : Put(v, [active[v] EXCEPT !.revoked = TRUE])
            /\ UNCHANGED refresh
  BY DEF DetectReplay, userVars, boundVars
<1>3. t \in 0..MaxTokens BY <1>1, SessionsAssumption DEF SessionsTypeOK
<1>4. refresh' \in [Refreshes -> 0..MaxTokens] BY <1>1, <1>2, <1>3 DEF SessionsTypeOK
<1>5. CASE UNCHANGED <<active, saves>>
  <2>1. \A w \in Verifies : active'[w] = active[w] BY <1>5
  <2>2. \A c \in saves' : c \in saves BY <1>5
  <2>3. /\ users' \in [Users -> Account \cup {Absent}] /\ userRow' \in [Users -> Account \cup {Absent}]
        /\ active' \in [Verifies -> Session \cup {NoSession}]
    BY <1>1, <1>2, <1>5 DEF SessionsTypeOK
  <2> QED BY <1>2, <1>4, <2>1, <2>2, <2>3, MarkedKeeps
<1>6. CASE \E v \in Replayed(t) : Put(v, [active[v] EXCEPT !.revoked = TRUE])
  <2>1. PICK v \in Verifies : active[v] # NoSession /\ Put(v, [active[v] EXCEPT !.revoked = TRUE])
    BY <1>6 DEF Replayed
  <2>2. active[v] \in Session BY <1>1, <2>1, ActiveCases
  <2>3. Marks(active[v], [active[v] EXCEPT !.revoked = TRUE]) BY <2>2, MarkFields
  <2> QED BY <1>2, <1>4, <2>1, <2>2, <2>3, PutMarked
<1> QED BY <1>2, <1>5, <1>6

LEMMA RotateKeeps ==
  ASSUME SessionsInv, NEW f \in Refreshes, RotateRefreshToken(f)
  PROVE  SessionsInv' /\ SessionsGoOn
<1> DEFINE ok == {v \in Found(refresh[f]) : ~active[v].stepUp}
<1>1. SessionsTypeOK BY DEF SessionsInv
<1>2. /\ UNCHANGED <<login, pending, pendingRow, verify, row, users, userRow, restarts, saveFaults>>
      /\ refresh' = [refresh EXCEPT ![f] = 0]
      /\ \/ UNCHANGED <<active, saves, tokens, exchanged>>
         \/ /\ tokens # MaxTokens /\ tokens' = tokens + 1 /\ Exchange(refresh[f])
            /\ \E v \in ok : Put(v, Rotated(active[v], tokens + 1))
  BY DEF RotateRefreshToken, userVars, boundVars
<1>3. refresh' \in [Refreshes -> 0..MaxTokens] BY <1>1, <1>2, SessionsAssumption DEF SessionsTypeOK
<1>4. CASE UNCHANGED <<active, saves, tokens, exchanged>>
  <2>1. \A w \in Verifies : active'[w] = active[w] BY <1>4
  <2>2. \A c \in saves' : c \in saves BY <1>4
  <2>3. /\ users' \in [Users -> Account \cup {Absent}] /\ userRow' \in [Users -> Account \cup {Absent}]
        /\ active' \in [Verifies -> Session \cup {NoSession}]
    BY <1>1, <1>2, <1>4 DEF SessionsTypeOK
  <2> QED BY <1>2, <1>3, <1>4, <2>1, <2>2, <2>3, MarkedKeeps
<1>5. CASE /\ tokens # MaxTokens /\ tokens' = tokens + 1 /\ Exchange(refresh[f])
           /\ \E v \in ok : Put(v, Rotated(active[v], tokens + 1))
  <2>1. PICK v \in Verifies : active[v] # NoSession /\ active[v].token = refresh[f]
                              /\ Put(v, Rotated(active[v], tokens + 1))
    BY <1>5 DEF Found
  <2> DEFINE r == Rotated(active[v], tokens + 1)
  <2>2. active[v] \in Session BY <1>1, <2>1, ActiveCases
  <2>3. tokens < MaxTokens /\ tokens + 1 \in 1..MaxTokens
    BY <1>1, <1>5, SessionsAssumption DEF SessionsTypeOK
  <2>4. /\ r \in Session /\ r.login = active[v].login /\ r.token = tokens + 1 /\ r.previous = active[v].token
        /\ active[v].revoked => r.revoked
    <3>1. active[v].token \in 0..MaxTokens BY <2>2, SessionFields
    <3> QED BY <2>2, <2>3, <3>1 DEF Rotated, Session
  <2>5. active' = [active EXCEPT ![v] = r] /\ saves' = saves \cup {<<v, r>>} BY <2>1 DEF Put
  <2> HIDE DEF r
  <2>6. Exchange(active[v].token) BY <1>5, <2>1
  <2> QED BY <1>2, <1>3, <1>5, <2>2, <2>3, <2>4, <2>5, <2>6, RotatedKeeps
<1> QED BY <1>2, <1>4, <1>5

LEMMA LogoutKeeps ==
  ASSUME SessionsInv, NEW v \in Verifies, Logout(v)
  PROVE  SessionsInv' /\ SessionsGoOn
<1>1. SessionsTypeOK BY DEF SessionsInv
<1>2. /\ active[v] # NoSession /\ Put(v, [active[v] EXCEPT !.revoked = TRUE])
      /\ UNCHANGED <<login, pending, pendingRow, verify, row, refresh, tokens, exchanged, users, userRow,
                     restarts, saveFaults>>
  BY DEF Logout, Found, userVars, boundVars
<1>3. active[v] \in Session BY <1>1, <1>2, ActiveCases
<1>4. Marks(active[v], [active[v] EXCEPT !.revoked = TRUE]) BY <1>3, MarkFields
<1>5. refresh' \in [Refreshes -> 0..MaxTokens] BY <1>1, <1>2 DEF SessionsTypeOK
<1> QED BY <1>2, <1>3, <1>4, <1>5, PutMarked

LEMMA MitigateKeeps ==
  ASSUME SessionsInv, NEW u, NEW a \in {"StepUpAuth", "TerminateSession"}, Mitigate(u, a)
  PROVE  SessionsInv' /\ SessionsGoOn
<1> DEFINE hit == {v \in Verifies : /\ active[v] # NoSession /\ Owner[active[v].login] = u
                                    /\ ~active[v].revoked
                                    /\ a = "StepUpAuth" => ~active[v].stepUp}
           changed(s) == IF a = "StepUpAuth" THEN [s EXCEPT !.stepUp = TRUE]
                         ELSE [s EXCEPT !.revoked = TRUE, !.stepUp = FALSE]
<1>1. SessionsTypeOK BY DEF SessionsInv
<1>2. /\ active' = [v \in Verifies |-> IF v \in hit THEN changed(active[v]) ELSE active[v]]
      /\ saves' = saves \cup {<<v, changed(active[v])>> : v \in hit}
      /\ UNCHANGED <<login, pending, pendingRow, verify, row, refresh, tokens, exchanged, users, userRow,
                     restarts, saveFaults>>
  BY DEF Mitigate, userVars, boundVars
<1>3. \A v \in hit : v \in Verifies /\ active[v] \in Session BY <1>1, ActiveCases
<1>4. \A s \in Session : Marks(s, changed(s)) BY MarkFields
<1> HIDE DEF hit, changed
<1>5. \A v \in Verifies : /\ v \in hit => active'[v] = changed(active[v])
                          /\ v \notin hit => active'[v] = active[v]
  BY <1>2
<1>6. \A v \in Verifies : active'[v] = active[v] \/ (active[v] \in Session /\ Marks(active[v], active'[v]))
  BY <1>3, <1>4, <1>5
<1>7. active' \in [Verifies -> Session \cup {NoSession}]
  <2>1. \A v \in Verifies : active'[v] \in Session \cup {NoSession}
    BY <1>1, <1>6 DEF Marks, SessionsTypeOK
  <2> QED BY <1>2, <2>1
<1>8. ASSUME NEW c \in saves'
      PROVE  c \in saves \/ \E v \in Verifies : active[v] \in Session /\ c = <<v, active'[v]>>
  BY <1>2, <1>3, <1>5
<1>9. /\ users' \in [Users -> Account \cup {Absent}] /\ userRow' \in [Users -> Account \cup {Absent}]
      /\ refresh' \in [Refreshes -> 0..MaxTokens]
  BY <1>1, <1>2 DEF SessionsTypeOK
<1> QED BY <1>2, <1>6, <1>7, <1>8, <1>9, MarkedKeeps

\* Every step but the restart keeps what the sessions rest on, and revives no session.
LEMMA SessionsStep ==
  ASSUME SessionsInv, SessionsNext
  PROVE  /\ SessionsInv'
         /\ \/ SessionsGoOn
            \/ \E v \in Verifies : ActivateSession(v)
<1>1. ASSUME NEW l \in Logins, LoginHandler(l) PROVE SessionsInv' /\ SessionsGoOn
  BY <1>1, StartPendingKeeps DEF LoginHandler
<1>2. ASSUME NEW l \in Logins, SsoPending(l) PROVE SessionsInv' /\ SessionsGoOn
  BY <1>2, StartPendingKeeps DEF SsoPending
<1>3. ASSUME NEW l \in Logins, SsoCallback(l) \/ SavePendingSession(l) PROVE SessionsInv' /\ SessionsGoOn
  BY <1>3, SsoCallbackKeeps, SavePendingKeeps
<1>4. ASSUME NEW v \in Verifies, NEW l \in Logins, VerifyChallenge(v, l) PROVE SessionsInv' /\ SessionsGoOn
  BY <1>4, VerifyChallengeKeeps
<1>5. ASSUME NEW v \in Verifies, RemovePending(v) \/ StepUpVerify(v) \/ Logout(v)
      PROVE  SessionsInv' /\ SessionsGoOn
  BY <1>5, RemovePendingKeeps, StepUpVerifyKeeps, LogoutKeeps
<1>6. ASSUME NEW v \in Verifies, ActivateSession(v) PROVE SessionsInv' BY <1>6, ActivateKeeps
<1>7. ASSUME NEW v \in Verifies, NEW signal \in Signals, DevicePosture(v, signal)
      PROVE  SessionsInv' /\ SessionsGoOn
  BY <1>7, DevicePostureKeeps
<1>8. ASSUME NEW f \in Refreshes, NEW t \in 1..tokens, DetectReplay(f, t) PROVE SessionsInv' /\ SessionsGoOn
  BY <1>8, DetectReplayKeeps
<1>9. ASSUME NEW f \in Refreshes, RotateRefreshToken(f) PROVE SessionsInv' /\ SessionsGoOn
  BY <1>9, RotateKeeps
<1>10. ASSUME NEW u \in Users, NEW a \in {"StepUpAuth", "TerminateSession"}, Mitigate(u, a)
       PROVE  SessionsInv' /\ SessionsGoOn
  BY <1>10, MitigateKeeps
<1>11. ASSUME NEW c \in saves, SaveActiveSession(c[1], c[2]) PROVE SessionsInv' /\ SessionsGoOn
  <2>1. c[1] \in Verifies BY DEF SessionsInv, SessionsTypeOK
  <2> QED BY <1>11, <2>1, SaveKeeps
<1> QED BY <1>1, <1>2, <1>3, <1>4, <1>5, <1>6, <1>7, <1>8, <1>9, <1>10, <1>11 DEF SessionsNext

----
(* Requests, their patches and their plans. *)

LEMMA PatchFields ==
  ASSUME NEW p \in GroupPatch \cup UserPatch
  PROVE  /\ p.kind = "group" =>
              /\ p \in GroupPatch /\ p.id \in Groups
              /\ p.op \in {"Upsert", "Patch", "PatchMembers", "Disable", "Delete"}
              /\ p.op = "Upsert" => p.group \in Group
              /\ p.op = "Patch" => p.active \in BOOLEAN
              /\ p.op = "PatchMembers" => p.add \subseteq Users /\ p.remove \subseteq Users
         /\ p.kind = "user" =>
              /\ p \in UserPatch /\ p.id \in Users
              /\ p.op \in {"Upsert", "Patch", "Disable", "Delete"}
              /\ p.op \in {"Upsert", "Patch"} => p.active \in BOOLEAN
         /\ p \in GroupPatch => p.kind = "group"
         /\ p \in UserPatch => p.kind = "user"
  BY DEF GroupPatch, UserPatch

LEMMA IdleJobTyped == IdleJob \in JobRecord /\ IdleJob.pc = "idle"
<1>1. <<>> \in {<<>>} \cup (GroupPatch \X (Group \cup {NoGroup})) \cup (UserPatch \X (Account \cup {Absent}))
  OBVIOUS
<1>2. [u \in Users |-> Gone] \in [Users -> {"active", "inactive", Gone}] OBVIOUS
<1>3. [g \in Groups |-> NoGroup] \in [Groups -> Group \cup {NoGroup}] OBVIOUS
<1> QED BY <1>1, <1>2, <1>3 DEF IdleJob, JobRecord, Policy

\* The job of j goes on with r.
LEMMA JobsSet ==
  ASSUME JobsOK, NEW j \in Jobs, NEW r \in JobRecord, r.pc = "save" => r.write # <<>>,
         job' = [job EXCEPT ![j] = r]
  PROVE  JobsOK' /\ job'[j] = r /\ \A k \in Jobs : k # j => job'[k] = job[k]
  BY DEF JobsOK

LEMMA JobsContinue ==
  ASSUME JobsOK, NEW j \in Jobs, NEW r \in JobRecord, r.pc = "save" => r.write # <<>>, Continue(j, r)
  PROVE  JobsOK' /\ job'[j] = r /\ \A k \in Jobs : k # j => job'[k].pc = "idle" \/ ~job'[k].clean
<1>1. job' = [k \in Jobs |-> IF k = j THEN r ELSE [job[k] EXCEPT !.clean = job[k].pc = "idle"]]
  BY DEF Continue
<1>2. \A k \in Jobs : job[k] \in JobRecord /\ (job[k].pc = "save" => job[k].write # <<>>) BY DEF JobsOK
<1>3. \A k \in Jobs : LET s == [job[k] EXCEPT !.clean = job[k].pc = "idle"]
                      IN  /\ s \in JobRecord /\ s.pc = job[k].pc /\ s.write = job[k].write
                          /\ s.clean = (job[k].pc = "idle")
  BY <1>2 DEF JobRecord
<1> QED BY <1>1, <1>2, <1>3 DEF JobsOK

LEMMA PlanStays ==
  ASSUME NEW k \in Jobs, PlanCovers(k), UNCHANGED <<groups, users>>,
         job'[k].todo = job[k].todo, job'[k].groups = job[k].groups, job'[k].users = job[k].users,
         job'[k].policy = job[k].policy
  PROVE  PlanCovers(k)'
<1>1. \A g, x, y : GroupMatches(g, x, y) => GroupMatches(g, x, y)' BY DEF GroupMatches
<1>2. \A u, x, y : UserMatches(u, x, y) => UserMatches(u, x, y)' BY DEF UserMatches, Managed, Known
<1>3. \A p : InPlan(p, k) => InPlan(p, k)' BY DEF InPlan
<1>4. (\A p \in job[k].todo : InPlan(p, k))' BY <1>3 DEF PlanCovers
<1>5. (\A g \in Groups : \/ \E p \in job[k].todo : p.kind = "group" /\ p.id = g
                         \/ GroupMatches(g, job[k].groups[g], job[k].policy))'
  BY <1>1 DEF PlanCovers
<1>6. (\A u \in Users : \/ \E p \in job[k].todo : p.kind = "user" /\ p.id = u
                        \/ UserMatches(u, job[k].users[u], job[k].policy))'
  BY <1>2 DEF PlanCovers
<1> QED BY <1>4, <1>5, <1>6 DEF PlanCovers

LEMMA CourseKept ==
  ASSUME SyncsOnCourse, UNCHANGED <<groups, users>>, NEW j \in Jobs,
         \A k \in Jobs : k # j => job'[k] = job[k],
         job'[j].pc \in {"apply", "save"} /\ job'[j].sync /\ job'[j].clean => PlanCovers(j)'
  PROVE  SyncsOnCourse'
<1>1. ASSUME NEW k \in Jobs, k # j, job'[k].pc \in {"apply", "save"}, job'[k].sync, job'[k].clean
      PROVE  PlanCovers(k)'
  <2>1. PlanCovers(k) BY <1>1 DEF SyncsOnCourse
  <2> QED BY <1>1, <2>1, PlanStays
<1> QED BY <1>1 DEF SyncsOnCourse

LEMMA SyncPlanTyped ==
  ASSUME NEW snapshot \in Directory, NEW policy
  PROVE  BuildScimSyncPlan(snapshot, policy) \subseteq GroupPatch \cup UserPatch
<1>1. /\ \A g \in Groups : snapshot.groups[g] # NoGroup => snapshot.groups[g] \in Group
      /\ \A u \in Users : (snapshot.users[u] = "active") \in BOOLEAN
  BY DEF Directory
<1>2. GroupPatches(snapshot, policy) \subseteq GroupPatch BY <1>1 DEF GroupPatches, GroupPatch
<1>3. UserPatches(snapshot, policy) \subseteq UserPatch
  <2>1. ASSUME NEW u \in Users, NEW b \in BOOLEAN
        PROVE  [kind |-> "user", op |-> "Upsert", id |-> u, active |-> b] \in UserPatch
    BY DEF UserPatch
  <2>2. ASSUME NEW u \in Users, NEW o \in {"Disable", "Delete"}
        PROVE  [kind |-> "user", id |-> u, op |-> o] \in UserPatch
    BY DEF UserPatch
  <2>3. (IF policy.deleteUsers THEN "Delete" ELSE "Disable") \in {"Disable", "Delete"} OBVIOUS
  <2> QED BY <1>1, <2>1, <2>2, <2>3 DEF UserPatches
<1> QED BY <1>2, <1>3 DEF BuildScimSyncPlan

LEMMA AccountIs ==
  ASSUME NEW a \in Account, NEW b \in BOOLEAN, a.active = b, a.source = "Scim"
  PROVE  a = [active |-> b, source |-> "Scim"]
  BY DEF Account

\* The plan holds a patch for all that differs, and for nothing else.
LEMMA SyncPlanCovers ==
  ASSUME NEW j \in Jobs, NEW snapshot \in Directory, users \in [Users -> Account \cup {Absent}],
         UNCHANGED <<groups, users>>, job'[j].groups = snapshot.groups, job'[j].users = snapshot.users,
         job'[j].todo = BuildScimSyncPlan(snapshot, job'[j].policy)
  PROVE  PlanCovers(j)'
<1> DEFINE policy == job'[j].policy
           gs == {g \in Groups : snapshot.groups[g] # NoGroup /\ groups[g] # snapshot.groups[g]}
           gone == {g \in Groups : /\ groups[g] # NoGroup /\ snapshot.groups[g] = NoGroup
                                   /\ policy.deleteGroups \/ (policy.disableGroups /\ groups[g].active)}
           us == {u \in Users : snapshot.users[u] # Gone /\ ~SameUser(u, snapshot)}
           left == {u \in Users : /\ Managed(u) /\ snapshot.users[u] = Gone
                                  /\ policy.deleteUsers \/ (policy.disableUsers /\ users[u].active)}
           gp(g) == [kind |-> "group", op |-> "Upsert", id |-> g, group |-> snapshot.groups[g]]
           gd(g) == [kind |-> "group", id |-> g, op |-> IF policy.deleteGroups THEN "Delete" ELSE "Disable"]
           up(u) == [kind |-> "user", op |-> "Upsert", id |-> u, active |-> snapshot.users[u] = "active"]
           ud(u) == [kind |-> "user", id |-> u, op |-> IF policy.deleteUsers THEN "Delete" ELSE "Disable"]
<1>1. job'[j].todo = {gp(g) : g \in gs} \cup {gd(g) : g \in gone} \cup {up(u) : u \in us} \cup {ud(u) : u \in left}
  BY DEF BuildScimSyncPlan, GroupPatches, UserPatches
<1>2. /\ \A g : gp(g).kind = "group" /\ gp(g).id = g /\ gp(g).op = "Upsert" /\ gp(g).group = snapshot.groups[g]
      /\ \A g : gd(g).kind = "group" /\ gd(g).id = g
                /\ gd(g).op = IF policy.deleteGroups THEN "Delete" ELSE "Disable"
      /\ \A u : up(u).kind = "user" /\ up(u).id = u /\ up(u).op = "Upsert"
                /\ up(u).active = (snapshot.users[u] = "active")
      /\ \A u : ud(u).kind = "user" /\ ud(u).id = u
                /\ ud(u).op = IF policy.deleteUsers THEN "Delete" ELSE "Disable"
  OBVIOUS
<1>3. /\ \A g \in gs : snapshot.groups[g] # NoGroup
      /\ \A g \in gone : snapshot.groups[g] = NoGroup
      /\ \A u \in us : snapshot.users[u] # Gone
      /\ \A u \in left : snapshot.users[u] = Gone
  OBVIOUS
<1>4. ASSUME NEW g \in Groups, g \notin gs, g \notin gone
      PROVE  GroupMatches(g, snapshot.groups[g], policy)
  <2>1. NoGroup.active = FALSE BY DEF NoGroup
  <2>2. CASE snapshot.groups[g] # NoGroup BY <1>4, <2>2 DEF GroupMatches
  <2>3. CASE snapshot.groups[g] = NoGroup
    <3>1. groups[g] = NoGroup \/ (~policy.deleteGroups /\ ~(policy.disableGroups /\ groups[g].active))
      BY <1>4, <2>3
    <3> QED BY <2>1, <2>3, <3>1 DEF GroupMatches
  <2> QED BY <2>2, <2>3
<1>5. ASSUME NEW u \in Users, u \notin us, u \notin left
      PROVE  UserMatches(u, snapshot.users[u], policy)
  <2>1. CASE snapshot.users[u] # Gone
    <3>1. Managed(u) /\ users[u].active = (snapshot.users[u] = "active") BY <1>5, <2>1 DEF SameUser
    <3>2. users[u] \in Account /\ users[u].source = "Scim" BY <3>1 DEF Managed, Known
    <3>3. users[u] = [active |-> snapshot.users[u] = "active", source |-> "Scim"] BY <3>1, <3>2, AccountIs
    <3> QED BY <2>1, <3>3 DEF UserMatches
  <2>2. CASE snapshot.users[u] = Gone BY <1>5, <2>2 DEF UserMatches
  <2> QED BY <2>1, <2>2
<1> HIDE DEF gs, gone, us, left, gp, gd, up, ud
<1>6. ASSUME NEW p \in job'[j].todo PROVE InPlan(p, j)'
  <2>1. CASE \E g \in gs : p = gp(g) BY <1>2, <1>3, <2>1 DEF InPlan
  <2>2. CASE \E g \in gone : p = gd(g) BY <1>2, <1>3, <2>2 DEF InPlan
  <2>3. CASE \E u \in us : p = up(u) BY <1>2, <1>3, <2>3 DEF InPlan
  <2>4. CASE \E u \in left : p = ud(u) BY <1>2, <1>3, <2>4 DEF InPlan
  <2> QED BY <1>1, <2>1, <2>2, <2>3, <2>4
<1>7. ASSUME NEW g \in Groups
      PROVE  \/ \E p \in job'[j].todo : p.kind = "group" /\ p.id = g
             \/ GroupMatches(g, job[j].groups[g], job[j].policy)'
  <2>1. CASE g \in gs \/ g \in gone BY <1>1, <1>2, <2>1
  <2>2. CASE g \notin gs /\ g \notin gone BY <1>4, <2>2 DEF GroupMatches
  <2> QED BY <2>1, <2>2
<1>8. ASSUME NEW u \in Users
      PROVE  \/ \E p \in job'[j].todo : p.kind = "user" /\ p.id = u
             \/ UserMatches(u, job[j].users[u], job[j].policy)'
  <2>1. CASE u \in us \/ u \in left BY <1>1, <1>2, <2>1
  <2>2. CASE u \notin us /\ u \notin left BY <1>5, <2>2 DEF UserMatches, Managed, Known
  <2> QED BY <2>1, <2>2
<1> QED BY <1>6, <1>7, <1>8 DEF PlanCovers

----
(* The steps of a request. *)

LEMMA BeginKeeps ==
  ASSUME ScimInv, NEW j \in Jobs, NEW r \in JobRecord, r.pc \in {"apply", "groups"}, r.pc = "apply" => ~r.sync,
         Begin(j, r), UNCHANGED <<groups, groupRow, provider, cursors, providerSteps, users>>
  PROVE  ScimInv'
<1>1. DirectoryTyped /\ JobsOK /\ SyncsOnCourse /\ SyncConverges BY DEF ScimInv
<1>2. JobsOK' /\ job'[j] = r /\ \A k \in Jobs : k # j => job'[k] = job[k] BY <1>1, JobsSet DEF Begin
<1>3. SyncsOnCourse' BY <1>1, <1>2, CourseKept
<1>4. DirectoryTyped' BY <1>1, ScimAssumption DEF DirectoryTyped, Begin
<1>5. SyncConverges' BY <1>1 DEF SyncConverges
<1> QED BY <1>2, <1>3, <1>4, <1>5 DEF ScimInv

LEMMA ScimPatchKeeps ==
  ASSUME ScimInv, NEW j \in Jobs, NEW p \in Patches, ScimPatch(j, p)
  PROVE  ScimInv'
<1> DEFINE r == [IdleJob EXCEPT !.pc = "apply", !.todo = {p}]
<1>1. p \in GroupPatch \cup UserPatch BY DEF Patches, GroupPatch
<1>2. r \in JobRecord /\ r.pc = "apply" /\ ~r.sync
  <2>1. IdleJob \in JobRecord /\ ~IdleJob.sync BY IdleJobTyped DEF IdleJob
  <2> QED BY <1>1, <2>1 DEF JobRecord
<1>3. Begin(j, r) /\ UNCHANGED <<groups, groupRow, provider, cursors, providerSteps, users>>
  BY DEF ScimPatch, userVars
<1> HIDE DEF r
<1> QED BY <1>2, <1>3, BeginKeeps

LEMMA PullUsersKeeps ==
  ASSUME ScimInv, NEW j \in Jobs, NEW policy \in Policies, PullUsers(j, policy)
  PROVE  ScimInv'
<1> DEFINE r == [IdleJob EXCEPT !.pc = "groups", !.sync = TRUE, !.policy = policy, !.users = provider.users]
<1>1. r \in JobRecord /\ r.pc = "groups"
  <2>1. IdleJob \in JobRecord BY IdleJobTyped
  <2>2. policy \in Policy BY ScimAssumption
  <2>3. provider.users \in [Users -> {"active", "inactive", Gone}]
    BY DEF ScimInv, DirectoryTyped, Directory
  <2> QED BY <2>1, <2>2, <2>3 DEF JobRecord
<1>2. Begin(j, r) /\ UNCHANGED <<groups, groupRow, provider, cursors, providerSteps, users>>
  BY DEF PullUsers, userVars
<1> HIDE DEF r
<1> QED BY <1>1, <1>2, BeginKeeps

LEMMA PullGroupsKeeps ==
  ASSUME SessionsInv, ScimInv, NEW j \in Jobs, PullGroups(j)
  PROVE  ScimInv'
<1> DEFINE snapshot == [users |-> job[j].users, groups |-> provider.groups]
           plan == BuildScimSyncPlan(snapshot, job[j].policy)
           r == [job[j] EXCEPT !.pc = "apply", !.clean = TRUE, !.groups = provider.groups, !.todo = plan]
<1>1. DirectoryTyped /\ JobsOK /\ SyncsOnCourse /\ SyncConverges BY DEF ScimInv
<1>2. /\ job' = [job EXCEPT ![j] = r]
      /\ UNCHANGED <<groups, groupRow, provider, served, cursors, providerSteps, users>>
  BY DEF PullGroups, userVars
<1>3. job[j] \in JobRecord /\ provider.groups \in [Groups -> Group \cup {NoGroup}]
  BY <1>1 DEF JobsOK, DirectoryTyped, Directory
<1>4. snapshot \in Directory BY <1>3 DEF Directory, JobRecord
<1>5. plan \subseteq GroupPatch \cup UserPatch BY <1>4, SyncPlanTyped
<1> HIDE DEF plan
<1>6. /\ r \in JobRecord /\ r.pc = "apply" /\ r.groups = provider.groups /\ r.users = job[j].users
      /\ r.todo = plan /\ r.policy = job[j].policy
  BY <1>3, <1>5 DEF JobRecord
<1> HIDE DEF r
<1>7. JobsOK' /\ job'[j] = r /\ \A k \in Jobs : k # j => job'[k] = job[k] BY <1>1, <1>2, <1>6, JobsSet
<1>8. PlanCovers(j)'
  <2>1. users \in [Users -> Account \cup {Absent}] BY DEF SessionsInv, SessionsTypeOK
  <2>2. job'[j].groups = snapshot.groups /\ job'[j].users = snapshot.users BY <1>6, <1>7
  <2>3. job'[j].todo = BuildScimSyncPlan(snapshot, job'[j].policy) BY <1>6, <1>7 DEF plan
  <2> HIDE DEF snapshot
  <2> QED BY <1>2, <1>4, <2>1, <2>2, <2>3, SyncPlanCovers
<1>9. SyncsOnCourse' BY <1>1, <1>2, <1>7, <1>8, CourseKept
<1>10. DirectoryTyped' /\ SyncConverges' BY <1>1, <1>2 DEF DirectoryTyped, SyncConverges
<1> QED BY <1>7, <1>9, <1>10 DEF ScimInv

\* A request that ends, with or without a cursor.
LEMMA EndKeeps ==
  ASSUME ScimInv, NEW j \in Jobs, job' = [job EXCEPT ![j] = IdleJob], SyncConverges', DirectoryTyped',
         UNCHANGED <<groups, users>>
  PROVE  ScimInv'
<1>1. JobsOK /\ SyncsOnCourse /\ IdleJob \in JobRecord /\ IdleJob.pc = "idle" BY IdleJobTyped DEF ScimInv
<1>2. JobsOK' /\ job'[j] = IdleJob /\ \A k \in Jobs : k # j => job'[k] = job[k] BY <1>1, JobsSet
<1>3. SyncsOnCourse' BY <1>1, <1>2, CourseKept
<1> QED BY <1>2, <1>3 DEF ScimInv

LEMMA PullFailsKeeps ==
  ASSUME ScimInv, NEW j \in Jobs, PullFails(j)
  PROVE  ScimInv'
<1>1. job' = [job EXCEPT ![j] = IdleJob]
      /\ UNCHANGED <<groups, groupRow, provider, served, cursors, providerSteps, users>>
  BY DEF PullFails, userVars
<1>2. DirectoryTyped' /\ SyncConverges' BY <1>1 DEF ScimInv, DirectoryTyped, SyncConverges
<1> QED BY <1>1, <1>2, EndKeeps

LEMMA SetCursorKeeps ==
  ASSUME ScimInv, NEW j \in Jobs, SetCursor(j)
  PROVE  ScimInv'
<1>1. DirectoryTyped /\ JobsOK /\ SyncsOnCourse /\ SyncConverges BY DEF ScimInv
<1> DEFINE c == [clean |-> job[j].clean, matches |-> Matches(job[j], job[j].policy)]
<1>2. /\ job[j].pc = "apply" /\ job[j].todo = {} /\ job' = [job EXCEPT ![j] = IdleJob]
      /\ cursors' = IF job[j].sync THEN cursors \cup {c} ELSE cursors
      /\ UNCHANGED <<groups, groupRow, provider, served, providerSteps, users>>
  BY DEF SetCursor, userVars
<1>3. DirectoryTyped' BY <1>1, <1>2 DEF DirectoryTyped
<1>4. job[j].sync /\ job[j].clean => Matches(job[j], job[j].policy)
  <2>1. job[j].sync /\ job[j].clean => PlanCovers(j) BY <1>1, <1>2 DEF SyncsOnCourse
  <2>2. ASSUME PlanCovers(j), NEW g \in Groups PROVE GroupMatches(g, job[j].groups[g], job[j].policy)
    BY <1>2, <2>2 DEF PlanCovers
  <2>3. ASSUME PlanCovers(j), NEW u \in Users PROVE UserMatches(u, job[j].users[u], job[j].policy)
    BY <1>2, <2>3 DEF PlanCovers
  <2> QED BY <2>1, <2>2, <2>3 DEF Matches
<1>5. job[j].sync => (c.clean => c.matches) BY <1>4
<1> HIDE DEF c
<1>6. SyncConverges' BY <1>1, <1>2, <1>5 DEF SyncConverges
<1> QED BY <1>2, <1>3, <1>6, EndKeeps

LEMMA ProviderKeeps ==
  ASSUME ScimInv, NEW d \in ProviderStates, ProviderChanges(d)
  PROVE  ScimInv'
<1>1. DirectoryTyped /\ JobsOK /\ SyncsOnCourse /\ SyncConverges BY DEF ScimInv
<1>2. /\ provider' = d /\ providerSteps < MaxProviderSteps /\ providerSteps' = providerSteps + 1
      /\ UNCHANGED <<groups, groupRow, job, served, cursors, users>>
  BY DEF ProviderChanges, userVars
<1>3. d \in Directory
  <2>1. provider.users \in [Users -> {"active", "inactive", Gone}]
        /\ provider.groups \in [Groups -> Group \cup {NoGroup}]
    BY <1>1 DEF DirectoryTyped, Directory
  <2>2. [active |-> TRUE, members |-> {}] \in Group BY DEF Group
  <2>3. d.users \in [Users -> {"active", "inactive", Gone}] BY <2>1 DEF ProviderStates
  <2>4. d.groups \in [Groups -> Group \cup {NoGroup}]
    <3>1. \/ d.groups = provider.groups
          \/ \E g \in Groups, x \in {NoGroup, [active |-> TRUE, members |-> {}]} :
               d.groups = [provider.groups EXCEPT ![g] = x]
      BY DEF ProviderStates
    <3>2. ASSUME NEW g \in Groups, NEW x \in {NoGroup, [active |-> TRUE, members |-> {}]}
          PROVE  [provider.groups EXCEPT ![g] = x] \in [Groups -> Group \cup {NoGroup}]
      <4>1. x \in Group \cup {NoGroup} BY <2>2
      <4> QED BY <2>1, <4>1
    <3>3. ASSUME NEW g \in Groups, NEW x \in {NoGroup, [active |-> TRUE, members |-> {}]},
                 d.groups = [provider.groups EXCEPT ![g] = x]
          PROVE  d.groups \in [Groups -> Group \cup {NoGroup}]
      BY <3>2, <3>3
    <3> QED BY <2>1, <3>1, <3>3
  <2>5. d = [users |-> d.users, groups |-> d.groups] BY DEF ProviderStates
  <2> QED BY <2>3, <2>4, <2>5 DEF Directory
<1>4. DirectoryTyped' BY <1>1, <1>2, <1>3, ScimAssumption DEF DirectoryTyped
<1>5. SyncsOnCourse'
  <2>1. \A k \in Jobs : PlanCovers(k) => PlanCovers(k)' BY <1>2, PlanStays
  <2> QED BY <1>1, <1>2, <2>1 DEF SyncsOnCourse
<1>6. JobsOK' /\ SyncConverges' BY <1>1, <1>2 DEF JobsOK, SyncConverges
<1> QED BY <1>4, <1>5, <1>6 DEF ScimInv

LEMMA SavePatchKeeps ==
  ASSUME SessionsInv, ScimInv, NEW j \in Jobs, SavePatch(j)
  PROVE  /\ ScimInv' /\ UNCHANGED <<users, restarts, sessionVars>>
         /\ userRow' \in [Users -> Account \cup {Absent}] /\ saveFaults' \in Nat
<1>1. DirectoryTyped /\ JobsOK /\ SyncsOnCourse /\ SyncConverges BY DEF ScimInv
<1> DEFINE p == job[j].write[1]
           copy == job[j].write[2]
           r == [job[j] EXCEPT !.pc = "apply", !.write = <<>>]
<1>2. /\ job[j].pc = "save" /\ UNCHANGED <<groups, provider, served, cursors, providerSteps, users, restarts, sessionVars>>
      /\ \/ /\ \/ p.kind = "user" /\ userRow' = [userRow EXCEPT ![p.id] = copy] /\ UNCHANGED groupRow
               \/ p.kind # "user" /\ groupRow' = [groupRow EXCEPT ![p.id] = copy] /\ UNCHANGED userRow
            /\ job' = [job EXCEPT ![j] = r] /\ UNCHANGED saveFaults
         \/ SaveFails /\ job' = [job EXCEPT ![j] = IdleJob] /\ UNCHANGED <<userRow, groupRow>>
  BY DEF SavePatch
<1>3. job[j] \in JobRecord /\ job[j].write # <<>> BY <1>1, <1>2 DEF JobsOK
<1>4. \/ p \in GroupPatch /\ copy \in Group \cup {NoGroup}
      \/ p \in UserPatch /\ copy \in Account \cup {Absent}
  BY <1>3 DEF JobRecord
<1>5. /\ p.kind = "user" => copy \in Account \cup {Absent}
      /\ p.kind # "user" => copy \in Group \cup {NoGroup}
  BY <1>4, PatchFields
<1> HIDE DEF p, copy
<1>6. userRow' \in [Users -> Account \cup {Absent}] BY <1>2, <1>5 DEF SessionsInv, SessionsTypeOK
<1>7. DirectoryTyped' /\ SyncConverges' BY <1>1, <1>2, <1>5 DEF DirectoryTyped, SyncConverges
<1>8. saveFaults' \in Nat BY <1>2, FaultsCount DEF SessionsInv, ExchangesCounted
<1>9. CASE job' = [job EXCEPT ![j] = r]
  <2>1. /\ r \in JobRecord /\ r.pc = "apply" /\ r.todo = job[j].todo /\ r.groups = job[j].groups
        /\ r.users = job[j].users /\ r.policy = job[j].policy /\ r.sync = job[j].sync /\ r.clean = job[j].clean
    BY <1>3 DEF JobRecord
  <2> HIDE DEF r
  <2>2. JobsOK' /\ job'[j] = r /\ \A k \in Jobs : k # j => job'[k] = job[k] BY <1>1, <1>9, <2>1, JobsSet
  <2>3. PlanCovers(j) => PlanCovers(j)' BY <1>2, <2>1, <2>2, PlanStays
  <2>4. SyncsOnCourse' BY <1>1, <1>2, <2>1, <2>2, <2>3, CourseKept DEF SyncsOnCourse
  <2> QED BY <1>2, <1>6, <1>7, <1>8, <2>2, <2>4 DEF ScimInv
<1>10. CASE job' = [job EXCEPT ![j] = IdleJob] BY <1>2, <1>6, <1>7, <1>8, <1>10, EndKeeps
<1> QED BY <1>2, <1>9, <1>10

----
(* A patch is applied. *)

LEMMA SavingTyped ==
  ASSUME JobsOK, NEW j \in Jobs, NEW p \in GroupPatch \cup UserPatch, NEW copy,
         \/ p.kind = "group" /\ copy \in Group \cup {NoGroup}
         \/ p.kind = "user" /\ copy \in Account \cup {Absent}
  PROVE  LET r == Saving(j, p, copy)
         IN  /\ r \in JobRecord /\ r.pc = "save" /\ r.write # <<>>
             /\ r.todo = job[j].todo \ {p} /\ r.groups = job[j].groups /\ r.users = job[j].users
             /\ r.policy = job[j].policy /\ r.sync = job[j].sync /\ r.clean = job[j].clean
<1>1. job[j] \in JobRecord BY DEF JobsOK
<1>2. <<p, copy>> \in (GroupPatch \X (Group \cup {NoGroup})) \cup (UserPatch \X (Account \cup {Absent}))
  BY PatchFields
<1>3. <<p, copy>> # <<>> OBVIOUS
<1> DEFINE w == <<p, copy>>
<1> HIDE DEF w
<1>4. LET r == [job[j] EXCEPT !.pc = "save", !.todo = @ \ {p}, !.write = w]
      IN  /\ r \in JobRecord /\ r.pc = "save" /\ r.write # <<>>
          /\ r.todo = job[j].todo \ {p} /\ r.groups = job[j].groups /\ r.users = job[j].users
          /\ r.policy = job[j].policy /\ r.sync = job[j].sync /\ r.clean = job[j].clean
  BY <1>1, <1>2, <1>3 DEF JobRecord, w
<1> QED BY <1>4 DEF Saving, w

LEMMA GroupPatchKeeps ==
  ASSUME ScimInv, NEW j \in Jobs, NEW p \in job[j].todo, ApplyGroupPatch(j, p)
  PROVE  ScimInv'
<1>1. DirectoryTyped /\ JobsOK /\ SyncsOnCourse /\ SyncConverges BY DEF ScimInv
<1>2. p \in GroupPatch \cup UserPatch BY <1>1 DEF JobsOK, JobRecord
<1>3. /\ p.kind = "group" /\ p.id \in Groups
      /\ p.op \in {"Upsert", "Patch", "PatchMembers", "Disable", "Delete"}
      /\ p.op = "Upsert" => p.group \in Group
      /\ p.op = "Patch" => p.active \in BOOLEAN
      /\ p.op = "PatchMembers" => p.add \subseteq Users /\ p.remove \subseteq Users
  BY <1>2, PatchFields DEF ApplyGroupPatch
<1>4. job[j].pc = "apply" /\ UNCHANGED <<groupRow, provider, served, cursors, providerSteps, users>>
  BY DEF ApplyGroupPatch, userVars
<1>5. SyncConverges' BY <1>1, <1>4 DEF SyncConverges
<1>6. CASE job' = [job EXCEPT ![j] = IdleJob] /\ UNCHANGED groups
  <2>1. DirectoryTyped' BY <1>1, <1>4, <1>6 DEF DirectoryTyped
  <2> QED BY <1>4, <1>5, <1>6, <2>1, EndKeeps
<1>7. CASE /\ groups[p.id] # NoGroup \/ p.op = "Upsert"
           /\ groups' = [groups EXCEPT ![p.id] = PatchedGroup(p)]
           /\ Continue(j, Saving(j, p, groups'[p.id]))
  <2> DEFINE r == Saving(j, p, groups'[p.id])
  <2>1. PatchedGroup(p) \in Group \cup {NoGroup}
    <3>1. groups[p.id] \in Group \cup {NoGroup} BY <1>1, <1>3 DEF DirectoryTyped
    <3>2. CASE p.op = "Upsert" BY <1>3, <3>2 DEF PatchedGroup
    <3>3. CASE p.op = "Patch" BY <1>3, <1>7, <3>1, <3>3 DEF PatchedGroup, Group
    <3>4. CASE p.op = "PatchMembers" BY <1>3, <1>7, <3>1, <3>4 DEF PatchedGroup, Group
    <3>5. CASE p.op = "Disable" BY <1>3, <1>7, <3>1, <3>5 DEF PatchedGroup, Group
    <3>6. CASE p.op = "Delete" BY <1>3, <3>6 DEF PatchedGroup
    <3> QED BY <1>3, <3>2, <3>3, <3>4, <3>5, <3>6
  <2>2. /\ groups'[p.id] = PatchedGroup(p) /\ \A g \in Groups : g # p.id => groups'[g] = groups[g]
        /\ groups' \in [Groups -> Group \cup {NoGroup}]
    BY <1>1, <1>3, <1>7, <2>1 DEF DirectoryTyped
  <2>3. /\ r \in JobRecord /\ r.pc = "save" /\ r.write # <<>>
        /\ r.todo = job[j].todo \ {p} /\ r.groups = job[j].groups /\ r.users = job[j].users
        /\ r.policy = job[j].policy /\ r.sync = job[j].sync /\ r.clean = job[j].clean
    BY <1>1, <1>2, <1>3, <2>1, <2>2, SavingTyped
  <2>4. Continue(j, r) BY <1>7
  <2> HIDE DEF r
  <2>5. JobsOK' /\ job'[j] = r /\ \A k \in Jobs : k # j => job'[k].pc = "idle" \/ ~job'[k].clean
    BY <1>1, <2>3, <2>4, JobsContinue
  <2>6. ASSUME r.sync, r.clean PROVE PlanCovers(j)'
    <3>1. PlanCovers(j) BY <1>1, <1>4, <2>3, <2>6 DEF SyncsOnCourse
    <3>2. ASSUME NEW q \in job'[j].todo PROVE InPlan(q, j)'
      <4>1. InPlan(q, j) BY <2>3, <2>5, <3>1 DEF PlanCovers
      <4> QED BY <2>3, <2>5, <4>1 DEF InPlan
    <3>3. GroupMatches(p.id, job[j].groups[p.id], job[j].policy)'
      <4>1. InPlan(p, j) BY <3>1 DEF PlanCovers
      <4>2. CASE r.groups[p.id] # NoGroup
        <5>1. p.op = "Upsert" /\ p.group = r.groups[p.id] BY <1>3, <2>3, <4>1, <4>2 DEF InPlan
        <5>2. groups'[p.id] = r.groups[p.id] BY <2>2, <5>1 DEF PatchedGroup
        <5> QED BY <2>5, <4>2, <5>2 DEF GroupMatches
      <4>3. CASE r.groups[p.id] = NoGroup
        <5>1. IF r.policy.deleteGroups THEN p.op = "Delete" ELSE p.op = "Disable"
          BY <1>3, <2>3, <4>1, <4>3 DEF InPlan
        <5>2. CASE r.policy.deleteGroups
          <6>1. groups'[p.id] = NoGroup /\ NoGroup.active = FALSE
            BY <2>2, <5>1, <5>2 DEF PatchedGroup, NoGroup
          <6> QED BY <2>5, <4>3, <6>1 DEF GroupMatches
        <5>3. CASE ~r.policy.deleteGroups
          <6>1. p.op = "Disable" /\ groups[p.id] \in Group
            BY <1>1, <1>3, <1>7, <5>1, <5>3 DEF DirectoryTyped
          <6>2. groups'[p.id].active = FALSE BY <2>2, <6>1 DEF PatchedGroup, Group
          <6> QED BY <2>5, <4>3, <5>3, <6>2 DEF GroupMatches
        <5> QED BY <5>2, <5>3
      <4> QED BY <4>2, <4>3
    <3>4. ASSUME NEW g \in Groups
          PROVE  \/ \E q \in job'[j].todo : q.kind = "group" /\ q.id = g
                 \/ GroupMatches(g, job[j].groups[g], job[j].policy)'
      <4>1. CASE g = p.id BY <3>3, <4>1
      <4>2. CASE g # p.id
        <5>1. \/ \E q \in job[j].todo : q.kind = "group" /\ q.id = g
              \/ GroupMatches(g, job[j].groups[g], job[j].policy)
          BY <3>1 DEF PlanCovers
        <5>2. CASE \E q \in job[j].todo : q.kind = "group" /\ q.id = g BY <2>3, <2>5, <4>2, <5>2
        <5>3. CASE GroupMatches(g, job[j].groups[g], job[j].policy)
          BY <2>2, <2>3, <2>5, <4>2, <5>3 DEF GroupMatches
        <5> QED BY <5>1, <5>2, <5>3
      <4> QED BY <4>1, <4>2
    <3>5. ASSUME NEW u \in Users
          PROVE  \/ \E q \in job'[j].todo : q.kind = "user" /\ q.id = u
                 \/ UserMatches(u, job[j].users[u], job[j].policy)'
      <4>1. \/ \E q \in job[j].todo : q.kind = "user" /\ q.id = u
            \/ UserMatches(u, job[j].users[u], job[j].policy)
        BY <3>1 DEF PlanCovers
      <4>2. CASE \E q \in job[j].todo : q.kind = "user" /\ q.id = u BY <1>3, <2>3, <2>5, <4>2
      <4>3. CASE UserMatches(u, job[j].users[u], job[j].policy)
        BY <1>4, <2>3, <2>5, <4>3 DEF UserMatches, Managed, Known
      <4> QED BY <4>1, <4>2, <4>3
    <3> QED BY <3>2, <3>4, <3>5 DEF PlanCovers
  <2>7. SyncsOnCourse' BY <2>3, <2>5, <2>6 DEF SyncsOnCourse
  <2>8. DirectoryTyped' BY <1>1, <1>4, <2>2 DEF DirectoryTyped
  <2> QED BY <1>5, <2>5, <2>7, <2>8 DEF ScimInv
<1> QED BY <1>6, <1>7 DEF ApplyGroupPatch

LEMMA UserPatchKeeps ==
  ASSUME SessionsInv, ScimInv, NEW j \in Jobs, NEW p \in job[j].todo, ApplyUserPatch(j, p)
  PROVE  /\ SessionsInv' /\ ScimInv' /\ SessionsGoOn
         /\ UNCHANGED <<login, pending, verify, restarts>>
         /\ \/ UNCHANGED <<users, active, late>>
            \/ /\ \A u \in Users : u # p.id => users'[u] = users[u]
               /\ late' = LateLogins(p.id)
               /\ ~Enabled(p.id)' => active' = Revoked(p.id)
               /\ Enabled(p.id)' => active' = active
<1>1. DirectoryTyped /\ JobsOK /\ SyncsOnCourse /\ SyncConverges /\ SessionsTypeOK
  BY DEF ScimInv, SessionsInv
<1>2. p \in GroupPatch \cup UserPatch BY <1>1 DEF JobsOK, JobRecord
<1>3. /\ p.kind = "user" /\ p.id \in Users /\ p.op \in {"Upsert", "Patch", "Disable", "Delete"}
      /\ p.op \in {"Upsert", "Patch"} => p.active \in BOOLEAN
  BY <1>2, PatchFields DEF ApplyUserPatch
<1>4. /\ job[j].pc = "apply"
      /\ UNCHANGED <<groups, groupRow, provider, served, cursors, providerSteps, userRow, restarts, saveFaults,
                     login, pending, pendingRow, verify, row, refresh, saves, tokens, exchanged>>
  BY DEF ApplyUserPatch, boundVars
<1>5. SyncConverges' BY <1>1, <1>4 DEF SyncConverges
<1>6. DirectoryTyped' BY <1>1, <1>4 DEF DirectoryTyped
<1>7. /\ userRow' \in [Users -> Account \cup {Absent}] /\ refresh' \in [Refreshes -> 0..MaxTokens]
      /\ \A c \in saves' : c \in saves
  BY <1>1, <1>4 DEF SessionsTypeOK
<1>8. CASE job' = [job EXCEPT ![j] = IdleJob] /\ UNCHANGED <<users, active, late>>
  <2>1. ScimInv' BY <1>4, <1>5, <1>6, <1>8, EndKeeps
  <2>2. \A v \in Verifies : active'[v] = active[v] BY <1>8
  <2>3. users' \in [Users -> Account \cup {Absent}] /\ active' \in [Verifies -> Session \cup {NoSession}]
    BY <1>1, <1>8 DEF SessionsTypeOK
  <2>4. SessionsInv' /\ SessionsGoOn BY <1>4, <1>7, <2>2, <2>3, MarkedKeeps
  <2> QED BY <1>4, <1>8, <2>1, <2>4
<1>9. CASE /\ Known(p.id) \/ p.op = "Upsert"
           /\ users' = [users EXCEPT ![p.id] = PatchedUser(p)]
           /\ active' = IF users'[p.id] = Absent \/ ~users'[p.id].active THEN Revoked(p.id) ELSE active
           /\ late' = LateLogins(p.id)
           /\ Continue(j, Saving(j, p, users'[p.id]))
  <2> DEFINE r == Saving(j, p, users'[p.id])
  <2>1. PatchedUser(p) \in Account \cup {Absent}
    <3>1. Known(p.id) => users[p.id] \in Account BY <1>1, <1>3 DEF SessionsTypeOK, Known
    <3>2. CASE p.op = "Upsert" BY <1>3, <3>2 DEF PatchedUser, Account
    <3>3. CASE p.op = "Patch" BY <1>3, <1>9, <3>1, <3>3 DEF PatchedUser, Account
    <3>4. CASE p.op = "Disable" BY <1>3, <1>9, <3>1, <3>4 DEF PatchedUser, Account
    <3>5. CASE p.op = "Delete" BY <1>3, <3>5 DEF PatchedUser
    <3> QED BY <1>3, <3>2, <3>3, <3>4, <3>5
  <2>2. /\ users'[p.id] = PatchedUser(p) /\ \A u \in Users : u # p.id => users'[u] = users[u]
        /\ users' \in [Users -> Account \cup {Absent}]
    BY <1>1, <1>3, <1>9, <2>1 DEF SessionsTypeOK
  <2>3. Enabled(p.id)' <=> ~(users'[p.id] = Absent \/ ~users'[p.id].active) BY DEF Enabled, Known
  <2>4. /\ ~Enabled(p.id)' => active' = Revoked(p.id)
        /\ Enabled(p.id)' => active' = active
    BY <1>9, <2>3
  <2>5. SessionsInv' /\ SessionsGoOn
    <3>1. ASSUME NEW v \in Verifies
          PROVE  \/ active'[v] = active[v]
                 \/ active[v] \in Session /\ active'[v] = [active[v] EXCEPT !.revoked = TRUE]
      <4>1. CASE active' = active BY <4>1
      <4>2. CASE active' = Revoked(p.id)
        <5>1. active'[v] = IF active[v] # NoSession /\ Owner[active[v].login] = p.id
                           THEN [active[v] EXCEPT !.revoked = TRUE] ELSE active[v]
          BY <4>2 DEF Revoked
        <5> QED BY <1>1, <5>1, ActiveCases
      <4> QED BY <2>4, <4>1, <4>2
    <3>2. \A v \in Verifies : active'[v] = active[v] \/ (active[v] \in Session /\ Marks(active[v], active'[v]))
      BY <3>1, MarkFields
    <3>3. active' \in [Verifies -> Session \cup {NoSession}]
      <4>1. \A v \in Verifies : active'[v] \in Session \cup {NoSession}
        BY <1>1, <3>2 DEF Marks, SessionsTypeOK
      <4>2. active' = [v \in Verifies |-> active'[v]]
        <5>1. CASE active' = active BY <1>1, <5>1 DEF SessionsTypeOK
        <5>2. CASE active' = Revoked(p.id) BY <5>2 DEF Revoked
        <5> QED BY <2>4, <5>1, <5>2
      <4> QED BY <4>1, <4>2
    <3> QED BY <1>4, <1>7, <2>2, <3>2, <3>3, MarkedKeeps
  <2>6. /\ r \in JobRecord /\ r.pc = "save" /\ r.write # <<>>
        /\ r.todo = job[j].todo \ {p} /\ r.groups = job[j].groups /\ r.users = job[j].users
        /\ r.policy = job[j].policy /\ r.sync = job[j].sync /\ r.clean = job[j].clean
    BY <1>1, <1>2, <1>3, <2>1, <2>2, SavingTyped
  <2>7. Continue(j, r) BY <1>9
  <2> HIDE DEF r
  <2>8. JobsOK' /\ job'[j] = r /\ \A k \in Jobs : k # j => job'[k].pc = "idle" \/ ~job'[k].clean
    BY <1>1, <2>6, <2>7, JobsContinue
  <2>9. ASSUME r.sync, r.clean PROVE PlanCovers(j)'
    <3>1. PlanCovers(j) BY <1>1, <1>4, <2>6, <2>9 DEF SyncsOnCourse
    <3>2. ASSUME NEW q \in job'[j].todo PROVE InPlan(q, j)'
      <4>1. InPlan(q, j) BY <2>6, <2>8, <3>1 DEF PlanCovers
      <4> QED BY <2>6, <2>8, <4>1 DEF InPlan
    <3>3. UserMatches(p.id, job[j].users[p.id], job[j].policy)'
      <4>1. InPlan(p, j) BY <3>1 DEF PlanCovers
      <4>2. CASE r.users[p.id] # Gone
        <5>1. p.op = "Upsert" /\ p.active = (r.users[p.id] = "active")
          BY <1>3, <2>6, <4>1, <4>2 DEF InPlan
        <5>2. users'[p.id] = [active |-> p.active, source |-> "Scim"] BY <2>2, <5>1 DEF PatchedUser
        <5>3. users'[p.id] = [active |-> r.users[p.id] = "active", source |-> "Scim"] BY <5>1, <5>2
        <5> QED BY <2>8, <4>2, <5>3 DEF UserMatches
      <4>3. CASE r.users[p.id] = Gone
        <5>1. IF r.policy.deleteUsers THEN p.op = "Delete" ELSE p.op = "Disable"
          BY <1>3, <2>6, <4>1, <4>3 DEF InPlan
        <5>2. CASE r.policy.deleteUsers
          <6>1. users'[p.id] = Absent BY <2>2, <5>1, <5>2 DEF PatchedUser
          <6>2. ~Managed(p.id)' BY <6>1 DEF Managed, Known
          <6> QED BY <2>8, <4>3, <6>2 DEF UserMatches
        <5>3. CASE ~r.policy.deleteUsers
          <6>1. p.op = "Disable" /\ users[p.id] \in Account
            BY <1>1, <1>3, <1>9, <5>1, <5>3 DEF SessionsTypeOK, Known
          <6>2. users'[p.id].active = FALSE BY <2>2, <6>1 DEF PatchedUser, Account
          <6> QED BY <2>8, <4>3, <5>3, <6>2 DEF UserMatches
        <5> QED BY <5>2, <5>3
      <4> QED BY <4>2, <4>3
    <3>4. ASSUME NEW u \in Users
          PROVE  \/ \E q \in job'[j].todo : q.kind = "user" /\ q.id = u
                 \/ UserMatches(u, job[j].users[u], job[j].policy)'
      <4>1. CASE u = p.id BY <3>3, <4>1
      <4>2. CASE u # p.id
        <5>1. \/ \E q \in job[j].todo : q.kind = "user" /\ q.id = u
              \/ UserMatches(u, job[j].users[u], job[j].policy)
          BY <3>1 DEF PlanCovers
        <5>2. CASE \E q \in job[j].todo : q.kind = "user" /\ q.id = u BY <2>6, <2>8, <4>2, <5>2
        <5>3. CASE UserMatches(u, job[j].users[u], job[j].policy)
          BY <2>2, <2>6, <2>8, <4>2, <5>3 DEF UserMatches, Managed, Known
        <5> QED BY <5>1, <5>2, <5>3
      <4> QED BY <4>1, <4>2
    <3>5. ASSUME NEW g \in Groups
          PROVE  \/ \E q \in job'[j].todo : q.kind = "group" /\ q.id = g
                 \/ GroupMatches(g, job[j].groups[g], job[j].policy)'
      <4>1. \/ \E q \in job[j].todo : q.kind = "group" /\ q.id = g
            \/ GroupMatches(g, job[j].groups[g], job[j].policy)
        BY <3>1 DEF PlanCovers
      <4>2. CASE \E q \in job[j].todo : q.kind = "group" /\ q.id = g BY <1>3, <2>6, <2>8, <4>2
      <4>3. CASE GroupMatches(g, job[j].groups[g], job[j].policy)
        BY <1>4, <2>6, <2>8, <4>3 DEF GroupMatches
      <4> QED BY <4>1, <4>2, <4>3
    <3> QED BY <3>2, <3>4, <3>5 DEF PlanCovers
  <2>10. SyncsOnCourse' BY <2>6, <2>8, <2>9 DEF SyncsOnCourse
  <2>11. ScimInv' BY <1>5, <1>6, <2>8, <2>10 DEF ScimInv
  <2> QED BY <1>4, <1>9, <2>2, <2>4, <2>5, <2>11
<1> QED BY <1>8, <1>9 DEF ApplyUserPatch

----
(* The two together. *)

LEMMA UsersGrow ==
  ASSUME SessionsInv, SessionsNext
  PROVE  /\ UNCHANGED restarts
         /\ \/ UNCHANGED users
            \/ \E l \in Logins : /\ ~Known(Owner[l])
                                 /\ users' = [users EXCEPT ![Owner[l]] = [active |-> TRUE, source |-> "Sso"]]
<1>1. ASSUME NEW l \in Logins, SsoCallback(l)
      PROVE  UNCHANGED restarts /\ ~Known(Owner[l])
             /\ users' = [users EXCEPT ![Owner[l]] = [active |-> TRUE, source |-> "Sso"]]
  BY <1>1 DEF SsoCallback
<1>2. ASSUME NEW l \in Logins, LoginHandler(l) \/ SsoPending(l) \/ SavePendingSession(l)
      PROVE  UNCHANGED <<users, restarts>>
  BY <1>2 DEF LoginHandler, SsoPending, SavePendingSession, userVars, boundVars
<1>3. ASSUME NEW v \in Verifies, NEW l \in Logins, VerifyChallenge(v, l) PROVE UNCHANGED <<users, restarts>>
  BY <1>3 DEF VerifyChallenge, userVars, boundVars
<1>4. ASSUME NEW v \in Verifies, RemovePending(v) \/ ActivateSession(v) \/ StepUpVerify(v) \/ Logout(v)
      PROVE  UNCHANGED <<users, restarts>>
  BY <1>4 DEF RemovePending, ActivateSession, StepUpVerify, Logout, userVars, boundVars
<1>5. ASSUME NEW v \in Verifies, NEW signal \in Signals, DevicePosture(v, signal)
      PROVE  UNCHANGED <<users, restarts>>
  BY <1>5 DEF DevicePosture, userVars, boundVars
<1>6. ASSUME NEW f \in Refreshes, NEW t \in 1..tokens, DetectReplay(f, t) PROVE UNCHANGED <<users, restarts>>
  BY <1>6 DEF DetectReplay, userVars, boundVars
<1>7. ASSUME NEW f \in Refreshes, RotateRefreshToken(f) PROVE UNCHANGED <<users, restarts>>
  BY <1>7 DEF RotateRefreshToken, userVars, boundVars
<1>8. ASSUME NEW u \in Users, NEW a \in {"StepUpAuth", "TerminateSession"}, Mitigate(u, a)
      PROVE  UNCHANGED <<users, restarts>>
  BY <1>8 DEF Mitigate, userVars, boundVars
<1>9. ASSUME NEW c \in saves, SaveActiveSession(c[1], c[2]) PROVE UNCHANGED <<users, restarts>>
  BY <1>9 DEF SaveActiveSession, userVars
<1> QED BY <1>1, <1>2, <1>3, <1>4, <1>5, <1>6, <1>7, <1>8, <1>9 DEF SessionsNext

\* Nothing that a session step does can make a session out of a disabled account's login.
LEMMA UnderWayStep ==
  ASSUME SessionsInv, SessionsNext
  PROVE  \A l \in Logins : UnderWay(l)' => UnderWay(l) \/ Enabled(Owner[l])
<1>1. SessionsTypeOK BY DEF SessionsInv
<1>2. ASSUME NEW k \in Logins, LoginHandler(k) \/ SsoPending(k)
      PROVE  \A l \in Logins : UnderWay(l)' => UnderWay(l) \/ Enabled(Owner[l])
  <2>1. Enabled(Owner[k]) BY <1>2 DEF LoginHandler, SsoPending, MayLogin, Enabled
  <2>2. login' = [login EXCEPT ![k] = "saving"] /\ pending' = pending \cup {k} /\ UNCHANGED verify
    BY <1>2 DEF LoginHandler, SsoPending, StartPending
  <2> QED BY <1>1, <2>1, <2>2 DEF UnderWay, SessionsTypeOK
<1>3. ASSUME NEW k \in Logins, SavePendingSession(k) PROVE \A l \in Logins : UnderWay(l)' => UnderWay(l)
  <2>1. UNCHANGED <<pending, verify>> /\ (login' = [login EXCEPT ![k] = "answered"] \/ login' = [login EXCEPT ![k] = "failed"])
    BY <1>3 DEF SavePendingSession
  <2> QED BY <1>1, <2>1 DEF UnderWay, SessionsTypeOK
<1>4. ASSUME NEW v \in Verifies, NEW k \in Logins, VerifyChallenge(v, k)
      PROVE  \A l \in Logins : UnderWay(l)' => UnderWay(l)
  <2>1. UNCHANGED <<login, pending>> /\ verify' = [verify EXCEPT ![v] = [pc |-> "checked", login |-> k]]
    BY <1>4 DEF VerifyChallenge
  <2>2. \A w \in Verifies : verify'[w].pc = "removed" => verify'[w] = verify[w]
    BY <1>1, <2>1 DEF SessionsTypeOK
  <2> QED BY <2>1, <2>2 DEF UnderWay
<1>5. ASSUME NEW v \in Verifies, RemovePending(v) PROVE \A l \in Logins : UnderWay(l)' => UnderWay(l)
  <2>1. /\ UNCHANGED login /\ pending' = pending \ {verify[v].login}
        /\ verify' = [verify EXCEPT ![v].pc = IF verify[v].login \in pending THEN "removed" ELSE "done"]
    BY <1>5 DEF RemovePending
  <2>2. \A w \in Verifies : verify'[w].pc = "removed" => verify'[w] = verify[w] \/ verify'[w].login \in pending
    BY <1>1, <2>1 DEF SessionsTypeOK
  <2> QED BY <2>1, <2>2 DEF UnderWay
<1>6. ASSUME NEW v \in Verifies, ActivateSession(v) PROVE \A l \in Logins : UnderWay(l)' => UnderWay(l)
  <2>1. UNCHANGED <<login, pending>> /\ verify' = [verify EXCEPT ![v].pc = "done"]
    BY <1>6 DEF ActivateSession
  <2>2. \A w \in Verifies : verify'[w].pc = "removed" => verify'[w] = verify[w]
    BY <1>1, <2>1 DEF SessionsTypeOK
  <2> QED BY <2>1, <2>2 DEF UnderWay
<1>7. ASSUME UNCHANGED <<login, pending, verify>> PROVE \A l \in Logins : UnderWay(l)' => UnderWay(l)
  BY <1>7 DEF UnderWay
<1>8. ASSUME NEW l \in Logins, SsoCallback(l) PROVE UNCHANGED <<login, pending, verify>>
  BY <1>8 DEF SsoCallback, sessionVars
<1>9. ASSUME NEW v \in Verifies, StepUpVerify(v) \/ Logout(v) PROVE UNCHANGED <<login, pending, verify>>
  BY <1>9 DEF StepUpVerify, Logout
<1>10. ASSUME NEW v \in Verifies, NEW signal \in Signals, DevicePosture(v, signal)
       PROVE  UNCHANGED <<login, pending, verify>>
  BY <1>10 DEF DevicePosture
<1>11. ASSUME NEW f \in Refreshes, NEW t \in 1..tokens, DetectReplay(f, t)
       PROVE  UNCHANGED <<login, pending, verify>>
  BY <1>11 DEF DetectReplay
<1>12. ASSUME NEW f \in Refreshes, RotateRefreshToken(f) PROVE UNCHANGED <<login, pending, verify>>
  BY <1>12 DEF RotateRefreshToken
<1>13. ASSUME NEW u \in Users, NEW a \in {"StepUpAuth", "TerminateSession"}, Mitigate(u, a)
       PROVE  UNCHANGED <<login, pending, verify>>
  BY <1>13 DEF Mitigate
<1>14. ASSUME NEW c \in saves, SaveActiveSession(c[1], c[2]) PROVE UNCHANGED <<login, pending, verify>>
  BY <1>14 DEF SaveActiveSession
<1> QED BY <1>2, <1>3, <1>4, <1>5, <1>6, <1>7, <1>8, <1>9, <1>10, <1>11, <1>12, <1>13, <1>14 DEF SessionsNext

\* A live session after the step was one before it.
LEMMA LiveBefore ==
  ASSUME SessionsInv, DisabledHasNoSession, SessionsGoOn, UNCHANGED <<restarts, late>>,
         \A l \in Logins : Enabled(Owner[l]) => Enabled(Owner[l])'
  PROVE  DisabledHasNoSession'
<1>1. SessionsTypeOK BY DEF SessionsInv
<1> SUFFICES ASSUME NEW v \in Verifies, active'[v] # NoSession, ~active'[v].revoked, restarts' = 0
             PROVE  Enabled(Owner[active[v].login])' \/ active'[v].login \in late'
  BY DEF DisabledHasNoSession
<1>2. active[v] # NoSession /\ active'[v].login = active[v].login /\ ~active[v].revoked
  BY DEF SessionsGoOn
<1>3. Enabled(Owner[active[v].login]) \/ active[v].login \in late BY <1>2 DEF DisabledHasNoSession
<1>4. active[v].login \in Logins BY <1>1, <1>2, ActiveCases, SessionFields
<1>5. \A l \in Logins : Enabled(Owner[l]) => users'[Owner[l]] # Absent /\ users'[Owner[l]].active
  BY DEF Enabled, Known
<1> QED BY <1>2, <1>3, <1>4, <1>5 DEF Enabled, Known

LEMMA QuietKeeps ==
  ASSUME SessionsInv, UNCHANGED <<sessionVars, users, restarts>>,
         userRow' \in [Users -> Account \cup {Absent}], saveFaults' \in Nat
  PROVE  SessionsInv' /\ SessionsGoOn
<1>1. UNCHANGED <<login, pending, pendingRow, verify, active, row, refresh, saves, tokens, exchanged>>
  BY DEF sessionVars
<1>2. SessionsTypeOK /\ LoginsSpent BY DEF SessionsInv
<1>3. SessionsTypeOK' BY <1>1, <1>2 DEF SessionsTypeOK
<1>4. CopiesFollow' /\ ExchangesCounted' /\ SessionsGoOn BY <1>1, <1>3, RegistryStays
<1>5. LoginsSpent' BY <1>1, <1>2, <1>4, SpentStays
<1> QED BY <1>3, <1>4, <1>5 DEF SessionsInv

LEMMA QuietOwners ==
  ASSUME LateKnown, DisabledHasNoSession, UNCHANGED <<sessionVars, users, restarts, late>>
  PROVE  LateKnown' /\ DisabledHasNoSession'
<1>1. UNCHANGED <<login, pending, verify, active>> BY DEF sessionVars
<1>2. LateKnown' BY <1>1 DEF LateKnown, UnderWay, Enabled, Known
<1>3. DisabledHasNoSession' BY <1>1 DEF DisabledHasNoSession, Enabled, Known
<1> QED BY <1>2, <1>3

LEMMA SessionsStepKeeps ==
  ASSUME IdentityInv, SessionsNext, UNCHANGED scimVars
  PROVE  IdentityInv'
<1>1. SessionsInv /\ ScimInv /\ LateKnown /\ DisabledHasNoSession /\ SessionsTypeOK
  BY DEF IdentityInv, SessionsInv
<1>2. UNCHANGED <<groups, groupRow, provider, job, served, late, cursors, providerSteps>> BY DEF scimVars
<1>3. /\ SessionsInv' /\ (SessionsGoOn \/ \E v \in Verifies : ActivateSession(v)) BY <1>1, SessionsStep
<1>4. \A u \in Users : users'[u] = users[u] \/ (~Known(u) /\ users'[u] = [active |-> TRUE, source |-> "Sso"])
  BY <1>1, UsersGrow DEF SessionsTypeOK
<1>5. UNCHANGED restarts BY <1>1, UsersGrow
<1>6. ScimInv'
  <2>1. DirectoryTyped' /\ JobsOK' /\ SyncConverges'
    BY <1>1, <1>2 DEF ScimInv, DirectoryTyped, JobsOK, SyncConverges
  <2>2. ASSUME NEW j \in Jobs, PlanCovers(j) PROVE PlanCovers(j)'
    <3>1. \A g, x, y : GroupMatches(g, x, y) => GroupMatches(g, x, y)' BY <1>2 DEF GroupMatches
    <3>2. ASSUME NEW u \in Users, NEW x, NEW y, UserMatches(u, x, y) PROVE UserMatches(u, x, y)'
      <4>1. CASE users'[u] = users[u] BY <3>2, <4>1 DEF UserMatches, Managed, Known
      <4>2. CASE ~Known(u) /\ users'[u] = [active |-> TRUE, source |-> "Sso"]
        <5>1. ~Managed(u)' BY <4>2 DEF Managed
        <5>2. x = Gone
          <6>1. users[u] = Absent BY <4>2 DEF Known
          <6>2. \A b \in BOOLEAN : [active |-> b, source |-> "Scim"] # Absent BY DEF Absent
          <6> QED BY <3>2, <6>1, <6>2 DEF UserMatches
        <5> QED BY <5>1, <5>2 DEF UserMatches
      <4> QED BY <1>4, <4>1, <4>2
    <3>3. \A p : InPlan(p, j) => InPlan(p, j)' BY <1>2 DEF InPlan
    <3>4. (\A p \in job[j].todo : InPlan(p, j))' BY <1>2, <2>2, <3>3 DEF PlanCovers
    <3>5. (\A g \in Groups : \/ \E p \in job[j].todo : p.kind = "group" /\ p.id = g
                             \/ GroupMatches(g, job[j].groups[g], job[j].policy))'
      BY <1>2, <2>2, <3>1 DEF PlanCovers
    <3>6. (\A u \in Users : \/ \E p \in job[j].todo : p.kind = "user" /\ p.id = u
                            \/ UserMatches(u, job[j].users[u], job[j].policy))'
      BY <1>2, <2>2, <3>2 DEF PlanCovers
    <3> QED BY <3>4, <3>5, <3>6 DEF PlanCovers
  <2>3. SyncsOnCourse' BY <1>1, <1>2, <2>2 DEF ScimInv, SyncsOnCourse
  <2> QED BY <2>1, <2>3 DEF ScimInv
<1>7. ASSUME NEW l \in Logins, Enabled(Owner[l]) PROVE users'[Owner[l]] # Absent /\ users'[Owner[l]].active
  <2>1. Owner[l] \in Users BY SessionsAssumption
  <2> QED BY <1>4, <1>7, <2>1 DEF Enabled, Known
<1>8. \A l \in Logins : Enabled(Owner[l]) => Enabled(Owner[l])' BY <1>7 DEF Enabled, Known
<1>9. LateKnown'
  <2>1. \A l \in Logins : UnderWay(l)' => UnderWay(l) \/ Enabled(Owner[l]) BY <1>1, UnderWayStep
  <2> QED BY <1>1, <1>2, <1>5, <1>8, <2>1 DEF LateKnown
<1>10. DisabledHasNoSession'
  <2>1. CASE SessionsGoOn BY <1>1, <1>2, <1>5, <1>8, <2>1, LiveBefore
  <2>2. CASE \E v \in Verifies : ActivateSession(v)
    <3>1. PICK v \in Verifies : ActivateSession(v) BY <2>2
    <3>2. /\ \A w \in Verifies : w # v => active'[w] = active[w]
          /\ active'[v] # NoSession => active'[v].login = verify[v].login
      BY <1>1, <3>1, ActivateKeeps
    <3>3. verify[v].pc = "removed" /\ verify[v].login \in Logins /\ UNCHANGED users
      BY <1>1, <3>1 DEF ActivateSession, SessionsTypeOK, userVars
    <3>4. ASSUME restarts = 0 PROVE Enabled(Owner[verify[v].login]) \/ verify[v].login \in late
      BY <1>1, <3>3, <3>4 DEF LateKnown, UnderWay
    <3> QED BY <1>1, <1>2, <1>5, <3>2, <3>3, <3>4 DEF DisabledHasNoSession, Enabled, Known
  <2> QED BY <1>3, <2>1, <2>2
<1> QED BY <1>3, <1>6, <1>9, <1>10 DEF IdentityInv

LEMMA UserPatchStep ==
  ASSUME IdentityInv, NEW j \in Jobs, NEW p \in job[j].todo, ApplyUserPatch(j, p)
  PROVE  IdentityInv' /\ SessionsGoOn
<1>1. SessionsInv /\ ScimInv /\ LateKnown /\ DisabledHasNoSession /\ SessionsTypeOK
  BY DEF IdentityInv, SessionsInv
<1>2. /\ SessionsInv' /\ ScimInv' /\ SessionsGoOn /\ UNCHANGED <<login, pending, verify, restarts>>
      /\ \/ UNCHANGED <<users, active, late>>
         \/ /\ \A u \in Users : u # p.id => users'[u] = users[u]
            /\ late' = LateLogins(p.id)
            /\ ~Enabled(p.id)' => active' = Revoked(p.id)
            /\ Enabled(p.id)' => active' = active
  BY <1>1, UserPatchKeeps
<1>3. CASE UNCHANGED <<users, active, late>>
  <2>1. LateKnown' BY <1>1, <1>2, <1>3 DEF LateKnown, UnderWay, Enabled, Known
  <2>2. DisabledHasNoSession' BY <1>1, <1>2, <1>3 DEF DisabledHasNoSession, Enabled, Known
  <2> QED BY <1>2, <2>1, <2>2 DEF IdentityInv
<1>4. CASE /\ \A u \in Users : u # p.id => users'[u] = users[u]
           /\ late' = LateLogins(p.id)
           /\ ~Enabled(p.id)' => active' = Revoked(p.id)
           /\ Enabled(p.id)' => active' = active
  <2>1. \A l \in Logins : UnderWay(l)' <=> UnderWay(l) BY <1>2 DEF UnderWay
  <2>2. late \subseteq late' BY <1>4 DEF LateLogins
  <2>3. \A l \in Logins : Owner[l] = p.id /\ UnderWay(l) /\ ~Enabled(p.id)' => l \in late'
    BY <1>4 DEF LateLogins, UnderWay
  <2>4. \A l \in Logins : Owner[l] # p.id /\ Enabled(Owner[l]) => users'[Owner[l]] # Absent /\ users'[Owner[l]].active
    BY <1>4, SessionsAssumption DEF Enabled, Known
  <2>5. Enabled(p.id)' <=> users'[p.id] # Absent /\ users'[p.id].active BY DEF Enabled, Known
  <2>6. LateKnown'
    <3>1. ASSUME NEW l \in Logins, restarts = 0, UnderWay(l)
          PROVE  (users'[Owner[l]] # Absent /\ users'[Owner[l]].active) \/ l \in late'
      <4>1. Enabled(Owner[l]) \/ l \in late BY <1>1, <3>1 DEF LateKnown
      <4> QED BY <2>2, <2>3, <2>4, <2>5, <3>1, <4>1
    <3> QED BY <1>2, <2>1, <3>1 DEF LateKnown, Enabled, Known
  <2>7. DisabledHasNoSession'
    <3>1. ASSUME NEW v \in Verifies, active'[v] # NoSession, ~active'[v].revoked, restarts = 0
          PROVE  LET l == active'[v].login
                 IN  (users'[Owner[l]] # Absent /\ users'[Owner[l]].active) \/ l \in late'
      <4>1. active[v] # NoSession /\ active'[v].login = active[v].login /\ ~active[v].revoked
        BY <1>2, <3>1 DEF SessionsGoOn
      <4>2. active[v] \in Session /\ active[v].login \in Logins BY <1>1, <4>1, ActiveCases, SessionFields
      <4>3. Enabled(Owner[active[v].login]) \/ active[v].login \in late
        BY <1>1, <3>1, <4>1 DEF DisabledHasNoSession
      <4>4. CASE Owner[active[v].login] = p.id
        <5>1. active' # Revoked(p.id)
          <6>1. ASSUME active' = Revoked(p.id) PROVE FALSE
            <7>1. active'[v] = [active[v] EXCEPT !.revoked = TRUE] BY <4>1, <4>4, <6>1 DEF Revoked
            <7>2. active'[v].revoked = TRUE BY <4>2, <7>1 DEF Session
            <7> QED BY <3>1, <7>2
          <6> QED BY <6>1
        <5> QED BY <1>4, <2>5, <4>1, <4>4, <5>1
      <4>5. CASE Owner[active[v].login] # p.id BY <2>2, <2>4, <4>1, <4>2, <4>3, <4>5
      <4> QED BY <4>4, <4>5
    <3> QED BY <1>2, <3>1 DEF DisabledHasNoSession, Enabled, Known
  <2> QED BY <1>2, <2>6, <2>7 DEF IdentityInv
<1> QED BY <1>2, <1>3, <1>4

LEMMA ScimStepKeeps ==
  ASSUME IdentityInv, ScimNext
  PROVE  IdentityInv' /\ SessionsGoOn
<1>1. SessionsInv /\ ScimInv /\ LateKnown /\ DisabledHasNoSession /\ SessionsTypeOK
  BY DEF IdentityInv, SessionsInv
<1>2. ASSUME UNCHANGED <<sessionVars, userVars, boundVars, late>>, ScimInv'
      PROVE  IdentityInv' /\ SessionsGoOn
  <2>1. UNCHANGED <<sessionVars, users, userRow, restarts, saveFaults, late>>
    BY <1>2 DEF userVars, boundVars
  <2>2. userRow' \in [Users -> Account \cup {Absent}] /\ saveFaults' \in Nat
    BY <1>1, <2>1 DEF SessionsInv, SessionsTypeOK, ExchangesCounted
  <2>3. SessionsInv' /\ SessionsGoOn BY <1>1, <2>1, <2>2, QuietKeeps
  <2>4. LateKnown' /\ DisabledHasNoSession' BY <1>1, <2>1, QuietOwners
  <2> QED BY <1>2, <2>3, <2>4 DEF IdentityInv
<1>3. ASSUME NEW j \in Jobs, NEW p \in Patches, ScimPatch(j, p) PROVE IdentityInv' /\ SessionsGoOn
  <2>1. UNCHANGED <<sessionVars, userVars, boundVars, late>> BY <1>3 DEF ScimPatch
  <2>2. ScimInv' BY <1>1, <1>3, ScimPatchKeeps
  <2> QED BY <1>2, <2>1, <2>2
<1>4. ASSUME NEW j \in Jobs, NEW policy \in Policies, PullUsers(j, policy) PROVE IdentityInv' /\ SessionsGoOn
  <2>1. UNCHANGED <<sessionVars, userVars, boundVars, late>> BY <1>4 DEF PullUsers
  <2>2. ScimInv' BY <1>1, <1>4, PullUsersKeeps
  <2> QED BY <1>2, <2>1, <2>2
<1>5. ASSUME NEW j \in Jobs, PullGroups(j) \/ PullFails(j) \/ SetCursor(j) PROVE IdentityInv' /\ SessionsGoOn
  <2>1. UNCHANGED <<sessionVars, userVars, boundVars, late>> BY <1>5 DEF PullGroups, PullFails, SetCursor
  <2>2. ScimInv' BY <1>1, <1>5, PullGroupsKeeps, PullFailsKeeps, SetCursorKeeps
  <2> QED BY <1>2, <2>1, <2>2
<1>6. ASSUME NEW j \in Jobs, NEW p \in job[j].todo, ApplyGroupPatch(j, p) PROVE IdentityInv' /\ SessionsGoOn
  <2>1. UNCHANGED <<sessionVars, userVars, boundVars, late>> BY <1>6 DEF ApplyGroupPatch
  <2>2. ScimInv' BY <1>1, <1>6, GroupPatchKeeps
  <2> QED BY <1>2, <2>1, <2>2
<1>7. ASSUME NEW j \in Jobs, NEW p \in job[j].todo, ApplyUserPatch(j, p) PROVE IdentityInv' /\ SessionsGoOn
  BY <1>7, UserPatchStep
<1>8. ASSUME NEW j \in Jobs, SavePatch(j) PROVE IdentityInv' /\ SessionsGoOn
  <2>1. /\ ScimInv' /\ UNCHANGED <<users, restarts, sessionVars>>
        /\ userRow' \in [Users -> Account \cup {Absent}] /\ saveFaults' \in Nat
    BY <1>1, <1>8, SavePatchKeeps
  <2>2. SessionsInv' /\ SessionsGoOn BY <1>1, <2>1, QuietKeeps
  <2>3. UNCHANGED late BY <1>8 DEF SavePatch
  <2>4. LateKnown' /\ DisabledHasNoSession' BY <1>1, <2>1, <2>3, QuietOwners
  <2> QED BY <2>1, <2>2, <2>4 DEF IdentityInv
<1>9. ASSUME NEW d \in ProviderStates, ProviderChanges(d) PROVE IdentityInv' /\ SessionsGoOn
  <2>1. UNCHANGED <<sessionVars, userVars, boundVars, late>> BY <1>9 DEF ProviderChanges
  <2>2. ScimInv' BY <1>1, <1>9, ProviderKeeps
  <2> QED BY <1>2, <2>1, <2>2
<1> QED BY <1>3, <1>4, <1>5, <1>6, <1>7, <1>8, <1>9 DEF ScimNext

LEMMA LoadDirectoryKeeps ==
  ASSUME IdentityInv, LoadDirectory
  PROVE  IdentityInv' /\ restarts' # restarts
<1>1. SessionsInv /\ ScimInv BY DEF IdentityInv
<1>2. SessionsInv' /\ restarts' # restarts /\ restarts' # 0 BY <1>1, LoadKeeps DEF LoadDirectory
<1>3. LateKnown' /\ DisabledHasNoSession' BY <1>2 DEF LateKnown, DisabledHasNoSession
<1>4. /\ groups' = groupRow /\ job' = [j \in Jobs |-> IdleJob]
      /\ UNCHANGED <<groupRow, provider, served, cursors, providerSteps>>
  BY DEF LoadDirectory
<1>5. DirectoryTyped' /\ SyncConverges' BY <1>1, <1>4 DEF ScimInv, DirectoryTyped, SyncConverges
<1>6. IdleJob \in JobRecord /\ IdleJob.pc = "idle" BY IdleJobTyped
<1>7. JobsOK' /\ SyncsOnCourse' BY <1>4, <1>6 DEF JobsOK, SyncsOnCourse
<1> QED BY <1>2, <1>3, <1>5, <1>7 DEF IdentityInv, ScimInv

LEMMA IdentityInitHolds == IdentityInit => IdentityInv
<1> SUFFICES ASSUME IdentityInit PROVE IdentityInv OBVIOUS
<1>1. SessionsInit /\ ScimInit /\ users \in [Users -> Account \cup {Absent}] /\ userRow = users
      /\ restarts = 0 /\ saveFaults = 0
  BY DEF IdentityInit
<1>2. (CHOOSE l \in Logins : TRUE) \in Logins BY SessionsAssumption
<1>3. SessionsTypeOK
  <2>1. 0 \in 0..MaxTokens /\ 0 \in Nat BY SessionsAssumption
  <2> QED BY <1>1, <1>2, <2>1 DEF SessionsInit, SessionsTypeOK
<1>4. \A v \in Verifies : active[v] = NoSession /\ row[v] = NoSession /\ verify[v].pc = "idle"
  BY <1>1 DEF SessionsInit
<1>5. \A v \in Verifies : \A s : s \notin Copies(v) BY <1>1, <1>3, <1>4, CopiesMeaning DEF SessionsInit
<1>6. CopiesFollow BY <1>5 DEF CopiesFollow
<1>7. LoginsSpent BY <1>4 DEF LoginsSpent, OneSessionPerLogin
<1>8. ExchangesCounted BY <1>1, <1>4 DEF ExchangesCounted, SessionsInit
<1>9. IdleJob \in JobRecord /\ IdleJob.pc = "idle" BY IdleJobTyped
<1>10. DirectoryTyped
  <2>1. [active |-> TRUE, members |-> Users] \in Group BY DEF Group
  <2>2. 0 \in 0..MaxJobs /\ 0 \in 0..MaxProviderSteps BY ScimAssumption
  <2>3. /\ [u \in Users |-> "active"] \in [Users -> {"active", "inactive", Gone}]
        /\ [g \in Groups |-> [active |-> TRUE, members |-> Users]] \in [Groups -> Group \cup {NoGroup}]
    BY <2>1
  <2>4. provider \in Directory BY <1>1, <2>3 DEF ScimInit, Directory
  <2> QED BY <1>1, <2>2, <2>4 DEF ScimInit, DirectoryTyped
<1>11. JobsOK /\ SyncsOnCourse /\ SyncConverges
  BY <1>1, <1>9 DEF ScimInit, JobsOK, SyncsOnCourse, SyncConverges
<1>12. LateKnown BY <1>1, <1>4 DEF LateKnown, UnderWay, SessionsInit
<1>13. DisabledHasNoSession BY <1>4 DEF DisabledHasNoSession
<1> QED BY <1>3, <1>6, <1>7, <1>8, <1>10, <1>11, <1>12, <1>13 DEF IdentityInv, SessionsInv, ScimInv

LEMMA IdentityStutters ==
  ASSUME IdentityInv, UNCHANGED identityVars
  PROVE  IdentityInv' /\ SessionsGoOn
<1>1. UNCHANGED <<sessionVars, users, userRow, restarts, saveFaults, groups, groupRow, provider, job, served, late,
                  cursors, providerSteps>>
  BY DEF identityVars, userVars, boundVars, scimVars
<1>2. SessionsInv /\ ScimInv /\ LateKnown /\ DisabledHasNoSession BY DEF IdentityInv
<1>3. userRow' \in [Users -> Account \cup {Absent}] /\ saveFaults' \in Nat
  BY <1>1, <1>2 DEF SessionsInv, SessionsTypeOK, ExchangesCounted
<1>4. SessionsInv' /\ SessionsGoOn BY <1>1, <1>2, <1>3, QuietKeeps
<1>5. LateKnown' /\ DisabledHasNoSession' BY <1>1, <1>2, QuietOwners
<1>6. DirectoryTyped' /\ JobsOK' /\ SyncConverges'
  BY <1>1, <1>2 DEF ScimInv, DirectoryTyped, JobsOK, SyncConverges
<1>7. \A k \in Jobs : PlanCovers(k) => PlanCovers(k)' BY <1>1, PlanStays
<1>8. SyncsOnCourse' BY <1>1, <1>2, <1>7 DEF ScimInv, SyncsOnCourse
<1> QED BY <1>4, <1>5, <1>6, <1>8 DEF IdentityInv, ScimInv

----

\* Every process of the API keeps the registry, its table and the directory in
\* step: the invariant the two properties follow from (SessionRegistry,
\* apply_scim_patches, load_sessions).
THEOREM IdentityInvHolds == IdentitySpec => []IdentityInv
<1>1. IdentityInit => IdentityInv BY IdentityInitHolds
<1>2. IdentityInv /\ [IdentityNext]_identityVars => IdentityInv'
  BY SessionsStepKeeps, ScimStepKeeps, LoadDirectoryKeeps, IdentityStutters DEF IdentityNext
<1> QED BY <1>1, <1>2, PTL DEF IdentitySpec

LEMMA RevokedStep ==
  IdentityInv /\ [IdentityNext]_identityVars =>
    [\A v \in Verifies : (active[v] # NoSession /\ active[v].revoked /\ restarts' = restarts)
                           => active'[v].revoked]_<<active, restarts>>
<1> SUFFICES ASSUME IdentityInv, [IdentityNext]_identityVars, NEW v \in Verifies,
                    active[v] # NoSession, active[v].revoked, restarts' = restarts
             PROVE  active'[v].revoked
  OBVIOUS
<1>1. CASE SessionsNext
  <2>1. CASE SessionsGoOn BY <2>1 DEF SessionsGoOn
  <2>2. CASE \E w \in Verifies : ActivateSession(w) BY <2>2, ActivateKeeps DEF IdentityInv
  <2> QED BY <1>1, <2>1, <2>2, SessionsStep DEF IdentityInv
<1>2. CASE ScimNext BY <1>2, ScimStepKeeps DEF SessionsGoOn
<1>3. CASE LoadDirectory BY <1>3, LoadDirectoryKeeps
<1>4. CASE UNCHANGED identityVars BY <1>4, IdentityStutters DEF SessionsGoOn
<1> QED BY <1>1, <1>2, <1>3, <1>4 DEF IdentityNext

\* A login becomes at most one session, a refresh token is exchanged at most
\* once in the life of a process, the table sessions is never ahead of memory,
\* and a revoked session stays revoked, for any number of users, logins,
\* requests and restarts (SessionRegistry, refresh_handler, mfa_verify_handler).
THEOREM SessionsSoundHolds == IdentitySpec => SessionsSound
<1>1. IdentityInv => SessionsTypeOK /\ OneSessionPerLogin /\ TokenExchangedOnce /\ TableNeverAhead
  <2> SUFFICES ASSUME IdentityInv
               PROVE  SessionsTypeOK /\ OneSessionPerLogin /\ TokenExchangedOnce /\ TableNeverAhead
    OBVIOUS
  <2>1. SessionsTypeOK /\ CopiesFollow /\ LoginsSpent /\ ExchangesCounted BY DEF IdentityInv, SessionsInv
  <2>2. OneSessionPerLogin BY <2>1 DEF LoginsSpent
  <2>3. TokenExchangedOnce
    <3>1. \A t \in 1..tokens : t \in 1..MaxTokens BY <2>1, SessionsAssumption DEF SessionsTypeOK
    <3> QED BY <2>1, <3>1 DEF TokenExchangedOnce, ExchangesCounted
  <2>4. \A v \in Verifies : /\ active[v] # NoSession => active[v] \in Copies(v)
                            /\ row[v] # NoSession => row[v] \in Copies(v)
    BY <2>1, CopiesMeaning
  <2>5. TableNeverAhead BY <2>1, <2>4 DEF TableNeverAhead, CopiesFollow
  <2> QED BY <2>1, <2>2, <2>3, <2>5
<1>2. IdentityInv /\ [IdentityNext]_identityVars =>
        [\A v \in Verifies : (active[v] # NoSession /\ active[v].revoked /\ restarts' = restarts)
                               => active'[v].revoked]_<<active, restarts>>
  BY RevokedStep
<1> QED BY <1>1, <1>2, IdentityInvHolds, PTL DEF IdentitySpec, SessionsSound, RevokedStaysRevoked

\* An undisturbed synchronisation ends with the provider's users and groups,
\* and an account that was disabled keeps no session but those under way, for
\* any provider, policy, number of requests and order of their patches
\* (apply_scim_patches, revoke_sessions_for_user).
THEOREM DirectoryFollowedHolds == IdentitySpec => []DirectoryFollowed
<1>1. IdentityInv => DirectoryFollowed
  <2> SUFFICES ASSUME IdentityInv PROVE DirectoryFollowed OBVIOUS
  <2>1. DirectoryTyped /\ JobsOK /\ SyncConverges /\ DisabledHasNoSession BY DEF IdentityInv, ScimInv
  <2>2. \A j \in Jobs : /\ job[j].pc \in {"idle", "groups", "apply", "save"} /\ job[j].sync \in BOOLEAN
                        /\ job[j].todo \subseteq GroupPatch \cup UserPatch
    BY <2>1 DEF JobsOK, JobRecord
  <2>3. ScimTypeOK BY <2>1, <2>2 DEF ScimTypeOK, DirectoryTyped
  <2> QED BY <2>1, <2>3 DEF DirectoryFollowed
<1> QED BY <1>1, IdentityInvHolds, PTL

----
(* The state of a credential. *)

LEMMA NoStateTyped == NoState \in State /\ NewDue \in State
  BY RotationAssumption DEF NoState, NewDue, State

LEMMA StartAttemptTyped ==
  ASSUME NEW s \in State
  PROVE  /\ StartAttempt(s) \in State
         /\ StartAttempt(s).status = "Rotating"
         /\ StartAttempt(s).attempts > 0
         /\ CountsFit(StartAttempt(s))
<1>1. s.attempts \in Nat /\ s.version \in 0..MaxVersions BY RotationAssumption DEF State, NoState
<1>2. StartAttempt(s) \in State
  <2> DEFINE R(st) == [status : st, attempts : Nat, version : 0..MaxVersions]
             m == [s EXCEPT !.status = "Rotating"]
  <2>1. s \in R({"none", "Due", "Rotating", "Active", "FailedRetryable",
                 "ManualInterventionRequired"})
    BY RotationAssumption DEF State, NoState
  <2>2. m \in R({"Rotating"}) /\ m.attempts = s.attempts BY <2>1
  <2>3. StartAttempt(s) = [m EXCEPT !.attempts = s.attempts + 1] BY DEF StartAttempt
  <2> HIDE DEF m
  <2>4. StartAttempt(s) \in R({"Rotating"}) BY <2>2, <2>3, <1>1
  <2> QED BY <2>4 DEF State
<1>3. StartAttempt(s).status = "Rotating" /\ StartAttempt(s).attempts = s.attempts + 1
  BY DEF StartAttempt, State, NoState
<1> QED BY <1>1, <1>2, <1>3 DEF CountsFit

LEMMA MarkFailureTyped ==
  ASSUME NEW s \in State, s.status = "Rotating", s.attempts > 0
  PROVE  /\ MarkFailure(s) \in State
         /\ MarkFailure(s).status \notin {"Active", "Rotating"}
         /\ CountsFit(MarkFailure(s))
  BY RotationAssumption DEF MarkFailure, State, NoState, CountsFit

LEMMA MarkSuccessTyped ==
  ASSUME NEW s, NEW v \in 0..MaxVersions
  PROVE  /\ MarkSuccess(s, v) \in State
         /\ MarkSuccess(s, v).status = "Active"
         /\ MarkSuccess(s, v).version = v
         /\ CountsFit(MarkSuccess(s, v))
  BY RotationAssumption DEF MarkSuccess, State, CountsFit

LEMMA RefreshTyped ==
  ASSUME NEW k \in Keys, rot \in [Keys -> State], CountsFit(rot[k])
  PROVE  /\ RefreshDueStatus(k) \in State
         /\ CountsFit(RefreshDueStatus(k))
         /\ RefreshDueStatus(k).status = "Active" => RefreshDueStatus(k) = rot[k]
  BY RotationAssumption
     DEF RefreshDueStatus, State, NoState, NewDue, CountsFit

LEMMA IdleCycleTyped == IdleCycle \in Cycle /\ IdleCycle.pc = "idle" /\ CountsFit(IdleCycle.copy)
<1>1. (CHOOSE k \in Keys : TRUE) \in Keys BY RotationAssumption
<1> QED BY <1>1, NoStateTyped DEF IdleCycle, Cycle, CountsFit, NoState

----
(* Every action keeps the invariant. *)

LEMMA RotationInitHolds == RotationInit => RotationInv
<1> SUFFICES ASSUME RotationInit PROVE RotationInv OBVIOUS
<1>1. RotationTypeOK
  <2>1. keyMem \in [Keys -> 0..MaxVersions] /\ keyRow \in [Keys -> 0..MaxVersions]
    BY RotationAssumption DEF RotationInit
  <2>2. rot \in [Keys -> State] /\ rotRow \in [Keys -> State] BY NoStateTyped DEF RotationInit
  <2>3. \A k \in Keys : CountsFit(rot[k]) /\ CountsFit(rotRow[k]) BY DEF RotationInit, CountsFit, NoState
  <2>4. \A r \in Runners : cycle[r] \in Cycle BY IdleCycleTyped DEF RotationInit
  <2>5. elapsed \subseteq Keys /\ versions \in 1..MaxVersions BY RotationAssumption DEF RotationInit
  <2> QED BY <2>1, <2>2, <2>3, <2>4, <2>5 DEF RotationTypeOK, Cycle
<1>2. CyclesTyped BY IdleCycleTyped, RotationAssumption DEF RotationInit, CyclesTyped, CopyFits
<1>3. InStep BY IdleCycleTyped
     DEF RotationInit, InStep, OneCycle, KeyFollowsRow, CopyNamesRow, StateNamesKey,
         RowNamesKey, NoState
<1> QED BY <1>1, <1>2, <1>3 DEF RotationInv

\* One runner's cycle moves on to c.
Moves(r, c) == cycle' = [cycle EXCEPT ![r] = c]

LEMMA MovesTyped ==
  ASSUME NEW r \in Runners, NEW c \in Cycle, cycle \in [Runners -> Cycle], Moves(r, c)
  PROVE  /\ cycle' \in [Runners -> Cycle]
         /\ cycle'[r] = c
         /\ \A q \in Runners \ {r} : cycle'[q] = cycle[q]
  BY DEF Moves

\* A step of a cycle is never a second cycle.
LEMMA MovesAlone ==
  ASSUME NEW r \in Runners, NEW c \in Cycle, cycle \in [Runners -> Cycle], Moves(r, c),
         OneCycle, cycle[r].pc # "idle"
  PROVE  OneCycle' /\ \A q \in Runners \ {r} : cycle[q].pc = "idle" /\ cycle'[q].pc = "idle"
  BY MovesTyped DEF OneCycle

LEMMA StartCycleKeepsInv ==
  ASSUME RotationInv, NEW r \in Runners, NEW force \in BOOLEAN, NEW only \in SUBSET Keys,
         StartCycle(r, force, only)
  PROVE  RotationInv'
<1> DEFINE c == [cycle[r] EXCEPT !.pc = "next", !.force = force,
                                 !.todo = {k \in only : keyMem[k] # 0}]
<1>1. c \in Cycle /\ c.pc = "next" /\ c.copy = cycle[r].copy /\ c.key = cycle[r].key
  BY DEF RotationInv, CyclesTyped, Cycle
<1>2. Moves(r, c) BY DEF StartCycle, Moves
<1> HIDE DEF c
<1>3. /\ rot' \in [Keys -> State]
      /\ \A k \in Keys : CountsFit(rot'[k])
      /\ \A k \in Keys : rot'[k].status = "Active" => rot'[k] = rot[k]
  BY RefreshTyped DEF StartCycle, RotationInv, RotationTypeOK
<1>4. /\ cycle' \in [Runners -> Cycle]
      /\ cycle'[r] = c
      /\ \A q \in Runners \ {r} : cycle'[q] = cycle[q]
  BY <1>1, <1>2, MovesTyped DEF RotationInv, CyclesTyped
<1>5. RotationTypeOK' BY <1>3, <1>4 DEF StartCycle, RotationInv, RotationTypeOK, Cycle, CountsFit
<1>6. CyclesTyped' BY <1>1, <1>4 DEF StartCycle, RotationInv, CyclesTyped, CopyFits, CountsFit
<1>7. CASE overlap' BY <1>5, <1>6, <1>7 DEF RotationInv
<1>8. CASE ~overlap'
  <2>1. ~overlap /\ InStep /\ \A q \in Runners : cycle[q].pc = "idle" BY <1>8 DEF StartCycle, RotationInv
  <2>2. OneCycle' BY <2>1, <1>4 DEF OneCycle
  <2>3. KeyFollowsRow' /\ CopyNamesRow'
    BY <2>1, <1>1, <1>4 DEF InStep, KeyFollowsRow, CopyNamesRow, StartCycle
  <2>4. StateNamesKey' BY <2>1, <1>3 DEF InStep, StateNamesKey, StartCycle
  <2>5. RowNamesKey' BY <2>1, <1>1, <1>4 DEF InStep, RowNamesKey, StartCycle
  <2> QED BY <1>5, <1>6, <2>2, <2>3, <2>4, <2>5 DEF RotationInv, InStep
<1> QED BY <1>7, <1>8

LEMMA RotateKeepsInv ==
  ASSUME RotationInv, NEW r \in Runners, NEW k \in Keys, RotateSingleCredential(r, k)
  PROVE  RotationInv'
<1> DEFINE due == cycle[r].force \/ IsDue(k)
           c == IF due THEN [cycle[r] EXCEPT !.pc = "started", !.key = k,
                                             !.todo = cycle[r].todo \ {k}, !.copy = rot'[k]]
                ELSE [cycle[r] EXCEPT !.todo = cycle[r].todo \ {k}]
<1>1. /\ cycle \in [Runners -> Cycle] /\ rot \in [Keys -> State]
      /\ cycle[r] \in Cycle /\ cycle[r].pc = "next" /\ CopyFits(cycle[r])
  BY DEF RotateSingleCredential, RotationInv, RotationTypeOK, CyclesTyped
<1>2. /\ rot' \in [Keys -> State]
      /\ \A q \in Keys \ {k} : rot'[q] = rot[q]
      /\ due => rot'[k] = StartAttempt(rot[k])
      /\ ~due => rot' = rot
  BY <1>1, StartAttemptTyped DEF RotateSingleCredential
<1>3. Moves(r, c)
  <2>1. CASE due BY <2>1 DEF RotateSingleCredential, Moves
  <2>2. CASE ~due BY <2>2 DEF RotateSingleCredential, Moves
  <2> QED BY <2>1, <2>2
<1>4. c \in Cycle BY <1>1, <1>2 DEF Cycle
<1>5. IF due THEN c.pc = "started" /\ c.key = k /\ c.copy = rot'[k]
      ELSE c.pc = "next" /\ c.copy = cycle[r].copy
  BY <1>1 DEF Cycle
<1> HIDE DEF c
<1> HIDE DEF due
<1>6. /\ cycle' \in [Runners -> Cycle]
      /\ cycle'[r] = c
      /\ \A q \in Runners \ {r} : cycle'[q] = cycle[q]
  BY <1>1, <1>3, <1>4, MovesTyped
<1>7. \A q \in Keys : CountsFit(rot'[q]) BY <1>1, <1>2, StartAttemptTyped DEF RotationInv, RotationTypeOK
<1>8. RotationTypeOK' BY <1>2, <1>6, <1>7
     DEF RotateSingleCredential, RotationInv, RotationTypeOK, Cycle, CountsFit
<1>9. CopyFits(cycle[r])' BY <1>1, <1>2, <1>5, <1>6, <1>7, StartAttemptTyped
     DEF CopyFits, CountsFit, RotateSingleCredential
<1>10. CyclesTyped'
  BY <1>6, <1>9 DEF RotateSingleCredential, RotationInv, CyclesTyped, CopyFits, CountsFit
<1>11. ASSUME ~overlap PROVE InStep'
  <2>1. InStep BY <1>11 DEF RotationInv
  <2>2. OneCycle' /\ \A q \in Runners \ {r} : cycle[q].pc = "idle" /\ cycle'[q].pc = "idle"
    BY <2>1, <1>1, <1>3, <1>4, MovesAlone DEF InStep
  <2>3. KeyFollowsRow' /\ CopyNamesRow' BY <2>1, <2>2, <1>1, <1>5, <1>6
       DEF InStep, KeyFollowsRow, CopyNamesRow, RotateSingleCredential
  <2>4. StateNamesKey'
    BY <2>1, <1>1, <1>2, StartAttemptTyped DEF InStep, StateNamesKey, RotateSingleCredential
  <2>5. RowNamesKey' BY <2>1, <2>2, <1>1, <1>5, <1>6 DEF InStep, RowNamesKey, RotateSingleCredential
  <2> QED BY <2>2, <2>3, <2>4, <2>5 DEF InStep
<1>12. overlap' = overlap BY DEF RotateSingleCredential
<1> QED BY <1>8, <1>10, <1>11, <1>12 DEF RotationInv

LEMMA PersistKeepsInv ==
  ASSUME RotationInv, NEW r \in Runners, PersistRotationState(r)
  PROVE  RotationInv'
<1> DEFINE c == [cycle[r] EXCEPT !.pc = IF @ = "started" THEN "key" ELSE "next"]
<1>1. /\ cycle \in [Runners -> Cycle] /\ cycle[r] \in Cycle
      /\ cycle[r].pc \in {"started", "ended"} /\ CopyFits(cycle[r])
      /\ rotRow \in [Keys -> State]
  BY DEF PersistRotationState, RotationInv, RotationTypeOK, CyclesTyped
<1>2. /\ c \in Cycle /\ c.key = cycle[r].key /\ c.copy = cycle[r].copy
      /\ c.pc = IF cycle[r].pc = "started" THEN "key" ELSE "next"
      /\ c.key \in Keys /\ c.copy \in State
  BY <1>1 DEF Cycle
<1>3. Moves(r, c) BY DEF PersistRotationState, Moves
<1> HIDE DEF c
<1>4. /\ cycle' \in [Runners -> Cycle]
      /\ cycle'[r] = c
      /\ \A q \in Runners \ {r} : cycle'[q] = cycle[q]
  BY <1>1, <1>2, <1>3, MovesTyped
<1>5. /\ rotRow' \in [Keys -> State]
      /\ \A k \in Keys \ {c.key} : rotRow'[k] = rotRow[k]
      /\ rotRow'[c.key] \in {rotRow[c.key], c.copy}
      /\ rotRow'[c.key] = c.copy \/ rotationFaults' = rotationFaults + 1
  BY <1>1, <1>2 DEF PersistRotationState, RotationFault
<1>6. rotationFaults' \in Nat /\ rotationFaults' >= rotationFaults
  BY DEF PersistRotationState, RotationFault, RotationInv, CyclesTyped
<1>7. \A k \in Keys : CountsFit(rotRow'[k]) BY <1>1, <1>2, <1>5 DEF CopyFits, RotationInv, RotationTypeOK
<1>8. RotationTypeOK'
  BY <1>4, <1>5, <1>7 DEF PersistRotationState, RotationInv, RotationTypeOK, Cycle, CountsFit
<1>9. CyclesTyped' BY <1>1, <1>2, <1>4, <1>6
     DEF PersistRotationState, RotationInv, CyclesTyped, CopyFits, CountsFit
<1>10. ASSUME ~overlap PROVE InStep'
  <2>1. InStep BY <1>10 DEF RotationInv
  <2>2. OneCycle' /\ \A q \in Runners \ {r} : cycle[q].pc = "idle" /\ cycle'[q].pc = "idle"
    BY <2>1, <1>1, <1>2, <1>3, MovesAlone DEF InStep
  <2>3. KeyFollowsRow' /\ CopyNamesRow' BY <2>1, <2>2, <1>1, <1>2, <1>4
       DEF InStep, KeyFollowsRow, CopyNamesRow, PersistRotationState
  <2>4. StateNamesKey'
    BY <2>1, <1>6 DEF InStep, StateNamesKey, PersistRotationState, RotationInv, CyclesTyped
  <2>5. RowNamesKey'
    <3>1. CASE rotationFaults' > 0 BY <3>1 DEF RowNamesKey
    <3>2. CASE ~(rotationFaults' > 0)
      <4>1. ~(rotationFaults > 0) /\ rotRow'[c.key] = c.copy /\ keyRow' = keyRow
        BY <3>2, <1>5, <1>6 DEF PersistRotationState, RotationInv, CyclesTyped
      <4>2. ASSUME NEW k \in Keys, rotRow'[k].status = "Active"
            PROVE  rotRow'[k].version = keyRow[k] /\ keyRow[k] # 0
        <5>1. CASE k # c.key BY <5>1, <4>1, <4>2, <1>5, <2>1 DEF InStep, RowNamesKey
        <5>2. CASE k = c.key BY <5>2, <4>1, <4>2, <1>1, <1>2, <2>1 DEF InStep, RowNamesKey, CopyFits
        <5> QED BY <5>1, <5>2
      <4>3. c.pc = "key" => rotRow'[c.key].status # "Active" BY <4>1, <1>1, <1>2 DEF CopyFits
      <4> QED BY <4>1, <4>2, <4>3, <1>1, <1>2, <1>4, <2>2 DEF RowNamesKey
    <3> QED BY <3>1, <3>2
  <2> QED BY <2>2, <2>3, <2>4, <2>5 DEF InStep
<1>11. overlap' = overlap BY DEF PersistRotationState
<1> QED BY <1>8, <1>9, <1>10, <1>11 DEF RotationInv

\* The secret is stored: the row of its key gets a version that is not zero.
LEMMA SaveKeyKeepsInv ==
  ASSUME RotationInv, NEW r \in Runners, SaveIntegrationApiKey(r)
  PROVE  RotationInv'
<1> DEFINE k == cycle[r].key
           done == versions < MaxVersions /\ versions' = versions + 1
                     /\ keyRow' = [keyRow EXCEPT ![k] = versions']
                     /\ cycle' = [cycle EXCEPT ![r] = [cycle[r] EXCEPT !.pc = "publish",
                                    !.copy = MarkSuccess(cycle[r].copy, versions')]]
                     /\ UNCHANGED <<rot, rotationFaults>>
           failed == MarkFailure(cycle[r].copy)
<1>1. /\ cycle \in [Runners -> Cycle] /\ cycle[r] \in Cycle /\ k \in Keys
      /\ cycle[r].pc = "key" /\ CopyFits(cycle[r]) /\ cycle[r].copy \in State
      /\ keyRow \in [Keys -> 0..MaxVersions] /\ versions \in 1..MaxVersions
      /\ rot \in [Keys -> State] /\ rotationFaults \in Nat
  BY DEF SaveIntegrationApiKey, RotationInv, RotationTypeOK, CyclesTyped, Cycle
<1>2. CASE done
  <2> DEFINE new == MarkSuccess(cycle[r].copy, versions + 1)
             c == [cycle[r] EXCEPT !.pc = "publish", !.copy = new]
  <2>1. versions + 1 \in 1..MaxVersions BY <1>1, <1>2, RotationAssumption
  <2>2. Moves(r, c) BY <1>2 DEF Moves
  <2>3. /\ new \in State /\ new.status = "Active" /\ new.version = versions + 1
        /\ CountsFit(new)
    BY <2>1, MarkSuccessTyped
  <2> HIDE DEF new
  <2>4. c \in Cycle /\ c.pc = "publish" /\ c.key = k /\ c.copy = new BY <1>1, <2>3 DEF Cycle
  <2> HIDE DEF c
  <2>5. /\ cycle' \in [Runners -> Cycle]
        /\ cycle'[r] = c
        /\ \A q \in Runners \ {r} : cycle'[q] = cycle[q]
    BY <1>1, <2>2, <2>4, MovesTyped
  <2>6. /\ keyRow' \in [Keys -> 0..MaxVersions]
        /\ keyRow'[k] = versions + 1 /\ keyRow'[k] # 0
        /\ \A q \in Keys \ {k} : keyRow'[q] = keyRow[q]
    BY <1>1, <1>2, <2>1
  <2>7. /\ UNCHANGED <<keyMem, rot, rotRow, elapsed, overlap, rotationFaults,
                       rotationRestarts>>
        /\ versions' = versions + 1
    BY <1>2 DEF SaveIntegrationApiKey
  <2> HIDE DEF done, failed, k
  <2>8. RotationTypeOK' BY <2>1, <2>5, <2>6, <2>7 DEF RotationInv, RotationTypeOK, Cycle, CountsFit
  <2>9. \A q \in Runners : cycle[q].key \in Keys BY <1>1 DEF Cycle
  <2>10. CyclesTyped'
    BY <2>4, <2>5, <2>6, <2>3, <2>7, <2>9 DEF RotationInv, CyclesTyped, CopyFits, CountsFit
  <2>11. ASSUME ~overlap PROVE InStep'
    <3>1. InStep BY <2>11 DEF RotationInv
    <3>2. OneCycle' /\ \A q \in Runners \ {r} : cycle[q].pc = "idle" /\ cycle'[q].pc = "idle"
      BY <3>1, <1>1, <2>2, <2>4, MovesAlone DEF InStep
    <3>3. KeyFollowsRow' BY <3>1, <3>2, <1>1, <2>4, <2>5, <2>6, <2>7 DEF InStep, KeyFollowsRow
    <3>4. CopyNamesRow' BY <3>2, <2>4, <2>5, <2>6, <2>3 DEF CopyNamesRow
    <3>5. StateNamesKey' BY <3>1, <2>7 DEF InStep, StateNamesKey
    <3>6. RowNamesKey' BY <3>1, <3>2, <1>1, <2>4, <2>5, <2>6, <2>7 DEF InStep, RowNamesKey, k
    <3> QED BY <3>2, <3>3, <3>4, <3>5, <3>6 DEF InStep
  <2> QED BY <2>7, <2>8, <2>10, <2>11 DEF RotationInv
<1>3. CASE ~done
  <2> DEFINE c == [cycle[r] EXCEPT !.pc = "ended", !.copy = failed]
  <2>1. /\ rotationFaults' = rotationFaults + 1
        /\ rot' = [rot EXCEPT ![k] = failed]
        /\ Moves(r, c)
        /\ UNCHANGED <<keyMem, keyRow, rotRow, elapsed, versions, overlap, rotationRestarts>>
    BY <1>3 DEF SaveIntegrationApiKey, RotationFault, Moves
  <2>2. failed \in State /\ failed.status \notin {"Active", "Rotating"} /\ CountsFit(failed)
    BY <1>1, MarkFailureTyped DEF CopyFits
  <2> HIDE DEF failed
  <2>3. c \in Cycle /\ c.pc = "ended" /\ c.key = k /\ c.copy = failed BY <1>1, <2>2 DEF Cycle
  <2> HIDE DEF c, done
  <2>4. /\ cycle' \in [Runners -> Cycle]
        /\ cycle'[r] = c
        /\ \A q \in Runners \ {r} : cycle'[q] = cycle[q]
    BY <1>1, <2>1, <2>3, MovesTyped
  <2>5. /\ rot' \in [Keys -> State] /\ rot'[k] = failed
        /\ \A q \in Keys \ {k} : rot'[q] = rot[q]
    BY <1>1, <2>1, <2>2
  <2> HIDE DEF k
  <2>6. RotationTypeOK' BY <2>1, <2>2, <2>4, <2>5 DEF RotationInv, RotationTypeOK, Cycle, CountsFit
  <2>7. CyclesTyped' BY <1>1, <2>1, <2>2, <2>3, <2>4 DEF RotationInv, CyclesTyped, CopyFits, CountsFit
  <2>8. ASSUME ~overlap PROVE InStep'
    <3>1. InStep BY <2>8 DEF RotationInv
    <3>2. OneCycle' /\ \A q \in Runners \ {r} : cycle[q].pc = "idle" /\ cycle'[q].pc = "idle"
      BY <3>1, <1>1, <2>1, <2>3, MovesAlone DEF InStep
    <3>3. KeyFollowsRow' /\ CopyNamesRow'
      BY <3>1, <3>2, <1>1, <2>1, <2>3, <2>4 DEF InStep, KeyFollowsRow, CopyNamesRow
    <3>4. StateNamesKey' BY <3>1, <1>1, <2>1, <2>2, <2>5 DEF InStep, StateNamesKey
    <3>5. RowNamesKey' BY <1>1, <2>1 DEF RowNamesKey
    <3> QED BY <3>2, <3>3, <3>4, <3>5 DEF InStep
  <2> QED BY <2>1, <2>6, <2>7, <2>8 DEF RotationInv
<1> QED BY <1>2, <1>3

LEMMA UpsertKeepsInv ==
  ASSUME RotationInv, NEW r \in Runners, UpsertApiKey(r)
  PROVE  RotationInv'
<1> DEFINE k == cycle[r].key
           v == cycle[r].copy
           c == [cycle[r] EXCEPT !.pc = "ended"]
<1>1. /\ cycle \in [Runners -> Cycle] /\ cycle[r] \in Cycle /\ k \in Keys
      /\ cycle[r].pc = "publish" /\ CopyFits(cycle[r]) /\ v \in State
      /\ rot \in [Keys -> State] /\ keyMem \in [Keys -> 0..MaxVersions]
      /\ v.version \in 0..MaxVersions
  BY RotationAssumption
     DEF UpsertApiKey, RotationInv, RotationTypeOK, CyclesTyped, Cycle, State, NoState
<1>2. c \in Cycle /\ c.pc = "ended" /\ c.key = k /\ c.copy = v BY <1>1 DEF Cycle
<1>3. /\ Moves(r, c)
      /\ UNCHANGED <<keyRow, rotRow, elapsed, versions, overlap, rotationFaults,
                     rotationRestarts>>
  BY DEF UpsertApiKey, Moves
<1>4. v.status = "Active" /\ CountsFit(v) /\ keyRow[k] # 0 BY <1>1 DEF CopyFits
<1>5. /\ keyMem' \in [Keys -> 0..MaxVersions] /\ keyMem'[k] = v.version
      /\ rot' \in [Keys -> State] /\ rot'[k] = v
      /\ \A q \in Keys \ {k} : keyMem'[q] = keyMem[q] /\ rot'[q] = rot[q]
  BY <1>1 DEF UpsertApiKey
<1> HIDE DEF c, k, v
<1>6. /\ cycle' \in [Runners -> Cycle]
      /\ cycle'[r] = c
      /\ \A q \in Runners \ {r} : cycle'[q] = cycle[q]
  BY <1>1, <1>2, <1>3, MovesTyped
<1>7. RotationTypeOK' BY <1>1, <1>3, <1>4, <1>5, <1>6 DEF RotationInv, RotationTypeOK, Cycle, CountsFit
<1>8. CyclesTyped' BY <1>2, <1>3, <1>4, <1>6 DEF RotationInv, CyclesTyped, CopyFits, CountsFit
<1>9. ASSUME ~overlap PROVE InStep'
  <2>1. InStep BY <1>9 DEF RotationInv
  <2>2. OneCycle' /\ \A q \in Runners \ {r} : cycle[q].pc = "idle" /\ cycle'[q].pc = "idle"
    BY <2>1, <1>1, <1>2, <1>3, MovesAlone DEF InStep
  <2>3. v.version = keyRow[k] BY <2>1, <1>1 DEF InStep, CopyNamesRow, k, v
  <2>4. KeyFollowsRow'
    <3>1. ASSUME NEW q \in Keys, q # k, keyRow[q] # 0 PROVE keyMem[q] = keyRow[q]
      BY <3>1, <2>1, <2>2, <1>1 DEF InStep, KeyFollowsRow, k
    <3> QED BY <3>1, <2>3, <1>1, <1>3, <1>5 DEF KeyFollowsRow
  <2>5. CopyNamesRow' BY <2>2, <1>2, <1>6 DEF CopyNamesRow
  <2>6. StateNamesKey' BY <2>1, <1>3, <1>5 DEF InStep, StateNamesKey
  <2>7. RowNamesKey' BY <2>1, <2>2, <2>3, <1>2, <1>3, <1>4, <1>6 DEF InStep, RowNamesKey
  <2> QED BY <2>2, <2>4, <2>5, <2>6, <2>7 DEF InStep
<1> QED BY <1>3, <1>7, <1>8, <1>9 DEF RotationInv

LEMMA EndCycleKeepsInv ==
  ASSUME RotationInv, NEW r \in Runners, EndCycle(r)
  PROVE  RotationInv'
<1>1. /\ cycle \in [Runners -> Cycle] /\ cycle[r].pc = "next"
      /\ Moves(r, IdleCycle)
      /\ UNCHANGED <<keyMem, keyRow, rot, rotRow, elapsed, versions, overlap,
                     rotationFaults, rotationRestarts>>
  BY DEF EndCycle, Moves, RotationInv, CyclesTyped
<1>2. /\ cycle' \in [Runners -> Cycle]
      /\ cycle'[r] = IdleCycle
      /\ \A q \in Runners \ {r} : cycle'[q] = cycle[q]
  BY <1>1, IdleCycleTyped, MovesTyped
<1>3. RotationTypeOK' BY <1>1, <1>2 DEF RotationInv, RotationTypeOK, Cycle, CountsFit
<1>4. CyclesTyped' BY <1>1, <1>2, IdleCycleTyped DEF RotationInv, CyclesTyped, CopyFits, CountsFit
<1>5. ASSUME ~overlap PROVE InStep' BY <1>1, <1>2, <1>5, IdleCycleTyped
     DEF RotationInv, InStep, OneCycle, KeyFollowsRow, CopyNamesRow, StateNamesKey,
         RowNamesKey
<1> QED BY <1>1, <1>3, <1>4, <1>5 DEF RotationInv

LEMMA IntervalKeepsInv ==
  ASSUME RotationInv, NEW k \in Keys, IntervalElapses(k)
  PROVE  RotationInv'
  BY DEF IntervalElapses, RotationInv, RotationTypeOK, CyclesTyped, CopyFits, CountsFit,
         InStep, OneCycle, KeyFollowsRow, CopyNamesRow, StateNamesKey, RowNamesKey

LEMMA StutterKeepsInv ==
  ASSUME RotationInv, UNCHANGED rotationVars
  PROVE  RotationInv'
  BY DEF rotationVars, RotationInv, RotationTypeOK, CyclesTyped, CopyFits, CountsFit,
         InStep, OneCycle, KeyFollowsRow, CopyNamesRow, StateNamesKey, RowNamesKey

\* Memory is what the rows say; without a failed statement these agree.
LEMMA LoadKeepsInv ==
  ASSUME RotationInv, LoadCredentials
  PROVE  RotationInv'
<1>1. /\ rotationRestarts' = rotationRestarts + 1
      /\ keyMem' = IF \E k \in Keys : keyRow[k] # 0 THEN keyRow
                   ELSE [k \in Keys |-> 1]
      /\ rot' = rotRow
      /\ cycle' = [r \in Runners |-> IdleCycle]
      /\ UNCHANGED <<keyRow, rotRow, elapsed, versions, overlap, rotationFaults>>
  BY DEF LoadCredentials
<1>2. /\ cycle' \in [Runners -> Cycle]
      /\ \A r \in Runners : cycle'[r] = IdleCycle
  BY <1>1, IdleCycleTyped
<1>3. RotationTypeOK' BY <1>1, <1>2, RotationAssumption DEF RotationInv, RotationTypeOK, Cycle, CountsFit
<1>4. CyclesTyped' BY <1>1, <1>2, IdleCycleTyped DEF RotationInv, CyclesTyped, CopyFits
<1>5. ASSUME ~overlap PROVE InStep'
  <2>1. RowNamesKey /\ rotationFaults \in Nat /\ rotationRestarts \in Nat
    BY <1>5 DEF RotationInv, InStep, CyclesTyped
  <2>2. \A k \in Keys : keyRow[k] # 0 => keyMem' = keyRow BY <1>1
  <2>3. OneCycle' /\ CopyNamesRow' BY <1>2, IdleCycleTyped DEF OneCycle, CopyNamesRow
  <2>4. KeyFollowsRow' BY <1>1, <2>2 DEF KeyFollowsRow
  <2>5. StateNamesKey' BY <1>1, <2>1, <2>2 DEF RowNamesKey, StateNamesKey
  <2>6. RowNamesKey' BY <1>1, <1>2, <2>1, IdleCycleTyped DEF RowNamesKey
  <2> QED BY <2>3, <2>4, <2>5, <2>6 DEF InStep
<1> QED BY <1>1, <1>3, <1>4, <1>5 DEF RotationInv

----

\* Cycles, failed statements and restarts keep the secrets and the states of
\* the credentials as far apart as the steps under way allow, and no further
\* (run_credential_rotation_cycle, load_credentials).
THEOREM RotationInvHolds == RotationSpec => []RotationInv
<1>1. RotationInit => RotationInv BY RotationInitHolds
<1>2. RotationInv /\ [RotationNext]_rotationVars => RotationInv'
  <2> SUFFICES ASSUME RotationInv, [RotationNext]_rotationVars PROVE RotationInv' OBVIOUS
  <2>1. ASSUME NEW r \in Runners, NEW force \in BOOLEAN,
               NEW only \in {Keys} \cup {{k} : k \in Keys}, StartCycle(r, force, only)
        PROVE  RotationInv'
    <3>1. only \in SUBSET Keys OBVIOUS
    <3> QED BY <2>1, <3>1, StartCycleKeepsInv
  <2>2. ASSUME NEW r \in Runners, CycleStep(r)
        PROVE  RotationInv'
    <3>1. ASSUME NEW k \in cycle[r].todo, RotateSingleCredential(r, k)
          PROVE  RotationInv'
      <4>1. k \in Keys BY DEF RotationInv, RotationTypeOK
      <4> QED BY <3>1, <4>1, RotateKeepsInv
    <3> QED BY <2>2, <3>1, PersistKeepsInv, SaveKeyKeepsInv, UpsertKeepsInv,
               EndCycleKeepsInv DEF CycleStep
  <2> QED BY <2>1, <2>2, IntervalKeepsInv, LoadKeepsInv, StutterKeepsInv
          DEF RotationNext
<1> QED BY <1>1, <1>2, PTL DEF RotationSpec

LEMMA InvGivesSecretsInStep == RotationInv => SecretsInStep
<1> SUFFICES ASSUME RotationInv PROVE SecretsInStep OBVIOUS
<1>1. KeyMatchesState BY DEF KeyMatchesState, RotationInv, InStep, KeyFollowsRow, StateNamesKey
<1> QED BY <1>1 DEF RotationInv, SecretsInStep

\* At rest, as long as no two cycles met, the secret the API accepts is the stored
\* one, and the state of an active credential names it, whatever statement failed
\* or wherever a restart cut a rotation short, short of both together
\* (run_credential_rotation_cycle).
THEOREM SecretsInStepHolds == RotationSpec => []SecretsInStep
  BY RotationInvHolds, InvGivesSecretsInStep, PTL

----
(* Agents and their limits: the invariant. *)

BucketRecord == [limit : Nat, period : Nat \ {0}, parts : Nat, at : Nat, born : Nat]

BucketOK(b, limits, period, now) ==
  /\ b \in BucketRecord /\ b.limit \in limits /\ b.period = period
  /\ b.parts <= b.limit * b.period
  /\ b.born <= b.at /\ b.at <= now

MinuteLimits == {x.minute : x \in Registrations}
HourLimits == {x.hour : x \in Registrations}

CallRecord == [pc : {"minute", "hour", "tool", "query"}, line : Lines, user : McpUsers,
               tools : {x.tools : x \in Registrations}, minute : MinuteLimits,
               hour : HourLimits, allowed : BOOLEAN, wait : Int, waited : Nat]

GatewayTables ==
  /\ agents \in [Agents -> Registrations]
  /\ call \in [McpCalls -> CallRecord \cup {NoCall}]
  /\ mcpClock \in Nat \ {0}
  /\ permitted \in [Lines -> Nat]
  /\ told \in [Lines -> [at : Nat, delay : Int]]
  /\ DOMAIN minutes \subseteq Lines /\ DOMAIN hours \subseteq Lines
  /\ \A l \in DOMAIN minutes : BucketOK(minutes[l], MinuteLimits, MinuteTicks, mcpClock)
  /\ \A l \in DOMAIN hours : BucketOK(hours[l], HourLimits, HourTicks, mcpClock)

\* Calls on a line that the first bucket let through and the second is yet to see.
Halfway(l) == {c \in McpCalls : call[c].pc = "hour" /\ call[c].line = l /\ call[c].allowed}

\* A bucket that let n calls through has spent no more than it was given.
Ledger(b, n) == n * b.period + b.parts <= b.limit * (b.period + b.at - b.born)

LedgerFits(l) ==
  /\ IsFiniteSet(Halfway(l))
  /\ IF l \in DOMAIN minutes THEN Ledger(minutes[l], permitted[l] + Cardinality(Halfway(l)))
     ELSE permitted[l] = 0 /\ Halfway(l) = {}
  /\ IF l \in DOMAIN hours THEN Ledger(hours[l], permitted[l]) ELSE permitted[l] = 0

\* Since a refusal was told on a line, only the call that waited has charged it.
ToldFits(l) ==
  told[l].at # 0 =>
    /\ l \in DOMAIN minutes /\ l \in DOMAIN hours
    /\ hours[l].at <= told[l].at /\ told[l].at <= mcpClock
    /\ (\A c \in McpCalls : call[c].pc = "hour" => call[c].line # l)
         => minutes[l].at <= told[l].at

WaitFits(c) ==
  LET l == call[c].line
  IN  call[c].pc = "hour" =>
        /\ l \in DOMAIN minutes
        /\ (call[c].waited > 0 /\ told[l].at # 0) =>
             /\ call[c].waited <= mcpClock - told[l].at
             /\ call[c].allowed \/ call[c].waited * minutes[l].limit < MinuteTicks

Short(x) ==
  /\ x.line \in DOMAIN minutes /\ x.line \in DOMAIN hours
  /\ \/ x.waited * minutes[x.line].limit < MinuteTicks
     \/ x.waited * hours[x.line].limit < HourTicks

MisledFits == \A x \in misled : Short(x)

GatewayInv ==
  /\ GatewayTables
  /\ \A l \in Lines : LedgerFits(l) /\ ToldFits(l)
  /\ \A c \in McpCalls : WaitFits(c)
  /\ MisledFits

----
(* Agents and their limits: buckets. *)

\* What is spent does not depend on who spent it.
LEMMA LedgerLess ==
  ASSUME NEW b \in BucketRecord, NEW n \in Nat, NEW m \in Nat, m <= n, Ledger(b, n)
  PROVE  Ledger(b, m)
<1> DEFINE p == b.period
           rest == b.limit * (b.period + b.at - b.born)
<1>1. p \in Nat /\ b.parts \in Nat /\ rest \in Int BY DEF BucketRecord
<1>2. n * p + b.parts <= rest BY DEF Ledger
<1> HIDE DEF p, rest
<1>3. m * p <= n * p BY <1>1
<1>4. m * p \in Int /\ n * p \in Int BY <1>1
<1>5. m * p + b.parts <= rest BY <1>1, <1>2, <1>3, <1>4
<1> QED BY <1>5 DEF Ledger, p, rest

LEMMA NewBucketOK ==
  ASSUME NEW limits, limits \subseteq Nat, NEW limit \in limits,
         NEW period \in Nat \ {0}, mcpClock \in Nat \ {0}
  PROVE  /\ BucketOK(Bucket(limit, period), limits, period, mcpClock)
         /\ Ledger(Bucket(limit, period), 0)
<1> DEFINE b == Bucket(limit, period)
<1>1. /\ b.limit = limit /\ b.period = period /\ b.parts = limit * period
      /\ b.at = mcpClock /\ b.born = mcpClock
  BY DEF Bucket
<1>2. limit * period \in Nat OBVIOUS
<1>3. b \in BucketRecord BY <1>2 DEF Bucket, BucketRecord
<1> HIDE DEF b
<1>4. BucketOK(b, limits, period, mcpClock) BY <1>1, <1>2, <1>3 DEF BucketOK
<1>5. limit * (period + mcpClock - mcpClock) = limit * period OBVIOUS
<1>6. Ledger(b, 0) BY <1>1, <1>2, <1>5 DEF Ledger
<1> QED BY <1>4, <1>6 DEF b

LEMMA RefilledOK ==
  ASSUME NEW limits, NEW period \in Nat \ {0}, NEW b, BucketOK(b, limits, period, mcpClock),
         mcpClock \in Nat \ {0}, NEW n \in Nat, Ledger(b, n)
  PROVE  /\ Refilled(b) \in BucketRecord
         /\ Refilled(b).limit = b.limit /\ Refilled(b).period = b.period
         /\ Refilled(b).born = b.born /\ Refilled(b).at = mcpClock
         /\ Refilled(b).parts <= b.limit * b.period
         /\ Ledger(Refilled(b), n)
<1> DEFINE x == b.limit
           d == mcpClock - b.at
           grown == b.parts + x * d
           full == x * b.period
           r == Refilled(b)
<1>1. /\ x \in Nat /\ b.parts \in Nat /\ b.at \in Nat /\ b.born \in Nat
      /\ b.period \in Nat \ {0} /\ b \in BucketRecord /\ b.at <= mcpClock
  BY DEF BucketOK, BucketRecord
<1>2. d \in Nat BY <1>1
<1>3. x * d \in Nat /\ full \in Nat /\ grown \in Nat BY <1>1, <1>2
<1>4. /\ r.limit = x /\ r.period = b.period /\ r.born = b.born /\ r.at = mcpClock
      /\ r.parts = IF grown < full THEN grown ELSE full
  BY <1>1 DEF Refilled, BucketRecord
<1>5. r \in BucketRecord
  <2>1. (IF grown < full THEN grown ELSE full) \in Nat BY <1>3
  <2> HIDE DEF grown, full
  <2>2. [b EXCEPT !.parts = IF grown < full THEN grown ELSE full, !.at = mcpClock] \in BucketRecord
    BY <1>1, <2>1 DEF BucketRecord
  <2> QED BY <2>2 DEF Refilled, grown, full
<1>6. Ledger(r, n)
  <2> DEFINE old == b.period + b.at - b.born
             spent == n * b.period
  <2>1. spent + b.parts <= x * old /\ spent \in Int /\ old \in Int BY <1>1 DEF Ledger
  <2>2. x * (old + d) = x * old + x * d BY <1>1, <1>2, <2>1
  <2>3. old + d = b.period + mcpClock - b.born BY <1>1
  <2>4. r.parts <= b.parts + x * d /\ r.parts \in Int BY <1>3, <1>4
  <2>5. x * old \in Int BY <1>1, <2>1
  <2>6. x * (b.period + mcpClock - b.born) = x * old + x * d BY <2>2, <2>3
  <2> HIDE DEF x, d, spent, old, r
  <2>7. spent + r.parts <= x * old + x * d BY <1>1, <1>3, <2>1, <2>4, <2>5
  <2>8. n * r.period + r.parts <= r.limit * (r.period + r.at - r.born) BY <1>4, <2>6, <2>7 DEF spent
  <2> QED BY <2>8 DEF Ledger
<1> QED BY <1>3, <1>4, <1>5, <1>6

\* A charge keeps the books, whether or not the bucket has a token.
LEMMA ConsumedOK ==
  ASSUME NEW limits, NEW period \in Nat \ {0}, NEW b, BucketOK(b, limits, period, mcpClock),
         mcpClock \in Nat \ {0}, NEW n \in Nat, Ledger(b, n)
  PROVE  /\ BucketOK(Consumed(b), limits, period, mcpClock)
         /\ Consumed(b).at = mcpClock /\ Consumed(b).limit = b.limit
         /\ Allowed(b) => Ledger(Consumed(b), n + 1)
         /\ ~Allowed(b) => Ledger(Consumed(b), n)
<1> DEFINE r == Refilled(b)
           e == [r EXCEPT !.parts = @ - b.period]
<1>1. /\ r \in BucketRecord /\ r.limit = b.limit /\ r.period = b.period /\ r.born = b.born
      /\ r.at = mcpClock /\ r.parts <= b.limit * b.period /\ Ledger(r, n)
  BY RefilledOK
<1>2. /\ b \in BucketRecord /\ b.limit \in limits /\ b.period = period
      /\ b.born <= b.at /\ b.at <= mcpClock
  BY DEF BucketOK
<1>3. /\ b.period \in Nat \ {0} /\ b.limit \in Nat /\ b.at \in Nat /\ b.born \in Nat
      /\ r.parts \in Nat
  BY <1>1, <1>2 DEF BucketRecord
<1>4. b.born <= mcpClock BY <1>2, <1>3
<1>5. Consumed(b) = IF Allowed(b) THEN e ELSE r BY DEF Consumed
<1>6. Allowed(b) => r.parts >= b.period BY DEF Allowed
<1> HIDE DEF r
<1>7. BucketOK(r, limits, period, mcpClock) BY <1>1, <1>2, <1>4 DEF BucketOK
<1>8. ASSUME Allowed(b)
      PROVE  /\ BucketOK(e, limits, period, mcpClock) /\ Ledger(e, n + 1)
             /\ e.at = mcpClock /\ e.limit = b.limit
  <2>1. /\ e.limit = b.limit /\ e.period = b.period /\ e.born = b.born /\ e.at = mcpClock
        /\ e.parts = r.parts - b.period
    BY <1>1 DEF BucketRecord
  <2>2. r.parts - b.period \in Nat BY <1>3, <1>6, <1>8
  <2>3. e \in BucketRecord BY <1>1, <2>2 DEF BucketRecord
  <2> HIDE DEF e
  <2> DEFINE full == b.limit * b.period
  <2>4. full \in Nat BY <1>3
  <2>5. e.parts <= full
    <3> HIDE DEF full
    <3>1. r.parts <= full BY <1>1 DEF full
    <3> QED BY <1>3, <2>1, <2>4, <3>1
  <2>6. BucketOK(e, limits, period, mcpClock) BY <1>2, <1>4, <2>1, <2>3, <2>5 DEF BucketOK
  <2>7. (n + 1) * b.period + (r.parts - b.period) = n * b.period + r.parts
    <3>1. (n + 1) * b.period = n * b.period + b.period BY <1>3
    <3>2. n * b.period \in Int BY <1>3
    <3> QED BY <1>3, <3>1, <3>2
  <2>8. n * b.period + r.parts <= b.limit * (b.period + mcpClock - b.born) BY <1>1 DEF Ledger
  <2>9. Ledger(e, n + 1) BY <2>1, <2>7, <2>8 DEF Ledger
  <2> QED BY <2>1, <2>6, <2>9
<1> QED BY <1>1, <1>5, <1>7, <1>8

\* A bucket left alone for as long as a token takes has one.
LEMMA WaitRefills ==
  ASSUME NEW limits, NEW period \in Nat \ {0}, NEW b, BucketOK(b, limits, period, mcpClock),
         mcpClock \in Nat \ {0}, NEW w \in Nat, b.at + w <= mcpClock, w * b.limit >= period
  PROVE  Allowed(b)
<1> DEFINE x == b.limit
           d == mcpClock - b.at
           full == x * b.period
<1>1. /\ x \in Nat /\ b.parts \in Nat /\ b.at \in Nat
      /\ b.period = period /\ b \in BucketRecord
  BY DEF BucketOK, BucketRecord
<1>2. d \in Nat /\ w <= d BY <1>1
<1>3. Refilled(b).parts = IF b.parts + x * d < full THEN b.parts + x * d ELSE full
  BY <1>1 DEF Refilled, BucketRecord
<1>4. full >= period
  <2>1. x # 0 BY <1>1
  <2> QED BY <1>1, <2>1
<1>5. x * d >= w * x /\ x * d \in Nat /\ w * x \in Nat BY <1>1, <1>2
<1> HIDE DEF d, full
<1>6. b.parts + x * d >= period BY <1>1, <1>5
<1>7. Refilled(b).parts >= period BY <1>3, <1>4, <1>6
<1> QED BY <1>1, <1>7 DEF Allowed

----
(* Agents and their limits: steps. *)

\* Calls before the first bucket, or past the second, do not touch the books.
LEMMA GatewayStill ==
  ASSUME GatewayInv, UNCHANGED <<minutes, hours, permitted, told, misled>>,
         agents' \in [Agents -> Registrations],
         call' \in [McpCalls -> CallRecord \cup {NoCall}],
         mcpClock' \in Nat, mcpClock <= mcpClock',
         \A c \in McpCalls : (call[c].pc = "hour" \/ call'[c].pc = "hour") => call'[c] = call[c]
  PROVE  GatewayInv'
<1>1. GatewayTables /\ mcpClock \in Nat \ {0} BY DEF GatewayInv, GatewayTables
<1>2. GatewayTables'
  <2>1. mcpClock' \in Nat \ {0} BY <1>1
  <2>2. \A l \in DOMAIN minutes : BucketOK(minutes[l], MinuteLimits, MinuteTicks, mcpClock')
    BY <1>1 DEF GatewayTables, BucketOK, BucketRecord
  <2>3. \A l \in DOMAIN hours : BucketOK(hours[l], HourLimits, HourTicks, mcpClock')
    BY <1>1 DEF GatewayTables, BucketOK, BucketRecord
  <2> QED BY <1>1, <2>1, <2>2, <2>3 DEF GatewayTables
<1>3. ASSUME NEW l \in Lines PROVE LedgerFits(l)' /\ ToldFits(l)'
  <2>1. LedgerFits(l) /\ ToldFits(l) BY DEF GatewayInv
  <2>2. Halfway(l)' = Halfway(l) BY DEF Halfway
  <2>3. LedgerFits(l)' BY <2>1, <2>2 DEF LedgerFits
  <2>4. told[l].at \in Nat BY <1>1 DEF GatewayTables
  <2>5. (\A c \in McpCalls : call'[c].pc = "hour" => call'[c].line # l)
           => (\A c \in McpCalls : call[c].pc = "hour" => call[c].line # l)
    OBVIOUS
  <2>6. ToldFits(l)' BY <1>1, <2>1, <2>4, <2>5 DEF ToldFits
  <2> QED BY <2>3, <2>6
<1>4. ASSUME NEW c \in McpCalls PROVE WaitFits(c)'
  <2>1. WaitFits(c) BY DEF GatewayInv
  <2>2. CASE call'[c].pc = "hour"
    <3> DEFINE w == call[c].waited
               at == told[call[c].line].at
    <3>1. call'[c] = call[c] /\ call[c].pc = "hour" /\ call[c] \in CallRecord
      BY <1>1, <2>2 DEF GatewayTables, NoCall
    <3>2. w \in Nat /\ at \in Nat BY <1>1, <3>1 DEF GatewayTables, CallRecord
    <3>3. w <= mcpClock - at => w <= mcpClock' - at BY <1>1, <3>2
    <3> HIDE DEF w, at
    <3> QED BY <2>1, <3>1, <3>3 DEF WaitFits, w, at
  <2> QED BY <2>2 DEF WaitFits
<1>5. MisledFits' BY DEF GatewayInv, MisledFits, Short
<1> QED BY <1>2, <1>3, <1>4, <1>5 DEF GatewayInv

\* A step that moves one call before or past the buckets, or none of them.
LEMMA CallMovesStill ==
  ASSUME GatewayInv, UNCHANGED <<minutes, hours, permitted, told, misled, agents, mcpClock>>,
         NEW c \in McpCalls, NEW r \in CallRecord \cup {NoCall},
         call' = [call EXCEPT ![c] = r], call[c].pc # "hour", r.pc # "hour"
  PROVE  GatewayInv'
<1>1. /\ agents \in [Agents -> Registrations] /\ mcpClock \in Nat
      /\ call \in [McpCalls -> CallRecord \cup {NoCall}]
  BY DEF GatewayInv, GatewayTables
<1>2. /\ call' \in [McpCalls -> CallRecord \cup {NoCall}]
      /\ \A d \in McpCalls : (call[d].pc = "hour" \/ call'[d].pc = "hour") => call'[d] = call[d]
  BY <1>1
<1> QED BY <1>1, <1>2, GatewayStill

LEMMA AuthenticateStill ==
  ASSUME GatewayInv, NEW c \in McpCalls, NEW a \in Agents, NEW u \in McpUsers, NEW key,
         NEW tool \in McpTools, Authenticate(c, a, u, key, tool)
  PROVE  GatewayInv'
<1> DEFINE r == [pc |-> "minute", line |-> <<a, tool>>, user |-> u, tools |-> agents[a].tools,
                 minute |-> agents[a].minute, hour |-> agents[a].hour,
                 allowed |-> FALSE, wait |-> 0, waited |-> 0]
<1>1. /\ UNCHANGED <<minutes, hours, permitted, told, misled, agents, mcpClock>>
      /\ call' = [call EXCEPT ![c] = r] /\ call[c].pc = "idle"
  BY DEF Authenticate
<1>2. agents[a] \in Registrations BY DEF GatewayInv, GatewayTables
<1>3. r \in CallRecord /\ r.pc = "minute" BY <1>2 DEF CallRecord, MinuteLimits, HourLimits, Lines
<1> HIDE DEF r
<1> QED BY <1>1, <1>3, CallMovesStill

LEMMA ToolStill ==
  ASSUME GatewayInv, NEW c \in McpCalls, QueryTool(c) \/ AnswerQuery(c) \/ RequestPermission(c)
  PROVE  GatewayInv'
<1> DEFINE r == [call[c] EXCEPT !.pc = "query"]
<1>1. /\ UNCHANGED <<minutes, hours, permitted, told, misled, agents, mcpClock>>
      /\ call[c].pc \in {"tool", "query"}
  BY DEF QueryTool, AnswerQuery, RequestPermission
<1>2. call \in [McpCalls -> CallRecord \cup {NoCall}] BY DEF GatewayInv, GatewayTables
<1>3. call[c] \in CallRecord BY <1>1, <1>2 DEF NoCall
<1>4. r \in CallRecord /\ r.pc = "query" BY <1>3 DEF CallRecord
<1>5. NoCall.pc = "idle" BY DEF NoCall
<1>6. call' = [call EXCEPT ![c] = r] \/ call' = [call EXCEPT ![c] = NoCall]
  BY <1>2 DEF QueryTool, AnswerQuery, RequestPermission
<1> HIDE DEF r
<1>7. CASE call' = [call EXCEPT ![c] = r] BY <1>1, <1>4, <1>7, CallMovesStill
<1>8. CASE call' = [call EXCEPT ![c] = NoCall] BY <1>1, <1>5, <1>8, CallMovesStill
<1> QED BY <1>6, <1>7, <1>8

LEMMA AroundStill ==
  ASSUME GatewayInv,
         \/ \E a \in Agents, x \in Registrations : Register(a, x)
         \/ McpTick
         \/ \E u \in McpUsers : GrantEnds(u)
         \/ UNCHANGED mcpVars
  PROVE  GatewayInv'
<1>1. /\ UNCHANGED <<minutes, hours, permitted, told, misled, call>>
      /\ mcpClock' = mcpClock \/ mcpClock' = mcpClock + 1
      /\ agents' = agents \/ \E a \in Agents, x \in Registrations : agents' = [agents EXCEPT ![a] = x]
  BY DEF Register, McpTick, GrantEnds, mcpVars
<1>2. /\ agents \in [Agents -> Registrations] /\ mcpClock \in Nat
      /\ call \in [McpCalls -> CallRecord \cup {NoCall}]
  BY DEF GatewayInv, GatewayTables
<1>3. agents' \in [Agents -> Registrations] /\ mcpClock' \in Nat /\ mcpClock <= mcpClock' BY <1>1, <1>2
<1> QED BY <1>1, <1>2, <1>3, GatewayStill

LEMMA BucketOfOK ==
  ASSUME GatewayInv, NEW c \in McpCalls, call[c].pc \in {"minute", "hour"}
  PROVE  LET l == call[c].line
             m == BucketOf(minutes, l, call[c].minute, MinuteTicks)
             h == BucketOf(hours, l, call[c].hour, HourTicks)
         IN  /\ call[c] \in CallRecord /\ l \in Lines
             /\ BucketOK(m, MinuteLimits, MinuteTicks, mcpClock)
             /\ BucketOK(h, HourLimits, HourTicks, mcpClock)
             /\ Ledger(m, permitted[l] + Cardinality(Halfway(l))) /\ Ledger(h, permitted[l])
<1> DEFINE l == call[c].line
           m == BucketOf(minutes, l, call[c].minute, MinuteTicks)
           h == BucketOf(hours, l, call[c].hour, HourTicks)
<1>1. /\ call \in [McpCalls -> CallRecord \cup {NoCall}] /\ mcpClock \in Nat \ {0}
      /\ \A k \in DOMAIN minutes : BucketOK(minutes[k], MinuteLimits, MinuteTicks, mcpClock)
      /\ \A k \in DOMAIN hours : BucketOK(hours[k], HourLimits, HourTicks, mcpClock)
  BY DEF GatewayInv, GatewayTables
<1>2. call[c] \in CallRecord BY <1>1 DEF NoCall
<1>3. l \in Lines /\ call[c].minute \in MinuteLimits /\ call[c].hour \in HourLimits BY <1>2 DEF CallRecord
<1>4. LedgerFits(l) BY <1>3 DEF GatewayInv
<1>5. /\ MinuteTicks \in Nat \ {0} /\ HourTicks \in Nat \ {0}
      /\ MinuteLimits \subseteq Nat /\ HourLimits \subseteq Nat
  BY McpGatewayAssumption DEF MinuteLimits, HourLimits
<1> HIDE DEF l
<1>6. BucketOK(m, MinuteLimits, MinuteTicks, mcpClock) /\ Ledger(m, permitted[l] + Cardinality(Halfway(l)))
  <2>1. CASE l \in DOMAIN minutes
    <3>1. m = minutes[l] BY <2>1 DEF BucketOf
    <3> HIDE DEF m
    <3> QED BY <1>1, <1>4, <2>1, <3>1 DEF LedgerFits
  <2>2. CASE l \notin DOMAIN minutes
    <3> DEFINE limit == call[c].minute
    <3>1. m = Bucket(limit, MinuteTicks) BY <2>2 DEF BucketOf
    <3>2. permitted[l] + Cardinality(Halfway(l)) = 0 BY <1>4, <2>2, FS_EmptySet DEF LedgerFits
    <3>3. limit \in MinuteLimits BY <1>3
    <3> HIDE DEF limit, m
    <3>4. /\ BucketOK(Bucket(limit, MinuteTicks), MinuteLimits, MinuteTicks, mcpClock)
          /\ Ledger(Bucket(limit, MinuteTicks), 0)
      BY <1>1, <1>5, <3>3, NewBucketOK
    <3> QED BY <3>1, <3>2, <3>4
  <2> QED BY <2>1, <2>2
<1>7. BucketOK(h, HourLimits, HourTicks, mcpClock) /\ Ledger(h, permitted[l])
  <2>1. CASE l \in DOMAIN hours
    <3>1. h = hours[l] BY <2>1 DEF BucketOf
    <3> HIDE DEF h
    <3> QED BY <1>1, <1>4, <2>1, <3>1 DEF LedgerFits
  <2>2. CASE l \notin DOMAIN hours
    <3> DEFINE limit == call[c].hour
    <3>1. h = Bucket(limit, HourTicks) BY <2>2 DEF BucketOf
    <3>2. permitted[l] = 0 BY <1>4, <2>2 DEF LedgerFits
    <3>3. limit \in HourLimits BY <1>3
    <3> HIDE DEF limit, h
    <3>4. /\ BucketOK(Bucket(limit, HourTicks), HourLimits, HourTicks, mcpClock)
          /\ Ledger(Bucket(limit, HourTicks), 0)
      BY <1>1, <1>5, <3>3, NewBucketOK
    <3> QED BY <3>1, <3>2, <3>4
  <2> QED BY <2>1, <2>2
<1> QED BY <1>2, <1>3, <1>6, <1>7 DEF l

\* The first bucket is charged: the call is halfway if it had a token.
LEMMA ConsumeMinuteFits ==
  ASSUME GatewayInv, NEW c \in McpCalls, ConsumeMinute(c)
  PROVE  GatewayInv'
<1>0. PICK l : l = call[c].line OBVIOUS
<1> DEFINE b == BucketOf(minutes, l, call[c].minute, MinuteTicks)
           ok == Allowed(b)
           w == IF told[l].at # 0 /\ Rivals(c) = {} THEN mcpClock - told[l].at ELSE 0
           r == [call[c] EXCEPT !.pc = "hour", !.allowed = ok, !.wait = RetryAfter(b), !.waited = w]
           n == permitted[l] + Cardinality(Halfway(l))
<1>1. GatewayTables /\ call \in [McpCalls -> CallRecord \cup {NoCall}] /\ mcpClock \in Nat \ {0}
  BY DEF GatewayInv, GatewayTables
<1>2. /\ call[c].pc = "minute" /\ minutes' = PutBucket(minutes, l, Consumed(b))
      /\ UNCHANGED <<agents, hours, mcpClock, permitted, told, misled>>
  BY <1>0 DEF ConsumeMinute
<1>3. call' = [call EXCEPT ![c] = r] BY <1>0, <1>1 DEF ConsumeMinute
<1>4. /\ call[c] \in CallRecord /\ l \in Lines
      /\ BucketOK(b, MinuteLimits, MinuteTicks, mcpClock) /\ Ledger(b, n)
  BY <1>0, <1>2, BucketOfOK
<1>5. /\ permitted[l] \in Nat /\ told[l].at \in Nat /\ IsFiniteSet(Halfway(l)) /\ LedgerFits(l)
      /\ ToldFits(l)
  BY <1>4 DEF GatewayInv, GatewayTables, LedgerFits
<1>6. Cardinality(Halfway(l)) \in Nat /\ n \in Nat BY <1>5, FS_CardinalityType
<1>7. MinuteTicks \in Nat \ {0} /\ HourTicks \in Nat \ {0} BY McpGatewayAssumption
<1>8. w \in Nat BY <1>1, <1>5 DEF ToldFits
<1>9. RetryAfter(b) \in Int
  <2>1. Refilled(b) \in BucketRecord BY <1>1, <1>4, <1>6, <1>7, RefilledOK
  <2>2. b.period \in Nat /\ b.limit \in Nat BY <1>4 DEF BucketOK, BucketRecord
  <2>3. Refilled(b).parts \in Nat BY <2>1 DEF BucketRecord
  <2> HIDE DEF b
  <2>4. b.limit # 0 => (b.period - Refilled(b).parts + b.limit - 1) \div b.limit \in Int BY <2>2, <2>3
  <2> QED BY <1>7, <2>4 DEF RetryAfter
<1>10. ok \in BOOLEAN BY DEF Allowed
<1> HIDE DEF b, w, n
<1>11. /\ r \in CallRecord /\ r.pc = "hour" /\ r.line = l /\ r.allowed = ok /\ r.waited = w
  BY <1>0, <1>4, <1>8, <1>9, <1>10 DEF CallRecord
<1>12. /\ BucketOK(Consumed(b), MinuteLimits, MinuteTicks, mcpClock)
       /\ Consumed(b).at = mcpClock /\ Consumed(b).limit = b.limit
       /\ ok => Ledger(Consumed(b), n + 1)
       /\ ~ok => Ledger(Consumed(b), n)
  BY <1>1, <1>4, <1>6, <1>7, ConsumedOK
<1> HIDE DEF r, ok
<1>13. /\ DOMAIN minutes' = DOMAIN minutes \cup {l} /\ minutes'[l] = Consumed(b)
       /\ \A k \in DOMAIN minutes \ {l} : minutes'[k] = minutes[k]
  <2> DEFINE e == Consumed(b)
  <2>1. minutes' = PutBucket(minutes, l, e) BY <1>2
  <2> HIDE DEF e
  <2>2. /\ DOMAIN minutes' = DOMAIN minutes \cup {l} /\ minutes'[l] = e
        /\ \A k \in DOMAIN minutes \ {l} : minutes'[k] = minutes[k]
    BY <2>1 DEF PutBucket
  <2> QED BY <2>2 DEF e
<1>14. /\ call'[c] = r /\ call' \in [McpCalls -> CallRecord \cup {NoCall}]
       /\ \A d \in McpCalls \ {c} : call'[d] = call[d]
  BY <1>1, <1>3, <1>11
<1>15. GatewayTables'
  <2>1. DOMAIN minutes' \subseteq Lines BY <1>1, <1>4, <1>13 DEF GatewayTables
  <2>2. \A k \in DOMAIN minutes' : BucketOK(minutes'[k], MinuteLimits, MinuteTicks, mcpClock)
    BY <1>1, <1>12, <1>13 DEF GatewayTables
  <2> QED BY <1>1, <1>2, <1>14, <2>1, <2>2 DEF GatewayTables
<1>16. Halfway(l)' = IF ok THEN Halfway(l) \cup {c} ELSE Halfway(l) BY <1>2, <1>11, <1>14 DEF Halfway
<1>17. c \notin Halfway(l) BY <1>2 DEF Halfway
<1>18. LedgerFits(l)'
  <2>1. /\ IsFiniteSet(Halfway(l)')
        /\ Cardinality(Halfway(l)') = IF ok THEN Cardinality(Halfway(l)) + 1 ELSE Cardinality(Halfway(l))
    BY <1>5, <1>16, <1>17, FS_AddElement
  <2>2. permitted[l] + Cardinality(Halfway(l)') = IF ok THEN n + 1 ELSE n BY <1>5, <1>6, <2>1 DEF n
  <2>3. Ledger(minutes'[l], permitted[l] + Cardinality(Halfway(l)')) BY <1>12, <1>13, <2>2
  <2>4. IF l \in DOMAIN hours THEN Ledger(hours[l], permitted[l]) ELSE permitted[l] = 0
    BY <1>5 DEF LedgerFits
  <2>5. l \in DOMAIN minutes' BY <1>13
  <2> QED BY <1>2, <2>1, <2>3, <2>4, <2>5 DEF LedgerFits
<1>19. ToldFits(l)'
  <2>1. call'[c].pc = "hour" /\ call'[c].line = l BY <1>11, <1>14
  <2> QED BY <1>2, <1>5, <1>13, <2>1 DEF ToldFits
<1>20. ASSUME NEW k \in Lines, k # l PROVE LedgerFits(k)' /\ ToldFits(k)'
  <2>1. Halfway(k)' = Halfway(k) BY <1>2, <1>11, <1>14, <1>20 DEF Halfway
  <2>2. LedgerFits(k) /\ ToldFits(k) BY DEF GatewayInv
  <2>3. (k \in DOMAIN minutes' <=> k \in DOMAIN minutes) /\ (k \in DOMAIN minutes => minutes'[k] = minutes[k])
    BY <1>13, <1>20
  <2>4. LedgerFits(k)' BY <1>2, <2>1, <2>2, <2>3 DEF LedgerFits
  <2>5. (\A d \in McpCalls : call'[d].pc = "hour" => call'[d].line # k)
          => (\A d \in McpCalls : call[d].pc = "hour" => call[d].line # k)
    BY <1>2, <1>14
  <2>6. ToldFits(k)' BY <1>2, <2>2, <2>3, <2>5 DEF ToldFits
  <2> QED BY <2>4, <2>6
<1>20a. \A k \in DOMAIN minutes : k \in DOMAIN minutes' /\ minutes'[k].limit = minutes[k].limit
  BY <1>12, <1>13 DEF b, BucketOf
<1>21. ASSUME w > 0, told[l].at # 0
       PROVE  w <= mcpClock - told[l].at /\ (ok \/ w * minutes'[l].limit < MinuteTicks)
  <2>1. w = mcpClock - told[l].at /\ Rivals(c) = {} BY <1>21 DEF w
  <2>2. \A d \in McpCalls : call[d].pc = "hour" => call[d].line # l BY <1>0, <1>2, <2>1 DEF Rivals
  <2>3. l \in DOMAIN minutes /\ minutes[l].at <= told[l].at BY <1>5, <1>21, <2>2 DEF ToldFits
  <2>4. b = minutes[l] BY <2>3 DEF b, BucketOf
  <2>5. b.at \in Nat /\ b.limit \in Nat BY <1>4 DEF BucketOK, BucketRecord
  <2>6. b.at + w <= mcpClock BY <1>1, <1>5, <2>1, <2>3, <2>4, <2>5
  <2>7. ASSUME w * b.limit >= MinuteTicks PROVE ok
    BY <1>1, <1>4, <1>7, <1>8, <2>6, <2>7, WaitRefills DEF ok
  <2> DEFINE p == w * b.limit
  <2>8. p \in Int BY <1>8, <2>5
  <2>9. p < MinuteTicks \/ p >= MinuteTicks
    <3> HIDE DEF p
    <3> QED BY <1>7, <2>8
  <2>10. mcpClock - told[l].at \in Int /\ minutes'[l].limit = b.limit BY <1>1, <1>5, <1>20a, <2>3, <2>4
  <2> QED BY <1>8, <2>1, <2>7, <2>9, <2>10
<1>22. WaitFits(c)' BY <1>2, <1>11, <1>13, <1>14, <1>21 DEF WaitFits
<1>23. ASSUME NEW d \in McpCalls, d # c PROVE WaitFits(d)'
  <2>1. WaitFits(d) /\ call'[d] = call[d] BY <1>14, <1>23 DEF GatewayInv
  <2> QED BY <1>2, <1>20a, <2>1 DEF WaitFits
<1>24. MisledFits'
  <2>1. misled' = misled /\ hours' = hours /\ MisledFits BY <1>2 DEF GatewayInv
  <2> QED BY <1>20a, <2>1 DEF MisledFits, Short
<1> QED BY <1>15, <1>18, <1>19, <1>20, <1>22, <1>23, <1>24 DEF GatewayInv

\* The second bucket is charged: the call goes through or ends.
LEMMA ConsumeHourFits ==
  ASSUME GatewayInv, NEW c \in McpCalls, ConsumeHour(c)
  PROVE  GatewayInv'
<1>0. PICK l : l = call[c].line OBVIOUS
<1> DEFINE b == BucketOf(hours, l, call[c].hour, HourTicks)
           half == call[c].allowed
           w == call[c].waited
           ok == half /\ Allowed(b)
           r == IF ok THEN [call[c] EXCEPT !.pc = "tool"] ELSE NoCall
           news == IF ok \/ Rivals(c) # {} THEN NotTold
                   ELSE [at |-> mcpClock, delay |-> LongerDelay(call[c].wait, RetryAfter(b))]
           n == permitted[l]
<1>1. /\ GatewayTables /\ call \in [McpCalls -> CallRecord \cup {NoCall}]
      /\ mcpClock \in Nat \ {0} /\ permitted \in [Lines -> Nat]
      /\ told \in [Lines -> [at : Nat, delay : Int]]
  BY DEF GatewayInv, GatewayTables
<1>2. /\ call[c].pc = "hour" /\ hours' = PutBucket(hours, l, Consumed(b))
      /\ UNCHANGED <<agents, minutes, mcpClock>>
  BY <1>0 DEF ConsumeHour
<1>3. /\ call' = [call EXCEPT ![c] = r]
      /\ permitted' = [permitted EXCEPT ![l] = @ + (IF ok THEN 1 ELSE 0)]
      /\ told' = [told EXCEPT ![l] = news]
  BY <1>0, <1>1 DEF ConsumeHour, BothAllow
<1>4. misled' = IF ~ok /\ w > 0 /\ told[l].at # 0 /\ Rivals(c) = {}
                THEN misled \union {[line |-> l, waited |-> w, delay |-> told[l].delay]}
                ELSE misled
  BY <1>0 DEF ConsumeHour, BothAllow
<1>5. /\ call[c] \in CallRecord /\ l \in Lines
      /\ BucketOK(b, HourLimits, HourTicks, mcpClock) /\ Ledger(b, n)
  BY <1>0, <1>2, BucketOfOK
<1>6. /\ n \in Nat /\ told[l].at \in Nat /\ IsFiniteSet(Halfway(l)) /\ LedgerFits(l)
      /\ ToldFits(l) /\ WaitFits(c) /\ w \in Nat /\ half \in BOOLEAN /\ call[c].wait \in Int
  BY <1>1, <1>5 DEF GatewayInv, LedgerFits, CallRecord
<1>7. Cardinality(Halfway(l)) \in Nat BY <1>6, FS_CardinalityType
<1>8. MinuteTicks \in Nat \ {0} /\ HourTicks \in Nat \ {0} BY McpGatewayAssumption
<1>9. RetryAfter(b) \in Int
  <2>1. Refilled(b) \in BucketRecord BY <1>1, <1>5, <1>6, <1>8, RefilledOK
  <2>2. b.period \in Nat /\ b.limit \in Nat BY <1>5 DEF BucketOK, BucketRecord
  <2>3. Refilled(b).parts \in Nat BY <2>1 DEF BucketRecord
  <2> HIDE DEF b
  <2>4. b.limit # 0 => (b.period - Refilled(b).parts + b.limit - 1) \div b.limit \in Int BY <2>2, <2>3
  <2> QED BY <1>8, <2>4 DEF RetryAfter
<1>10. ok \in BOOLEAN BY <1>6 DEF Allowed
<1>11. news \in [at : Nat, delay : Int]
  <2>1. LongerDelay(call[c].wait, RetryAfter(b)) \in Int BY <1>6, <1>9 DEF LongerDelay
  <2> QED BY <1>1, <2>1 DEF NotTold
<1>12. /\ BucketOK(Consumed(b), HourLimits, HourTicks, mcpClock)
       /\ Consumed(b).at = mcpClock /\ Consumed(b).limit = b.limit
       /\ Allowed(b) => Ledger(Consumed(b), n + 1)
       /\ ~Allowed(b) => Ledger(Consumed(b), n)
  BY <1>1, <1>5, <1>6, <1>8, ConsumedOK
<1>13. /\ DOMAIN hours' = DOMAIN hours \cup {l} /\ hours'[l] = Consumed(b)
       /\ \A k \in DOMAIN hours \ {l} : hours'[k] = hours[k]
  <2> DEFINE e == Consumed(b)
  <2>1. hours' = PutBucket(hours, l, e) BY <1>2
  <2> HIDE DEF e
  <2>2. /\ DOMAIN hours' = DOMAIN hours \cup {l} /\ hours'[l] = e
        /\ \A k \in DOMAIN hours \ {l} : hours'[k] = hours[k]
    BY <2>1 DEF PutBucket
  <2> QED BY <2>2 DEF e
<1>14. l \in DOMAIN hours => b = hours[l] /\ hours'[l].limit = hours[l].limit BY <1>12, <1>13 DEF BucketOf
<1>15. r \in CallRecord \cup {NoCall} /\ r.pc # "hour"
  <2>1. [call[c] EXCEPT !.pc = "tool"] \in CallRecord BY <1>5 DEF CallRecord
  <2>2. [call[c] EXCEPT !.pc = "tool"].pc = "tool" /\ NoCall.pc = "idle" BY <1>5 DEF CallRecord, NoCall
  <2> QED BY <2>1, <2>2
<1>16. ok => half OBVIOUS
<1>17. ok => Allowed(b) OBVIOUS
<1>18. /\ news.at # 0 => ~ok /\ Rivals(c) = {} /\ news.at = mcpClock BY DEF NotTold
<1>19. (half /\ Allowed(b)) => ok OBVIOUS
<1>20. half = call[c].allowed /\ w = call[c].waited OBVIOUS
<1> HIDE DEF b, half, w, ok, r, news, n
<1>21. /\ call'[c] = r /\ call' \in [McpCalls -> CallRecord \cup {NoCall}]
       /\ \A d \in McpCalls \ {c} : call'[d] = call[d]
  BY <1>1, <1>3, <1>15
<1>22. /\ permitted' \in [Lines -> Nat] /\ permitted'[l] = n + (IF ok THEN 1 ELSE 0)
       /\ \A k \in Lines \ {l} : permitted'[k] = permitted[k]
  BY <1>1, <1>3, <1>5 DEF n
<1>23. /\ told' \in [Lines -> [at : Nat, delay : Int]] /\ told'[l] = news
       /\ \A k \in Lines \ {l} : told'[k] = told[k]
  BY <1>1, <1>3, <1>5, <1>11
<1>24. GatewayTables'
  <2>1. DOMAIN hours' \subseteq Lines BY <1>1, <1>5, <1>13 DEF GatewayTables
  <2>2. \A k \in DOMAIN hours' : BucketOK(hours'[k], HourLimits, HourTicks, mcpClock)
    BY <1>1, <1>12, <1>13 DEF GatewayTables
  <2> QED BY <1>1, <1>2, <1>21, <1>22, <1>23, <2>1, <2>2 DEF GatewayTables
<1>25. Halfway(l)' = Halfway(l) \ {c} /\ (c \in Halfway(l) <=> half)
  BY <1>0, <1>2, <1>15, <1>20, <1>21 DEF Halfway
<1>26. LedgerFits(l)'
  <2> DEFINE m == Cardinality(Halfway(l))
             left == Cardinality(Halfway(l) \ {c})
  <2>1. IsFiniteSet(Halfway(l) \ {c}) /\ left = IF half THEN m - 1 ELSE m BY <1>6, <1>25, FS_RemoveElement
  <2>2. left \in Nat /\ m \in Nat BY <1>7, <2>1, FS_CardinalityType
  <2> HIDE DEF m, left
  <2>3. permitted'[l] + left <= n + m /\ permitted'[l] + left \in Nat BY <1>6, <1>16, <1>22, <2>1, <2>2
  <2>4. ASSUME l \in DOMAIN minutes PROVE Ledger(minutes[l], permitted'[l] + left)
    <3>1. Ledger(minutes[l], n + m) BY <1>6, <2>4 DEF LedgerFits, m, n
    <3>2. minutes[l] \in BucketRecord BY <1>1, <2>4 DEF GatewayTables, BucketOK
    <3>3. n + m \in Nat BY <1>6, <2>2
    <3> DEFINE k == permitted'[l] + left
               all == n + m
               first == minutes[l]
    <3>4. k \in Nat /\ k <= all /\ all \in Nat /\ first \in BucketRecord /\ Ledger(first, all)
      BY <2>3, <3>1, <3>2, <3>3
    <3> HIDE DEF k, all, first
    <3>5. Ledger(first, k) BY <3>4, LedgerLess
    <3> QED BY <3>5 DEF k, first
  <2>5. ASSUME l \notin DOMAIN minutes PROVE permitted'[l] = 0 /\ Halfway(l) \ {c} = {}
    <3>1. n = 0 /\ Halfway(l) = {} BY <1>6, <2>5 DEF LedgerFits, n
    <3>2. ~ok BY <1>16, <1>25, <3>1
    <3> QED BY <1>22, <3>1, <3>2
  <2>6. Ledger(hours'[l], permitted'[l])
    <3>1. CASE Allowed(b)
      <4>1. permitted'[l] <= n + 1 /\ permitted'[l] \in Nat /\ n + 1 \in Nat BY <1>6, <1>22
      <4>2. Consumed(b) \in BucketRecord /\ Ledger(Consumed(b), n + 1) BY <1>12, <3>1 DEF BucketOK
      <4> DEFINE e == Consumed(b)
                 k == permitted'[l]
      <4>3. k <= n + 1 /\ k \in Nat /\ n + 1 \in Nat /\ e \in BucketRecord /\ Ledger(e, n + 1)
        BY <4>1, <4>2
      <4> HIDE DEF e, k
      <4>4. Ledger(e, k) BY <4>3, LedgerLess
      <4> QED BY <1>13, <4>4 DEF e, k
    <3>2. CASE ~Allowed(b) BY <1>6, <1>12, <1>13, <1>17, <1>22, <3>2
    <3> QED BY <3>1, <3>2
  <2>7. IF l \in DOMAIN minutes THEN Ledger(minutes[l], permitted'[l] + left)
        ELSE permitted'[l] = 0 /\ Halfway(l) \ {c} = {}
    BY <1>22, <2>4, <2>5
  <2> QED BY <1>2, <1>13, <1>25, <2>1, <2>6, <2>7 DEF LedgerFits, left
<1>27. ToldFits(l)'
  <2>1. l \in DOMAIN minutes /\ minutes[l].at <= mcpClock
    BY <1>0, <1>1, <1>2, <1>6 DEF WaitFits, GatewayTables, BucketOK
  <2>2. ASSUME news.at # 0 PROVE hours'[l].at <= news.at /\ news.at <= mcpClock /\ news.at = mcpClock
    BY <1>1, <1>12, <1>13, <1>18, <2>2
  <2>3. l \in DOMAIN hours' BY <1>13
  <2> QED BY <1>2, <1>23, <2>1, <2>2, <2>3 DEF ToldFits
<1>28. ASSUME NEW k \in Lines, k # l PROVE LedgerFits(k)' /\ ToldFits(k)'
  <2>1. Halfway(k)' = Halfway(k) BY <1>0, <1>15, <1>21, <1>28 DEF Halfway
  <2>2. LedgerFits(k) /\ ToldFits(k) BY DEF GatewayInv
  <2>3. (k \in DOMAIN hours' <=> k \in DOMAIN hours) /\ (k \in DOMAIN hours => hours'[k] = hours[k])
    BY <1>13, <1>28
  <2>4. permitted'[k] = permitted[k] /\ told'[k] = told[k] BY <1>22, <1>23, <1>28
  <2>5. LedgerFits(k)' BY <1>2, <2>1, <2>2, <2>3, <2>4 DEF LedgerFits
  <2>6. (\A d \in McpCalls : call'[d].pc = "hour" => call'[d].line # k)
          => (\A d \in McpCalls : call[d].pc = "hour" => call[d].line # k)
    BY <1>0, <1>21, <1>28
  <2>7. ToldFits(k)' BY <1>2, <2>2, <2>3, <2>4, <2>6 DEF ToldFits
  <2> QED BY <2>5, <2>7
<1>29. ASSUME NEW d \in McpCalls PROVE WaitFits(d)'
  <2>1. CASE d = c BY <1>15, <1>21, <2>1 DEF WaitFits
  <2>2. CASE d # c /\ call[d].pc = "hour" /\ call[d].line = l
    <3>1. Rivals(c) # {} BY <1>0, <2>2 DEF Rivals
    <3>2. told'[l].at = 0 BY <1>18, <1>23, <3>1
    <3>3. call'[d] = call[d] /\ WaitFits(d) BY <1>21, <2>2 DEF GatewayInv
    <3> QED BY <1>2, <2>2, <3>2, <3>3 DEF WaitFits
  <2>3. CASE d # c /\ call[d].pc = "hour" /\ call[d].line # l
    <3> DEFINE k == call[d].line
    <3>1. call'[d] = call[d] /\ WaitFits(d) /\ call[d] \in CallRecord
      BY <1>1, <1>21, <2>3 DEF GatewayInv, NoCall
    <3>2. k \in Lines /\ k # l BY <2>3, <3>1 DEF CallRecord
    <3>3. told'[k] = told[k] /\ (k \in DOMAIN hours => hours'[k] = hours[k]) BY <1>13, <1>23, <3>2
    <3>4. told[k].at # 0 => k \in DOMAIN hours BY <3>2 DEF GatewayInv, ToldFits
    <3> QED BY <1>2, <2>3, <3>1, <3>3, <3>4 DEF WaitFits
  <2>4. CASE d # c /\ call[d].pc # "hour"
    <3>1. call'[d] = call[d] BY <1>21, <2>4
    <3> QED BY <2>4, <3>1 DEF WaitFits
  <2> QED BY <2>1, <2>2, <2>3, <2>4
<1>30. ASSUME ~ok, w > 0, told[l].at # 0
       PROVE  /\ l \in DOMAIN minutes /\ l \in DOMAIN hours
              /\ w * minutes[l].limit < MinuteTicks \/ w * hours[l].limit < HourTicks
  <2>1. /\ w <= mcpClock - told[l].at /\ l \in DOMAIN minutes
        /\ half \/ w * minutes[l].limit < MinuteTicks
    BY <1>0, <1>2, <1>6, <1>20, <1>30 DEF WaitFits
  <2>2. l \in DOMAIN hours /\ hours[l].at <= told[l].at BY <1>6, <1>30 DEF ToldFits
  <2>3. b = hours[l] BY <1>14, <2>2
  <2>4. b.at \in Nat /\ b.limit \in Nat BY <1>5 DEF BucketOK, BucketRecord
  <2>5. b.at + w <= mcpClock /\ w \in Nat BY <1>1, <1>6, <1>20, <2>1, <2>2, <2>3, <2>4
  <2>6. ASSUME half, w * b.limit >= HourTicks PROVE FALSE
    <3>1. Allowed(b) BY <1>1, <1>5, <1>8, <2>5, <2>6, WaitRefills
    <3> QED BY <1>19, <1>30, <2>6, <3>1
  <2> DEFINE p == w * b.limit
  <2>7. p \in Int BY <2>4, <2>5
  <2>8. p < HourTicks \/ p >= HourTicks
    <3> HIDE DEF p
    <3> QED BY <1>8, <2>7
  <2> QED BY <2>1, <2>2, <2>3, <2>6, <2>8
<1>31. ASSUME NEW k \in DOMAIN hours PROVE k \in DOMAIN hours' /\ hours'[k].limit = hours[k].limit
  BY <1>13, <1>14
<1>32. MisledFits'
  <2>1. MisledFits BY DEF GatewayInv
  <2> DEFINE new == [line |-> l, waited |-> w, delay |-> told[l].delay]
  <2>2. new.line = l /\ new.waited = w OBVIOUS
  <2> HIDE DEF new
  <2>3. ASSUME NEW x \in misled' PROVE Short(x)
    <3>1. x \in misled \/ (x = new /\ ~ok /\ w > 0 /\ told[l].at # 0) BY <1>4, <2>3 DEF new
    <3> QED BY <1>30, <2>1, <2>2, <3>1 DEF MisledFits, Short
  <2>4. ASSUME NEW x \in misled' PROVE Short(x)' BY <1>2, <1>31, <2>3, <2>4 DEF Short
  <2> QED BY <2>4 DEF MisledFits
<1> QED BY <1>24, <1>26, <1>27, <1>28, <1>29, <1>32 DEF GatewayInv

LEMMA GatewayBegins == McpInit => GatewayInv
<1> SUFFICES ASSUME McpInit PROVE GatewayInv OBVIOUS
<1>1. /\ agents \in [Agents -> Registrations] /\ mcpClock = 1
      /\ call = [c \in McpCalls |-> NoCall] /\ NoCall.pc = "idle"
      /\ permitted = [l \in Lines |-> 0] /\ told = [l \in Lines |-> NotTold] /\ misled = {}
  BY DEF McpInit, NoCall
<1>2. DOMAIN minutes = {} /\ DOMAIN hours = {} BY DEF McpInit
<1>3. NotTold \in [at : Nat, delay : Int] /\ NotTold.at = 0 BY DEF NotTold
<1>4. GatewayTables BY <1>1, <1>2, <1>3 DEF GatewayTables
<1>5. \A c \in McpCalls : WaitFits(c) BY <1>1 DEF WaitFits
<1>6. ASSUME NEW l \in Lines PROVE LedgerFits(l) /\ ToldFits(l)
  <2>1. Halfway(l) = {} BY <1>1 DEF Halfway
  <2>2. LedgerFits(l) BY <1>1, <1>2, <2>1, FS_EmptySet DEF LedgerFits
  <2>3. ToldFits(l) BY <1>1, <1>3 DEF ToldFits
  <2> QED BY <2>2, <2>3
<1>7. MisledFits BY <1>1 DEF MisledFits
<1> QED BY <1>4, <1>5, <1>6, <1>7 DEF GatewayInv

LEMMA GatewayStep == GatewayInv /\ [McpNext]_mcpVars => GatewayInv'
<1> SUFFICES ASSUME GatewayInv, [McpNext]_mcpVars PROVE GatewayInv' OBVIOUS
<1>1. ASSUME NEW c \in McpCalls, NEW a \in Agents, NEW u \in McpUsers, NEW x \in Registrations,
             NEW tool \in McpTools, Authenticate(c, a, u, x.key, tool)
      PROVE  GatewayInv'
  <2> DEFINE key == x.key
  <2>1. Authenticate(c, a, u, key, tool) BY <1>1
  <2> HIDE DEF key
  <2> QED BY <2>1, AuthenticateStill
<1>2. ASSUME NEW c \in McpCalls, ConsumeMinute(c) PROVE GatewayInv' BY <1>2, ConsumeMinuteFits
<1>3. ASSUME NEW c \in McpCalls, ConsumeHour(c) PROVE GatewayInv' BY <1>3, ConsumeHourFits
<1>4. ASSUME NEW c \in McpCalls, QueryTool(c) \/ AnswerQuery(c) \/ RequestPermission(c)
      PROVE  GatewayInv'
  BY <1>4, ToolStill
<1>5. CASE \/ \E a \in Agents, x \in Registrations : Register(a, x)
           \/ McpTick
           \/ \E u \in McpUsers : GrantEnds(u)
           \/ UNCHANGED mcpVars
  BY <1>5, AroundStill
<1> QED BY <1>1, <1>2, <1>3, <1>4, <1>5 DEF McpNext

\* What the books say of the calls that went through.
LEMMA RateFollows == GatewayInv => RateHolds
<1> SUFFICES ASSUME GatewayInv PROVE RateHolds OBVIOUS
<1>1. /\ GatewayTables /\ mcpClock \in Nat \ {0} /\ permitted \in [Lines -> Nat]
      /\ DOMAIN minutes \subseteq Lines /\ DOMAIN hours \subseteq Lines
      /\ \A l \in DOMAIN minutes : BucketOK(minutes[l], MinuteLimits, MinuteTicks, mcpClock)
      /\ \A l \in DOMAIN hours : BucketOK(hours[l], HourLimits, HourTicks, mcpClock)
  BY DEF GatewayInv, GatewayTables
<1>2. McpTypeOK
  <2>1. ASSUME NEW b, NEW limits, NEW period, BucketOK(b, limits, period, mcpClock)
        PROVE  b.parts \in 0 .. b.limit * b.period
    <3>1. b.limit * b.period \in Nat /\ b.parts \in Nat BY <2>1 DEF BucketOK, BucketRecord
    <3> QED BY <2>1, <3>1 DEF BucketOK
  <2>2. \A b \in {minutes[a] : a \in DOMAIN minutes} \union {hours[a] : a \in DOMAIN hours} :
          b.parts \in 0 .. b.limit * b.period
    BY <1>1, <2>1
  <2>3. \A c \in McpCalls : call[c].pc \in {"idle", "minute", "hour", "tool", "query"}
    BY <1>1 DEF GatewayTables, CallRecord, NoCall
  <2>4. \A l \in Lines : told[l].at \in 0..mcpClock BY <1>1 DEF GatewayInv, GatewayTables, ToldFits
  <2> QED BY <1>1, <2>2, <2>3, <2>4 DEF McpTypeOK
<1>3. ASSUME NEW b, NEW limits, NEW period, BucketOK(b, limits, period, mcpClock),
             NEW n \in Nat, Ledger(b, n)
      PROVE  n * b.period <= b.limit * (b.period + mcpClock - b.born)
  <2> DEFINE x == b.limit
             old == b.period + b.at - b.born
             now == b.period + mcpClock - b.born
             spent == n * b.period
  <2>1. /\ b.at \in Nat /\ b.born \in Nat /\ b.period \in Nat /\ x \in Nat /\ b.parts \in Nat
        /\ b.at <= mcpClock
    BY <1>3 DEF BucketOK, BucketRecord
  <2>2. old \in Int /\ now \in Int /\ old <= now /\ spent \in Int BY <1>1, <2>1
  <2>3. spent + b.parts <= x * old BY <1>3 DEF Ledger
  <2> HIDE DEF x, old, now, spent
  <2>4. x * old <= x * now /\ x * old \in Int /\ x * now \in Int BY <2>1, <2>2
  <2>5. spent <= x * now BY <2>1, <2>2, <2>3, <2>4
  <2> QED BY <2>5 DEF x, now, spent
<1>4. ASSUME NEW l \in Lines, permitted[l] > 0
      PROVE  /\ l \in DOMAIN minutes /\ l \in DOMAIN hours
             /\ \A b \in {minutes[l], hours[l]} :
                  permitted[l] * b.period <= b.limit * (b.period + mcpClock - b.born)
  <2> DEFINE n == permitted[l]
  <2>1. LedgerFits(l) /\ n \in Nat /\ n > 0 BY <1>1, <1>4 DEF GatewayInv
  <2>2. l \in DOMAIN minutes /\ l \in DOMAIN hours /\ Cardinality(Halfway(l)) \in Nat
    BY <2>1, FS_CardinalityType DEF LedgerFits
  <2>3. Ledger(minutes[l], n)
    <3>1. minutes[l] \in BucketRecord /\ Ledger(minutes[l], n + Cardinality(Halfway(l)))
      BY <1>1, <2>1, <2>2 DEF LedgerFits, BucketOK
    <3> DEFINE b == minutes[l]
               m == n + Cardinality(Halfway(l))
    <3>2. b \in BucketRecord /\ m \in Nat /\ n <= m /\ Ledger(b, m) BY <2>1, <2>2, <3>1
    <3> HIDE DEF b, m, n
    <3>3. Ledger(b, n) BY <2>1, <3>2, LedgerLess
    <3> QED BY <3>3 DEF b
  <2>4. Ledger(hours[l], n) BY <2>1, <2>2 DEF LedgerFits
  <2> HIDE DEF n
  <2>5. ASSUME NEW b \in {minutes[l], hours[l]}
        PROVE  n * b.period <= b.limit * (b.period + mcpClock - b.born)
    BY <1>1, <1>3, <2>1, <2>2, <2>3, <2>4, <2>5
  <2> QED BY <2>2, <2>5 DEF n
<1>5. WithinRate BY <1>4 DEF WithinRate
<1>6. TokenTimeSuffices BY DEF GatewayInv, MisledFits, Short, TokenTimeSuffices
<1> QED BY <1>2, <1>5, <1>6 DEF RateHolds

\* However calls interleave between the two locks of the limiter, and whatever
\* is registered meanwhile, no bucket has spent more than it was given, the
\* calls halfway included, and since a refusal nobody but the call that waited
\* has charged its line (InMemoryRateLimiter::check, consume_bucket).
THEOREM GatewayInvHolds == McpSpec => []GatewayInv
<1>1. McpInit => GatewayInv BY GatewayBegins
<1>2. GatewayInv /\ [McpNext]_mcpVars => GatewayInv' BY GatewayStep
<1> QED BY <1>1, <1>2, PTL DEF McpSpec

\* RateHolds for all agents, limits, periods and numbers of calls: an agent is
\* never served more calls of a tool than one full bucket and what has been
\* refilled since, and one that is refused and leaves its line alone for as
\* long as the slower of its two buckets takes to refill a token is served,
\* whatever the two limits are (TokenBucket::consume).
THEOREM RateHoldsAlways == McpSpec => []RateHolds
<1>1. GatewayInv => RateHolds BY RateFollows
<1> QED BY <1>1, GatewayInvHolds, PTL
=============================================================================
