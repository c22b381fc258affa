------------------------------ MODULE Sessions ------------------------------
(***************************************************************************)
(* Login, multi-factor verification, refresh-token rotation, step-up and   *)
(* revocation of the API's sessions (apps/sdqp-api/src/lib.rs with         *)
(* crates/sdqp-system-security/src/auth) and the rows of the table         *)
(* sessions a restarted API reads back.                                    *)
(*                                                                         *)
(* A handler changes the registry under a lock, clones the session, leaves *)
(* the lock and upserts the clone: the clone is in `saves` until the       *)
(* statement ends, and statements of two handlers end in any order.  A     *)
(* request that is refused (a wrong or late proof of the second factor, a  *)
(* wrong password) changes nothing and is not a step.  A user stands for   *)
(* the user name, the user id and the external id of one account.          *)
(***************************************************************************)
EXTENDS Integers, FiniteSets

CONSTANTS
  Users,
  Owner,          \* the user who logs in, for every login
  SsoLogins,      \* the logins that arrive through the SSO callback
  Verifies,       \* mfa/verify requests; a session is named by its request
  Refreshes,      \* concurrent refresh requests
  Signals,        \* device posture requests: the rules they trigger
  MaxLogins,      \* bound: logins
  MaxTokens,      \* bound: refresh tokens issued
  MaxRestarts,    \* bound: restarts of the API
  MaxSaves,       \* bound: clones on their way at a time
  MaxSaveFaults   \* bound: failed statements

Logins == DOMAIN Owner

Rule == {"query_burst", "denied_burst", "export_burst", "ip_drift",
         "impossible_travel", "exfiltration_hint", "device_posture"}

ASSUME SessionsAssumption ==
  /\ Logins # {} /\ \A l \in Logins : Owner[l] \in Users
  /\ SsoLogins \subseteq Logins
  /\ Signals \subseteq SUBSET Rule
  /\ MaxLogins \in Nat /\ MaxTokens \in Nat /\ MaxRestarts \in Nat
  /\ MaxSaves \in Nat /\ MaxSaveFaults \in Nat

VARIABLES
  users,      \* the user directory in memory
  userRow,    \* the table users
  login,      \* the stage of a login
  pending,    \* SessionRegistry.pending
  pendingRow, \* the rows of kind pending
  verify,     \* the mfa/verify requests being served
  active,     \* SessionRegistry.active
  row,        \* the rows of kind active
  refresh,    \* refresh requests between their two critical sections
  saves,      \* clones on their way to the table
  tokens,     \* refresh tokens issued so far
  exchanged,  \* history: how often a token was exchanged for a new one
  restarts,
  saveFaults

sessionVars == <<login, pending, pendingRow, verify, active, row,
                 refresh, saves, tokens, exchanged>>
userVars == <<users, userRow>>
boundVars == <<restarts, saveFaults>>

Account == [active : BOOLEAN, source : {"LocalPassword", "Sso", "Scim"}]
Absent == [source |-> "absent"]
NoSession == [token |-> 0]

Session ==
  [login     : Logins,
   token     : 1..MaxTokens,      \* refresh_token
   previous  : 0..MaxTokens,      \* previous_refresh_token_fingerprint
   revoked   : BOOLEAN,
   stepUp    : BOOLEAN,           \* step_up_required
   challenge : BOOLEAN]           \* step_up_challenge is there

SessionsTypeOK ==
  /\ users \in [Users -> Account \cup {Absent}]
  /\ userRow \in [Users -> Account \cup {Absent}]
  /\ login \in [Logins -> {"new", "saving", "answered", "failed"}]
  /\ pending \subseteq Logins /\ pendingRow \subseteq Logins
  /\ verify \in [Verifies -> [pc : {"idle", "checked", "removed", "done"},
                              login : Logins]]
  /\ active \in [Verifies -> Session \cup {NoSession}]
  /\ row \in [Verifies -> Session \cup {NoSession}]
  /\ refresh \in [Refreshes -> 0..MaxTokens]
  /\ saves \subseteq Verifies \X Session
  /\ tokens \in 0..MaxTokens
  /\ exchanged \in [1..MaxTokens -> Nat]

SessionsInit ==
  /\ login = [l \in Logins |-> "new"]
  /\ pending = {} /\ pendingRow = {}
  /\ verify = [v \in Verifies |->
                 [pc |-> "idle", login |-> CHOOSE l \in Logins : TRUE]]
  /\ active = [v \in Verifies |-> NoSession]
  /\ row = [v \in Verifies |-> NoSession]
  /\ refresh = [f \in Refreshes |-> 0]
  /\ saves = {}
  /\ tokens = 0
  /\ exchanged = [t \in 1..MaxTokens |-> 0]

SaveFails ==
  /\ saveFaults < MaxSaveFaults
  /\ saveFaults' = saveFaults + 1

----
(* Login. *)

Known(u) == users[u] # Absent

\* The refusals of login_handler: unknown, disabled, not a local account.
MayLogin(u) ==
  /\ Known(u)
  /\ users[u].active
  /\ users[u].source = "LocalPassword"

StartPending(l) ==
  /\ Cardinality({k \in Logins : login[k] # "new"}) < MaxLogins
  /\ login' = [login EXCEPT ![l] = "saving"]
  /\ pending' = pending \cup {l}
  /\ UNCHANGED <<pendingRow, verify, active, row, refresh, saves,
                 tokens, exchanged>>

LoginHandler(l) ==
  /\ l \notin SsoLogins /\ login[l] = "new"
  /\ MayLogin(Owner[l])
  /\ StartPending(l)
  /\ UNCHANGED <<userVars, boundVars>>

\* An account the identity provider vouches for is created when it is
\* missing; its row is saved before the login goes on.
SsoCallback(l) ==
  /\ l \in SsoLogins /\ login[l] = "new"
  /\ ~Known(Owner[l])
  /\ users' = [users EXCEPT ![Owner[l]] = [active |-> TRUE, source |-> "Sso"]]
  /\ \/ /\ userRow' = [userRow EXCEPT ![Owner[l]] = users'[Owner[l]]]
        /\ UNCHANGED saveFaults
     \/ SaveFails /\ UNCHANGED userRow
  /\ UNCHANGED <<sessionVars, restarts>>

SsoPending(l) ==
  /\ l \in SsoLogins /\ login[l] = "new"
  /\ Known(Owner[l]) /\ users[Owner[l]].active
  /\ StartPending(l)
  /\ UNCHANGED <<userVars, boundVars>>

\* The client learns the id of a pending session only when it was saved; the
\* entry in memory stays either way.
SavePendingSession(l) ==
  /\ login[l] = "saving"
  /\ \/ /\ pendingRow' = pendingRow \cup {l}
        /\ login' = [login EXCEPT ![l] = "answered"]
        /\ UNCHANGED saveFaults
     \/ /\ SaveFails
        /\ login' = [login EXCEPT ![l] = "failed"]
        /\ UNCHANGED pendingRow
  /\ UNCHANGED <<pending, verify, active, row, refresh, saves, tokens,
                 exchanged, userVars, restarts>>

----
(* The second factor turns a pending session into an active one. *)

\* The proof is verified against a clone of the pending session.
VerifyChallenge(v, l) ==
  /\ verify[v].pc = "idle"
  /\ login[l] = "answered"
  /\ l \in pending
  /\ verify' = [verify EXCEPT ![v] = [pc |-> "checked", login |-> l]]
  /\ UNCHANGED <<login, pending, pendingRow, active, row, refresh,
                 saves, tokens, exchanged, userVars, boundVars>>

\* Whoever removes the pending session goes on; another request gets 404.
RemovePending(v) ==
  /\ verify[v].pc = "checked"
  /\ verify' = [verify EXCEPT ![v].pc =
                  IF verify[v].login \in pending THEN "removed" ELSE "done"]
  /\ pending' = pending \ {verify[v].login}
  /\ UNCHANGED <<login, pendingRow, active, row, refresh, saves,
                 tokens, exchanged, userVars, boundVars>>

NewSession(l, t) ==
  [login |-> l, token |-> t, previous |-> 0, revoked |-> FALSE,
   stepUp |-> FALSE, challenge |-> FALSE]

\* The row goes first; then the session is active, and saved.
ActivateSession(v) ==
  /\ verify[v].pc = "removed"
  /\ verify' = [verify EXCEPT ![v].pc = "done"]
  /\ \/ /\ tokens < MaxTokens /\ Cardinality(saves) < MaxSaves
        /\ tokens' = tokens + 1
        /\ pendingRow' = pendingRow \ {verify[v].login}
        /\ active' = [active EXCEPT ![v] = NewSession(verify[v].login, tokens')]
        /\ saves' = saves \cup {<<v, active'[v]>>}
        /\ UNCHANGED saveFaults
     \/ SaveFails /\ UNCHANGED <<tokens, pendingRow, active, saves>>
  /\ UNCHANGED <<login, pending, row, refresh, exchanged, userVars,
                 restarts>>

----
(* Continuous assessment. *)

Points(rule) ==
  CASE rule = "query_burst"       -> 28
    [] rule = "denied_burst"      -> 24
    [] rule = "export_burst"      -> 36
    [] rule = "ip_drift"          -> 18
    [] rule = "impossible_travel" -> 32
    [] rule = "exfiltration_hint" -> 30
    [] rule = "device_posture"    -> 35

\* Travel outweighs drift: the two are one dimension.
Counted(signal) ==
  IF "impossible_travel" \in signal THEN signal \ {"ip_drift"} ELSE signal

SumOf(signal) ==
  LET part(r) == IF r \in Counted(signal) THEN Points(r) ELSE 0
  IN  part("query_burst") + part("denied_burst") + part("export_burst")
      + part("ip_drift") + part("impossible_travel")
      + part("exfiltration_hint") + part("device_posture")

Score(signal) == IF SumOf(signal) > 100 THEN 100 ELSE SumOf(signal)

ForScore(score) ==
  IF score < 30 THEN "Allow"
  ELSE IF score < 70 THEN "StepUpAuth" ELSE "TerminateSession"

\* The assessment of a session; a step-up needs the account, for its challenge.
Assess(s, signal) ==
  LET action == ForScore(Score(signal))
  IN  CASE action = "Allow" ->
             [s EXCEPT !.stepUp = FALSE, !.challenge = FALSE]
        [] action = "StepUpAuth" /\ Known(Owner[s.login]) ->
             [s EXCEPT !.stepUp = TRUE, !.challenge = TRUE]
        [] action = "StepUpAuth" /\ ~Known(Owner[s.login]) -> s
        [] action = "TerminateSession" ->
             [s EXCEPT !.revoked = TRUE, !.stepUp = FALSE,
                            !.challenge = FALSE]

\* Mutant: a token that was rotated away is still found.
Found_Previous(t) == {v \in Verifies : active[v] # NoSession /\ ~active[v].revoked
                                       /\ t \in {active[v].token,
                                                active[v].previous}}

\* Sessions a refresh token of a request finds.
Found(t) == {v \in Verifies : active[v] # NoSession /\ active[v].token = t
                              /\ ~active[v].revoked}

\* Set a session and hand its clone to the table.
Put(v, s) ==
  /\ Cardinality(saves) < MaxSaves
  /\ active' = [active EXCEPT ![v] = s]
  /\ saves' = saves \cup {<<v, s>>}

DevicePosture(v, signal) ==
  /\ v \in Found(active[v].token)
  /\ LET s == Assess(active[v], signal)
     IN  \* without an account the handler answers before it saves
         IF ForScore(Score(signal)) = "StepUpAuth"
              /\ ~Known(Owner[active[v].login])
         THEN active' = [active EXCEPT ![v] = s] /\ UNCHANGED saves
         ELSE Put(v, s)
  /\ UNCHANGED <<login, pending, pendingRow, verify, row, refresh,
                 tokens, exchanged, userVars, boundVars>>

Rotated(s, t) == [s EXCEPT !.token = t, !.previous = s.token]

Exchange(t) == exchanged' = [exchanged EXCEPT ![t] = @ + 1]

StepUpVerify(v) ==
  /\ v \in Found(active[v].token)
  /\ active[v].stepUp
  /\ active[v].challenge
  /\ Known(Owner[active[v].login])
  /\ tokens < MaxTokens
  /\ tokens' = tokens + 1
  /\ Put(v, [Rotated(active[v], tokens') EXCEPT
               !.stepUp = FALSE, !.challenge = FALSE])
  /\ Exchange(active[v].token)
  /\ UNCHANGED <<login, pending, pendingRow, verify, row, refresh,
                 userVars, boundVars>>

----
(* Refresh and logout. *)

\* A token that was rotated away revokes its session.
Replayed(t) == {v \in Verifies : active[v] # NoSession /\ active[v].previous = t
                                 /\ ~active[v].revoked}

DetectReplay(f, t) ==
  /\ refresh[f] = 0
  /\ IF Replayed(t) = {}
     THEN refresh' = [refresh EXCEPT ![f] = t] /\ UNCHANGED <<active, saves>>
     ELSE /\ \E v \in Replayed(t) : Put(v, [active[v] EXCEPT !.revoked = TRUE])
          /\ UNCHANGED refresh
  /\ UNCHANGED <<login, pending, pendingRow, verify, row, tokens,
                 exchanged, userVars, boundVars>>

\* The second critical section finds the token again, or does not.
RotateRefreshToken(f) ==
  /\ refresh[f] # 0
  /\ refresh' = [refresh EXCEPT ![f] = 0]
  /\ LET ok == {v \in Found(refresh[f]) : ~active[v].stepUp}
     IN  IF ok = {} \/ tokens = MaxTokens
         THEN UNCHANGED <<active, saves, tokens, exchanged>>
         ELSE /\ tokens' = tokens + 1
              /\ \E v \in ok : Put(v, Rotated(active[v], tokens'))
              /\ Exchange(refresh[f])
  /\ UNCHANGED <<login, pending, pendingRow, verify, row, userVars,
                 boundVars>>

Logout(v) ==
  /\ v \in Found(active[v].token)
  /\ Put(v, [active[v] EXCEPT !.revoked = TRUE])
  /\ UNCHANGED <<login, pending, pendingRow, verify, row, refresh,
                 tokens, exchanged, userVars, boundVars>>

\* revoke_sessions_for_user: in memory only.
Revoked(u) ==
  [v \in Verifies |->
     IF active[v] # NoSession /\ Owner[active[v].login] = u
     THEN [active[v] EXCEPT !.revoked = TRUE] ELSE active[v]]

\* apply_persistent_mitigations, for one user: a step-up without a challenge,
\* or the end of all sessions, saved one after the other.
Mitigate(u, action) ==
  LET hit == {v \in Verifies :
                /\ active[v] # NoSession
                /\ Owner[active[v].login] = u
                /\ ~active[v].revoked
                /\ action = "StepUpAuth" => ~active[v].stepUp}
      changed(s) == IF action = "StepUpAuth" THEN [s EXCEPT !.stepUp = TRUE]
                    ELSE [s EXCEPT !.revoked = TRUE, !.stepUp = FALSE]
  IN  /\ hit # {}
      /\ Cardinality(saves) < MaxSaves
      /\ active' = [v \in Verifies |-> IF v \in hit THEN changed(active[v])
                                       ELSE active[v]]
      /\ saves' = saves \cup {<<v, changed(active[v])>> : v \in hit}
      /\ UNCHANGED <<login, pending, pendingRow, verify, row, refresh,
                     tokens, exchanged, userVars, boundVars>>

SaveActiveSession(v, s) ==
  /\ <<v, s>> \in saves
  /\ saves' = saves \ {<<v, s>>}
  /\ \/ row' = [row EXCEPT ![v] = s] /\ UNCHANGED saveFaults
     \/ SaveFails /\ UNCHANGED row
  /\ UNCHANGED <<login, pending, pendingRow, verify, active, refresh,
                 tokens, exchanged, userVars, restarts>>

\* load_sessions and load_users; the requests being served are gone.
LoadSessions ==
  /\ restarts < MaxRestarts
  /\ restarts' = restarts + 1
  /\ login' = [l \in Logins |->
                 IF login[l] = "saving" THEN "failed" ELSE login[l]]
  /\ pending' = pendingRow
  /\ active' = row
  /\ users' = userRow
  /\ verify' = [v \in Verifies |->
                  IF verify[v].pc \in {"checked", "removed"}
                  THEN [verify[v] EXCEPT !.pc = "done"] ELSE verify[v]]
  /\ refresh' = [f \in Refreshes |-> 0]
  /\ saves' = {}
  /\ UNCHANGED <<pendingRow, row, tokens, exchanged, userRow,
                 saveFaults>>

\* Every step but the restart, which other components take part in.
SessionsNext ==
  \/ \E l \in Logins : \/ LoginHandler(l)
                       \/ SsoCallback(l)
                       \/ SsoPending(l)
                       \/ SavePendingSession(l)
  \/ \E v \in Verifies : \/ \E l \in Logins : VerifyChallenge(v, l)
                         \/ RemovePending(v)
                         \/ ActivateSession(v)
                         \/ \E signal \in Signals : DevicePosture(v, signal)
                         \/ StepUpVerify(v)
                         \/ Logout(v)
  \/ \E f \in Refreshes : \/ \E t \in 1..tokens : DetectReplay(f, t)
                          \/ RotateRefreshToken(f)
  \/ \E u \in Users, a \in {"StepUpAuth", "TerminateSession"} : Mitigate(u, a)
  \/ \E c \in saves : SaveActiveSession(c[1], c[2])

----

\* A login turns into at most one session, although two mfa/verify requests
\* may verify the same pending session before either removes it, and a
\* restart may bring a pending session back.
OneSessionPerLogin ==
  \A v, w \in Verifies :
    (active[v] # NoSession /\ active[w] # NoSession
       /\ active[v].login = active[w].login) => v = w

\* Within the life of one API process a refresh token is exchanged for a new
\* one at most once: concurrent refreshes with one token, a step-up between
\* the two critical sections of a refresh, and logouts included.  A restart
\* may revive a token whose rotation was not saved.
TokenExchangedOnce ==
  \A t \in 1..tokens : exchanged[t] <= 1 + restarts

\* The current tokens of the sessions are distinct, and the row of a session
\* never names a token that is newer than the one in memory, in whatever
\* order the clones reach the table.
TableNeverAhead ==
  /\ \A v, w \in Verifies :
       (active[v] # NoSession /\ active[w] # NoSession
          /\ active[v].token = active[w].token) => v = w
  /\ \A v \in Verifies : row[v] # NoSession =>
       /\ active[v] # NoSession
       /\ row[v].token <= active[v].token
       /\ row[v].previous < row[v].token

\* A revoked session stays revoked until the API restarts: no assessment,
\* step-up, refresh or mitigation that was under way revives it.
RevokedStaysRevoked ==
  [][\A v \in Verifies :
       (active[v] # NoSession /\ active[v].revoked /\ restarts' = restarts)
         => active'[v].revoked]_<<active, restarts>>

\* A login and a refresh token are good for one use, the table is never ahead
\* of memory, and no request that was under way revives a session that was
\* revoked (SessionRegistry and the table sessions).
SessionsSound ==
  /\ [](SessionsTypeOK /\ OneSessionPerLogin /\ TokenExchangedOnce /\ TableNeverAhead)
  /\ RevokedStaysRevoked
=============================================================================
