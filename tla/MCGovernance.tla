---------------------------- MODULE MCGovernance ----------------------------
(* Small instances of grants under projects, audit signals and time, and   *)
(* of grants under HR synchronisation; part says which is explored.        *)
EXTENDS ProjectLifecycle, HrSync, TLC

CONSTANTS e1, g1, p1, d1, d2, m1

VARIABLE part

vars == <<grantVars, projectVars, hrVars, part>>

MCApplicant == g1 :> e1
MCProjectOf == g1 :> p1
MCRule == [requireActive |-> TRUE, users |-> {}, departments |-> {}, roles |-> TRUE]

Here == [status |-> "Active", department |-> d1, manager |-> m1]

News(kind, d, m) == [user |-> e1, kind |-> kind, department |-> d, manager |-> m]

MCNews == {News("Onboard", NoOne, m1), News("Transfer", d2, NoOne),
           News("Departure", NoOne, NoOne), News("ManagerChange", NoOne, NoOne)}

MCProfiles == {Here, [Here EXCEPT !.department = d2], [Here EXCEPT !.status = "Departed"]}

\* The grant is given already, or neither it nor its project, or its
\* applicant, is there.
MCInit ==
  /\ \/ /\ part = "projects"
        /\ \E s \in {<<{g1}, "Active">>, <<{}, "none">>} :
             GrantsInit(e1 :> Here, s[1], p1 :> s[2])
        /\ HrInit("feishu")
     \/ /\ part = "hr"
        /\ \E s \in {<<{g1}, Here>>, <<{}, Missing>>} :
             GrantsInit(e1 :> s[2], s[1], p1 :> "Active")
        /\ \E provider \in Feeds \cup {"ldap"} : HrInit(provider)
  /\ ProjectsInit

\* One audit signal; a statement fails or the process restarts.
ProjectsPart ==
  /\ part = "projects"
  /\ ProjectNext
  /\ Cardinality({j \in HrJobs : lifecycleJob'[j].pc # "idle"}) <= 1
  /\ directory'[e1].department \in {d1, NoOne}
  /\ lifecycleFaults' + governanceRestarts' <= 1
  /\ UNCHANGED hrVars

\* Two calls overlap with Feishu and with LDAP; the other feeds are alike.
HrPart ==
  /\ part = "hr"
  /\ HrNext
  /\ hrProvider \in {"workday", "sap"} => hrCalls' <= 1
  /\ crossed' = hrOverlap'
  /\ UNCHANGED <<projectRow, stored, storedRow, admin, projectChanges, governanceRestarts>>

MCNext == (ProjectsPart \/ HrPart) /\ part' = part

MCSpec == MCInit /\ [][MCNext]_vars

Symmetry == Permutations(HrJobs)
=============================================================================
