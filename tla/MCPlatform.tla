----------------------------- MODULE MCPlatform -----------------------------
(***************************************************************************)
(* The control plane on small instances: the migration of a tenant, the    *)
(* handover of an agent, the upgrade of the platform, the admission of     *)
(* tasks, the times of schedules, direct registration and the accounts of  *)
(* organizations.  The seven share no state here; a behaviour is one of    *)
(* one part, and the others stay where they began.                         *)
(***************************************************************************)
EXTENDS CommunityMigration, ControlPlaneHandover, PlatformUpgrade, TaskAdmission,
        MCPolicySchedule, MCDirectRegistration, MCOrganizations

VARIABLE part
platformLifeVars == <<part, moveVars, handVars, platVars, admVars, dateVars, enrolVars, orgVars>>

MCMoves == 1..2
MCSites == {"k1", "k2"}

\* One session with every call and a write beside it; two sessions at once.
MCJourneys ==
  {[moves |-> {1}, calls |-> Calls, writes |-> 1, impatient |-> TRUE],
   [moves |-> Moves, calls |-> {"freeze"}, writes |-> 0, impatient |-> TRUE]}

\* A handover through a stop of the agent, a lost command, a repeated one, a failed call.
Passage(s, d, a, f, w) == [stops |-> s, drops |-> d, again |-> a, fails |-> f, wants |-> w]
MCPassages ==
  {Passage(1, 0, 0, 0, w) : w \in {"commit", "rollback"}}
  \cup {Passage(0, 1, 0, 0, "commit"), Passage(0, 0, 1, 0, "commit"), Passage(0, 0, 1, 0, "rollback")}
  \cup {Passage(0, 0, 0, 1, w) : w \in {"commit", "rollback"}}

\* Two administrators and two failing steps beside a due schedule; an upgrader that stops.
MCReleasings ==
  {[admins |-> Admins, faults |-> 2, stops |-> 0, due |-> 1],
   [admins |-> Admins, faults |-> 1, stops |-> 1, due |-> 0]}

\* Pairs of requests with and without due schedules, failing writes and edited plans.
Admission(x, y, s, f, c) ==
  [want |-> [r \in Requesters |-> IF r = "m1" THEN x ELSE y], slots |-> s, faults |-> f, changes |-> c]
MCAdmissions ==
  {Admission("sync", "appSync", 1, 1, 0), Admission("sync", "none", 2, 1, 1),
   Admission("none", "none", 1, 0, 2), Admission("drill", "delete", 0, 0, 1),
   Admission("drill", "restore", 0, 0, 0), Admission("restore", "retry", 0, 0, 0),
   Admission("retry", "drill", 0, 0, 0)}

-----------------------------------------------------------------------------
PlatformParts == {"migration", "handover", "upgrade", "admission", "schedule", "enrolment", "organizations"}

\* An arbitrary initial state of each part stands for a part that does not move.
Still ==
  [journey |-> CHOOSE j \in MCJourneys : TRUE, passage |-> Passage(1, 0, 0, 0, "commit"),
   release |-> CHOOSE r \in MCReleasings : TRUE, admission |-> Admission("none", "none", 1, 0, 2),
   policy |-> LastDay, enrolment |-> Enrolment(TRUE, "cce", 2, 0, 0, 0, 0), growth |-> Growth({}, 2, 0, 0, 0, 0, 0, 1, 0)]

MCInit ==
  /\ part \in PlatformParts
  /\ MigrationInit /\ HandoverInit /\ PlatformInit /\ AdmissionInit /\ DateInit /\ EnrolInit
  /\ OrganizationsInit
  /\ part # "migration" => journey = Still.journey
  /\ part # "handover" => passage = Still.passage
  /\ part # "upgrade" => releasing = Still.release
  /\ part # "admission" => admission = Still.admission
  /\ part # "schedule" => policy = Still.policy
  /\ part # "enrolment" => enrolment = Still.enrolment
  /\ part # "organizations" => growth = Still.growth

MCNext ==
  /\ UNCHANGED part
  /\ \/ /\ part = "migration" /\ MigrationNext
        /\ UNCHANGED <<handVars, platVars, admVars, dateVars, enrolVars, orgVars>>
     \/ /\ part = "handover" /\ HandoverNext
        /\ UNCHANGED <<moveVars, platVars, admVars, dateVars, enrolVars, orgVars>>
     \/ /\ part = "upgrade" /\ PlatformNext
        /\ UNCHANGED <<moveVars, handVars, admVars, dateVars, enrolVars, orgVars>>
     \/ /\ part = "admission" /\ AdmissionNext
        /\ UNCHANGED <<moveVars, handVars, platVars, dateVars, enrolVars, orgVars>>
     \/ /\ part = "schedule" /\ DateNext
        /\ UNCHANGED <<moveVars, handVars, platVars, admVars, enrolVars, orgVars>>
     \/ /\ part = "enrolment" /\ EnrolNext
        /\ UNCHANGED <<moveVars, handVars, platVars, admVars, dateVars, orgVars>>
     \/ /\ part = "organizations" /\ OrganizationsNext
        /\ UNCHANGED <<moveVars, handVars, platVars, admVars, dateVars, enrolVars>>

\* The fairness of each part, for the part that moves.
MCFairness ==
  /\ \A m \in Moves : WF_moveVars(part = "migration" /\ SessionLapses(m))
  /\ WF_handVars(part = "handover" /\ Roll) /\ WF_handVars(part = "handover" /\ StartUp)
  /\ WF_handVars(part = "handover" /\ EndUp) /\ WF_handVars(part = "handover" /\ Connect)
  /\ WF_handVars(part = "handover" /\ watchHandoverDeadline)
  /\ WF_handVars(part = "handover" /\ Persist) /\ WF_handVars(part = "handover" /\ Expire)
  /\ \A r \in Routines : WF_handVars(part = "handover" /\ Work(r))
  /\ WF_platVars(part = "upgrade" /\ Upgrade)
  /\ \A i \in Instances : WF_admVars(part = "admission" /\ TickStep(i))
  /\ \A k \in Rows : WF_admVars(part = "admission" /\ EndTask(k))
  /\ WF_enrolVars(part = "enrolment" /\ Janitor) /\ WF_enrolVars(part = "enrolment" /\ TimePasses)

MCSpec == MCInit /\ [][MCNext]_platformLifeVars /\ MCFairness

\* What no step does: an agent that was handed over and committed is not moved back, and
\* nobody joins an organization without a pending invitation.
PlatformStepsAreSafe == CommittedIsNotUndone /\ JoinIsInvited

\* An agent is connected after its handover, and to the control plane it returned to.
HandoverEnds == AgentIsReached /\ ReturnIsComplete

\* Freezes, upgrades, due schedules, registrations and uploaded credentials all come to an end.
OperationsEnd == FreezeEnds /\ PlatformUpgradeEnds /\ DueIsHandled /\ RegistrationEnds /\ CredentialGoes
=============================================================================
