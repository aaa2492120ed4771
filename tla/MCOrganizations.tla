--------------------------- MODULE MCOrganizations ---------------------------
(***************************************************************************)
(* Two addresses in one organization.                                      *)
(***************************************************************************)
EXTENDS Organizations

CONSTANTS Ada, Bob, Acme

Growth(members, links, entries, requests, changes, profiles, disables, faults, oauths) ==
  [members |-> members, links |-> links, entries |-> entries, requests |-> requests, changes |-> changes,
   profiles |-> profiles, disables |-> disables, faults |-> faults, oauths |-> oauths]

\* Two administrators who change each other, with a profile or an invitation beside; joining
\* with Google and by link, with deletions and revoked links; failures; disabled organizations.
MCGrowths ==
  {Growth({Ada, Bob}, 0, 0, 2, 2, 1, 0, 0, 0), Growth({Ada, Bob}, 1, 1, 2, 2, 0, 0, 0, 0),
   Growth({Ada}, 2, 0, 1, 0, 0, 0, 0, 1), Growth({Ada}, 2, 0, 1, 1, 0, 0, 0, 0),
   Growth({}, 2, 0, 0, 0, 0, 0, 1, 0), Growth({Ada}, 1, 0, 0, 1, 0, 0, 1, 2),
   Growth({Ada}, 1, 1, 1, 0, 0, 1, 0, 1)}

\* Two administrators, three changes and a profile.
MCProfileGrowths == {Growth({Ada, Bob}, 0, 1, 0, 3, 1, 0, 0, 0)}
=============================================================================
