-------------------------- MODULE MCPolicySchedule --------------------------
EXTENDS PolicySchedule

\* A policy of every kind; the last days of a month, one day that is in no February; a span
\* of days over the end of January and of February.
Policy(t, v, h, d) == [type |-> t, value |-> v, hour |-> h, day |-> d]
LastDay == Policy("monthly", 0, 1, 31)
MCPolicies ==
  {Policy("interval", 5, 0, 0), Policy("daily", 0, 1, 0), Policy("weekly", 0, 0, 0),
   Policy("monthly", 0, 1, 29), LastDay}
MCEndOfMonth == {LastDay}
MCSpan == 56..120
=============================================================================
