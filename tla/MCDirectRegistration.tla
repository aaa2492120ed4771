------------------------ MODULE MCDirectRegistration ------------------------
EXTENDS DirectRegistration

\* Two contexts, the second too small; helm and service; a restart of the API, a canceled or
\* a failed registration, a deleted upload.
Offers == [c \in Contexts |-> IF c = "c2" THEN Gates \ {"capacity"} ELSE Gates]
Enrolment(h, t, p, k, d, r, f) ==
  [helm |-> h, type |-> t, has |-> Offers, probes |-> p, starts |-> 1, cancels |-> k,
   deletes |-> d, restarts |-> r, faults |-> f]
MCEnrolments ==
  {Enrolment(TRUE, "cce", 2, 0, 0, 0, 0), Enrolment(TRUE, "native", 1, 1, 0, 1, 0),
   Enrolment(TRUE, "native", 1, 0, 0, 0, 1), Enrolment(FALSE, "openshift", 1, 1, 0, 0, 1),
   Enrolment(FALSE, "openshift", 1, 0, 1, 1, 0)}
=============================================================================
