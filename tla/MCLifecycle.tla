---------------------------- MODULE MCLifecycle ----------------------------
(* Two approvals compete for one run besides the automatic permit; two      *)
(* publishers and the resume thread compete for one postmortem.             *)
EXTENDS Lifecycle

CONSTANTS a1, a2, auto, h1, h2

AutoOnly == {auto}
OneApproval == {a1, auto}
TwoApprovals == {a1, a2, auto}
NoPublisher == {}
OnePublisher == {h1}
TwoPublishers == {h1, h2}

=============================================================================
