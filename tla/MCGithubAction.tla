--------------------------- MODULE MCGithubAction ---------------------------
EXTENDS GithubAction

\* What the action does depends on how the batch ended, not on its shortlists: they
\* are of one path at most, unless it is a user who runs the batch.
MCInit == ActionInit /\ (apc # "none" => top_k = 1)
MCSpec == MCInit /\ [][ActionNext]_allVars /\ WF_allVars(BatchStep \/ Action)
=============================================================================
