-------------------------- MODULE MCUserDBUpgrade ---------------------------
\* Instances of UserDBUpgrade for TLC.
EXTENDS UserDBUpgrade

\* an account that any version of the software created and closed properly
OldAccounts == {Upgraded(v) : v \in Versions}

PlainCases ==
    [file : OldAccounts, approvals : {{FALSE}}, scripted : {{}}, vacuumed : {{}}]
\* an upgrade that commits halfway and then runs VACUUM, and users who resume
OtherCases ==
    [file : OldAccounts, approvals : {BOOLEAN}, scripted : {{1}}, vacuumed : {{1}}]
\* the empty file of an account that is being created, with each of the two
NewAccounts ==
    [file : {EmptyFile}, approvals : {BOOLEAN}, scripted : {{}}, vacuumed : {{}}]
        \cup [file : {EmptyFile}, approvals : {{FALSE}}, scripted : {{1}}, vacuumed : {{1}}]
AllCases == PlainCases \cup OtherCases \cup NewAccounts
=============================================================================
