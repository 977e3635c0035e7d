--------------------------- MODULE MCIssueContext ---------------------------
(***************************************************************************)
(* Issue contexts with a few issues, each of one of two classes that the   *)
(* two filters tell apart.                                                 *)
(***************************************************************************)
EXTENDS IssueContext, TLC

CONSTANTS i1, i2, i3

MCIssues == {i1, i2, i3}
Symmetry == Permutations(MCIssues)

\* ESSTEE_RUNTIME_ERROR and ESSTEE_BUFFER_WARNING
MCClasses == {{5}, {11}}
MCFatalKinds == {"memory"}
MCFilters == {AnyError, AnyIssue}
=============================================================================
