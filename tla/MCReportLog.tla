---------------------------- MODULE MCReportLog ----------------------------
\* Instances of ReportLog for TLC.
EXTENDS ReportLog, TLC

\* Snapshots are alike.
MCSymmetry == Permutations(Snapshots)

=============================================================================
