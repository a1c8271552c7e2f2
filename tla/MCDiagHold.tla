----------------------------- MODULE MCDiagHold -----------------------------
\* Instances of DiagHold: one or two tasks in uds_manager, a J2534 tester, the
\* web task that switches the options, a script.
EXTENDS DiagHold, TLC

\* the tasks that call uds_manager are interchangeable
UdsSymmetry == Permutations(UdsTasks)
=============================================================================
