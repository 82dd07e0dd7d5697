------------------------------- MODULE MCPidFile -------------------------------
EXTENDS PidFile

CONSTANTS o1, pid1, pid2, pid3

OneOperator == {o1}
OnePid      == {pid1}
ThreePids   == {pid1, pid2, pid3}

===============================================================================
