------------------------------ MODULE MCWatchdog ------------------------------
EXTENDS WatchdogProps

(* Every client of the repository registers with KILL_ALL ...              *)
AllKillAll == [p \in Processes |-> "KILL_ALL"]

(* ... but for one of the test programs, which registers with RESET_ONLY.  *)
OnlyLastKillAll == [p \in Processes |-> IF p = NumProcesses THEN "KILL_ALL"
                                                            ELSE "RESET_ONLY"]

TwoMisses == [p \in Processes |-> 2]

OneMiss == [p \in Processes |-> 1]
=============================================================================
