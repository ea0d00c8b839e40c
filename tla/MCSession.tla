------------------------------ MODULE MCSession ------------------------------
EXTENDS Session

CONSTANTS driver, boss

MCUsers == {driver, boss}
MCRole == [u \in MCUsers |-> IF u = driver THEN "driver" ELSE "dispatcher"]
MCSuperuser == [u \in MCUsers |-> u = boss]
=============================================================================
