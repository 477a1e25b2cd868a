---------------------------- MODULE MCSerialComm ----------------------------
(* A small instance of SerialComm.  The two threads share nothing but the   *)
(* stop, so a behaviour is busy with one of them: budgets for the writer,   *)
(* for the line, and for the settings.                                      *)
EXTENDS SerialComm

None == [k \in Kinds |-> 0]

MCBudgets == {[None EXCEPT !["write"] = 4],
              [None EXCEPT !["write"] = 2, !["failure"] = 1],
              [None EXCEPT !["byte"] = 2, !["break"] = 1],
              [None EXCEPT !["byte"] = 1, !["failure"] = 1],
              [None EXCEPT !["settings"] = 2]}
=============================================================================
