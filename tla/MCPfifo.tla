------------------------------ MODULE MCPfifo ------------------------------
EXTENDS Pfifo
Header(m, k, i) == [op |-> "method", method |-> m, count |-> k, inc |-> i]
Data == [op |-> "data"]
\* The first channel binds an object and meets an error; the second calls 8, where it binds an
\* object and uses it.  Both buffers end before 7.
MCMemory == <<Header("bind", 1, TRUE), Data, [op |-> "bad"], [op |-> "jump", to |-> 7],
              [op |-> "bad"], [op |-> "call", to |-> 8], [op |-> "bad"],
              Header("bind", 1, TRUE), Data, Header("object", 1, TRUE), Data, [op |-> "return"]>>
MCStarts == [c \in Channels |-> IF c = CHOOSE d \in Channels : TRUE THEN 1 ELSE 6]
=============================================================================
