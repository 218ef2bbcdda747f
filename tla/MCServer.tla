-------------------------------- MODULE MCServer --------------------------------
EXTENDS ServerProperties

\* One client of each protocol.
MCProtocol == [sid \in UserID |-> IF sid % 2 = 0 THEN "json-v2" ELSE "msgpack-v1"]
==============================================================================
