------------------------------- MODULE MCAuditLog -------------------------------
EXTENDS AuditLog

\* Two segments and no age limit, or one segment and an age limit.
SomeLimits == {[files |-> 2, aging |-> FALSE], [files |-> 1, aging |-> TRUE]}
================================================================================
