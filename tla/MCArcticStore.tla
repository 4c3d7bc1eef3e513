----------------------------- MODULE MCArcticStore -----------------------------
(* ArcticStore with frames of one and two rows, some of the same times.       *)
EXTENDS ArcticStore

CONSTANTS c1, c2, c3, s1, s2

MCFrame == {<<1>>, <<1, 2>>}
MCPeriod == {{1, 2}, {2}}
================================================================================
