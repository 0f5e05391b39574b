---------------------------- MODULE MCPoolConnect ----------------------------
EXTENDS PoolConnect

AllQuirks == {"shown", "overlap", "sync", "race", "unmarked", "stall", "busy",
              "renew"}
NoQuirks == {}
=============================================================================
