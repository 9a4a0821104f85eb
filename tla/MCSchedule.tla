----------------------------- MODULE MCSchedule ------------------------------
EXTENDS Schedule

CONSTANTS r1, r2, w1, w2, w3

MCReaders == {r1, r2}
MCWriters == {w1, w2, w3}

==============================================================================
