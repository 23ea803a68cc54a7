-------------------------- MODULE MCTaskExecutor --------------------------
(* A batch of two cells, one of one, and an inspection.                    *)
EXTENDS TaskExecutor

CONSTANTS a, b, c, x

MCBatches == {<<a, b>>, <<c>>, <<x>>}
============================================================================
