-------------------------- MODULE MCForgePipeline --------------------------
(* An instance of ForgePipeline: three submissions of the same code.        *)
EXTENDS ForgePipeline, TLC
CONSTANT h1

AllSame == [p \in Pipelines |-> h1]
Interchangeable == Permutations(Pipelines)
=============================================================================
