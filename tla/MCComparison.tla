---------------------------- MODULE MCComparison ----------------------------
EXTENDS Comparison
MCRevision == [v \in Versions |-> IF v = "v3" THEN "r2" ELSE "r1"]
MCOutcomes ==
    {[classification |-> "success", cleanup |-> TRUE, reproducible |-> TRUE],
     [classification |-> "environment", cleanup |-> FALSE, reproducible |-> TRUE],
     [classification |-> "environment", cleanup |-> TRUE, reproducible |-> FALSE]}
=============================================================================
