----------------------------- MODULE MCHostLayout -----------------------------
EXTENDS HostLayout

\* From less than the smallest layout to several records of every table, one
\* byte at a time.  Six subgroups have more tokens than MaxInt.
Budgets == [bytes : 150 .. 620, backend : {"exact_shadow", "sampled_watchpoint"},
            exact : {-1, 0, 3}, sampled : {-1, 2}, diagnostic : {-1, 0, 2},
            subgroup : {1, 2, 6}]
==============================================================================
