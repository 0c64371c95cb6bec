----------------------------- MODULE MCUpdater -----------------------------
EXTENDS Updater
\* A release, a hotfix of it, and a release without one.
MCFeed ==
    <<[version |-> 1, commit |-> 1, hotfix |-> 0, canary |-> FALSE, runs |-> TRUE],
      [version |-> 1, commit |-> 1, hotfix |-> 1, canary |-> TRUE, runs |-> TRUE],
      [version |-> 2, commit |-> 2, hotfix |-> 0, canary |-> FALSE, runs |-> TRUE]>>
=============================================================================
