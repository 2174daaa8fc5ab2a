---- MODULE MCProcessRun ----
EXTENDS ProcessRun
====
