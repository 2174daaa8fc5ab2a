---- MODULE MCHeadlessOutput ----
EXTENDS HeadlessOutput
====
