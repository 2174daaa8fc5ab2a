---- MODULE MCInteractivePane ----
EXTENDS InteractivePane
====
