---- MODULE MCStreamRelay ----
EXTENDS StreamRelay
====
