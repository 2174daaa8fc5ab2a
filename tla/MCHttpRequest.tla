---- MODULE MCHttpRequest ----
EXTENDS HttpRequest
====
