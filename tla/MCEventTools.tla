---- MODULE MCEventTools ----
EXTENDS EventTools
====
