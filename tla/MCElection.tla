------------------------------ MODULE MCElection ------------------------------
EXTENDS Election

CONSTANTS c1, c2, c3
=============================================================================
