--------------------------- MODULE MCServiceHost ---------------------------
\* ServiceHost for model checking.  Two processes one after the other, two
\* pipe connections at a time, two key pairs.
EXTENDS ServiceHost
=============================================================================
