------------------------------ MODULE MCLoadTest ------------------------------
(* A small load test for TLC: a plan of three requests over two workers.    *)
EXTENDS LoadTest
===============================================================================
