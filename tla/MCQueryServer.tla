----------------------------- MODULE MCQueryServer -----------------------------
(* QueryServer with three clients; the queue of listen holds two of them.        *)
EXTENDS QueryServer

const_Backlog == 2
================================================================================
