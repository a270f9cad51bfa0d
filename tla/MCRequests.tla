------------------------------ MODULE MCRequests ------------------------------
(* Two threads that ask the same site.                                       *)
EXTENDS Requests

MCSiteOf == [t \in Threads |-> CHOOSE s \in Sites : TRUE]
==============================================================================
