------------------------------ MODULE MCTransport ------------------------------
(* Requests of none, one and several chunks of two bytes, one of them too  *)
(* long for a staging buffer of six, and the requests that want no reply.  *)
EXTENDS Transport

MCRequests == {<<1, 0>>, <<2, 2>>, <<5, 3>>, <<7, 1>>}

===============================================================================
