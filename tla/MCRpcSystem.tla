---------------------------- MODULE MCRpcSystem ----------------------------
(* Small instances of RpcSystem for TLC. *)
EXTENDS RpcSystem, TLC

CONSTANTS a, b

MCall(args, result) == [args |-> args, result |-> result, exported |-> TRUE]

\* A request and a reply of the largest size, and the ways out of the limits: a procedure
\* nobody exports, a result that fits only into an empty outbuf, a result that fits
\* nowhere, and a request that is larger than inbuf
AllCalls == {MCall(1, 1), [MCall(0, 0) EXCEPT !.exported = FALSE],
             MCall(0, 3), MCall(0, 4), MCall(4, 0)}

\* Within the limits
SmallCalls == {MCall(0, 0), MCall(1, 1)}

NoClients == {}
TwoOne == (a :> 2 @@ b :> 1)
ThreeOne == (a :> 3 @@ b :> 1)
Four == (a :> 4)
=============================================================================
