--------------------------- MODULE MCRpcProtocol ---------------------------
(***************************************************************************)
(* Calls of all ten kinds, one procedure that is not exported, one result  *)
(* that may not fit and one request for which there may be no room.        *)
(***************************************************************************)
EXTENDS RpcProtocol, TLC

Sizes == [type \in {"int", "unsigned"} |-> 2] @@ [bool |-> 1, long |-> 3]

AllButOne == <<10, 9, 8, 7, 6, 5, 4, 3, 2>>

Programs ==
  {[func |-> 1, args |-> <<7>>], [func |-> 2, args |-> <<>>], [func |-> 3, args |-> <<>>],
   [func |-> 4, args |-> <<2>>], [func |-> 5, args |-> << <<1, 0, 2>> >>],
   [func |-> 5, args |-> << <<1, 1, 1, 1, 1>> >>],
   [func |-> 6, args |-> << <<3>>, -2 >>], [func |-> 7, args |-> << <<>>, -1 >>],
   [func |-> 8, args |-> <<-128, 255>>], [func |-> 9, args |-> << <<0, 1>>, 1 >>],
   [func |-> 10, args |-> << <<>>, <<1>> >>]}

\* What the service answers depends on the arguments
Returns(func, args) ==
  CASE func \in {2, 9, 10} -> <<>>
    [] func = 3 -> 1
    [] func = 4 -> [i \in 1..args[1] |-> i]
    [] func = 5 -> args[1]
    [] func = 6 -> args[1] \o <<args[2] % ByteValues>>
    [] func = 7 -> Len(args[1]) + 200
    [] func = 8 -> args[2] - args[1]
    [] OTHER -> args[1] - 20
=============================================================================
