-------------------------- MODULE EasyDBRefinement --------------------------
(***************************************************************************)
(* EasyDB implements AtomicDB.  A client sees the tables between requests, *)
(* when no call of handle_drop is in progress; `returned' is what it saw   *)
(* last, and the tables and the call of AtomicDB are those.                *)
(***************************************************************************)
EXTENDS EasyDB

VARIABLE returned   \* content and call when a handler last returned

InitReturned == Init /\ returned = [content |-> content, call |-> call]

NextReturned ==
  /\ Next
  /\ returned' = IF frames' = <<>> THEN [content |-> content', call |-> call']
                 ELSE returned

SpecReturned == InitReturned /\ [][NextReturned]_<<vars, returned>>

\* A thread that runs handle_drop runs it to its end
FairSpecReturned == SpecReturned /\ WF_vars(DropStep)

Atomic == INSTANCE AtomicDB WITH content <- returned.content, call <- returned.call

\* Every handler of the program, handle_drop with the whole of its recursion,
\* is one step of AtomicDB: the drop of a row removes exactly its family, in
\* whatever order the HashMaps list it, or fails as AtomicDB allows.
ImplementsAtomicDB == Atomic!Spec
=============================================================================
