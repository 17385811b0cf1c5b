----------------------------- MODULE MCAddressSpace -----------------------------
(***************************************************************************)
(* Instance of AddressSpace for TLC.                                       *)
(***************************************************************************)
EXTENDS AddressSpace

MCImage == {[name |-> "a", text |-> 2, data |-> 2, spill |-> FALSE],
            [name |-> "b", text |-> 1, data |-> 1, spill |-> TRUE],
            [name |-> "c", text |-> 1, data |-> 0, spill |-> FALSE]}

\* The last page of the data and the page beyond it, and the last one of the stack.
MCWrites == {<<"data", 2>>, <<"stack", 2>>}
=============================================================================
