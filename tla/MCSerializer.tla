---------------------------- MODULE MCSerializer ----------------------------
(* Instances of Serializer for TLC.  Lengths are written in bytes of two     *)
(* values: one of one byte is 1, of two bytes 2 or 3, of four bytes 4 to 15. *)
EXTENDS Serializer

Item(by, type, val) == [by |-> by, type |-> type, val |-> val]
Ones(n) == [i \in 1 .. n |-> 1]

\* Both sides of each boundary between the classes of lengths
Arrays == {Item("VAR", "VECTOR", Ones(n)) : n \in {0, 1, 2, 4}} \cup {Item("VAR", "STRING", Ones(3))}
Counts == {Item("CNT", "CNT", <<n>>) : n \in {0, 1, 4}}
\* The last byte of the second value is the code of its own type, for a reader
\* that strays into it
Fixed  == {Item("FIX", "CHAR", <<1>>), Item("FIX", "INT16", <<0, FixCode["INT16"]>>)}

\* A string given to StoreFix, and a list given to StoreVar
Unsupported == {Item("FIX", "STRING", <<1>>), Item("VAR", "LIST", <<1>>)}

SomeItems == Arrays \cup Counts \cup Fixed \cup Unsupported
SomeTypes == {"CHAR", "INT16", "VECTOR", "STRING", "CNT"}

=============================================================================
