----------------------------- MODULE TypedQueue -----------------------------
(***************************************************************************)
(* What a pair of Serializer objects promises (Serializer.h): values come  *)
(* out of the storage in the order they went in, each asked for by its own *)
(* type.  Asking for another type, or for more than there is, fails, and   *)
(* whoever has failed does nothing more.                                   *)
(*                                                                         *)
(* Over a storage that was in use the items are followed by a tail of      *)
(* older bytes, of which nothing is promised: a reader that takes          *)
(* something from it is lost until it begins again.                        *)
(***************************************************************************)
EXTENDS Naturals, Sequences

CONSTANTS
    Entries,    \* what can be stored: values with their types
    Types       \* what can be asked for

VARIABLES
    items,      \* what was stored
    next,       \* the item to be loaded next
    exported,   \* the writer has not failed
    imported,   \* the reader has not failed
    asked,      \* the type asked for last
    var,        \* what the last load gave its caller
    tail,       \* older bytes follow the items
    lost        \* the reader is not at an item, nor at their end

vars == <<items, next, exported, imported, asked, var, tail, lost>>

Init ==
    /\ items = <<>> /\ next = 1 /\ exported = TRUE /\ imported = TRUE
    /\ tail = FALSE /\ lost = FALSE

Store ==
    /\ exported
    /\ \/ (\E e \in Entries : items' = Append(items, e)) /\ UNCHANGED exported
       \/ exported' = FALSE /\ UNCHANGED items
    /\ UNCHANGED <<next, imported, asked, var, tail, lost>>

Fits(t) == next \in DOMAIN items /\ items[next].type = t

\* The next item when it is of the type asked for, and otherwise a failure;
\* what a failed load leaves in var is not to be used
Load ==
    /\ imported /\ ~lost
    /\ asked' \in Types
    /\ \/ Fits(asked') /\ var' = items[next].val /\ next' = next + 1 /\ UNCHANGED <<imported, lost>>
       \/ ~Fits(asked') /\ imported' = FALSE /\ UNCHANGED <<next, lost>>
       \/ next \notin DOMAIN items /\ tail /\ lost' = TRUE /\ UNCHANGED <<next, imported>>
    /\ UNCHANGED <<items, exported, tail>>

\* A lost reader takes what is there, or fails
LoadLost == imported /\ lost /\ UNCHANGED <<items, next, exported, tail, lost>>

\* A reader that has failed clears the caller's variable and nothing else
LoadNothing == ~imported /\ UNCHANGED <<items, next, exported, imported, tail, lost>>

\* The reader begins again
Rewind ==
    /\ next' = 1 /\ imported' = TRUE /\ lost' = FALSE
    /\ UNCHANGED <<items, exported, asked, var, tail>>

\* An empty storage and two new objects
Renew ==
    /\ items' = <<>> /\ next' = 1 /\ exported' = TRUE /\ imported' = TRUE
    /\ tail' = FALSE /\ lost' = FALSE
    /\ UNCHANGED <<asked, var>>

\* The writer begins again over the same storage.  Its items become the tail,
\* and so may what was left there by one that was not stored whole.
Reuse ==
    /\ items' = <<>> /\ next' = 1 /\ exported' = TRUE
    /\ tail' \in {tail, TRUE} /\ (items # <<>> => tail')
    /\ lost' = (lost \/ next # 1)
    /\ UNCHANGED <<imported, asked, var>>

Next == Store \/ Load \/ LoadLost \/ LoadNothing \/ Rewind \/ Renew \/ Reuse

Spec == Init /\ [][Next]_vars

=============================================================================
