------------------------------ MODULE WormLog ------------------------------
(***************************************************************************)
(* What the sealed part of the verification series promises: a log that is *)
(* only ever extended, at its end, by entries numbered without a hole.     *)
(* The log is a function from numbers to entries.  Which entries are       *)
(* written, when, and how many at a time is left open.                     *)
(***************************************************************************)
EXTENDS Naturals

CONSTANT Entry      \* what one position of the log can hold

VARIABLE log        \* log[n] is the entry numbered n

(* A longer log that keeps every entry already written. *)
Extends(longer, shorter) ==
    /\ DOMAIN shorter \subseteq DOMAIN longer
    /\ \A n \in DOMAIN shorter : longer[n] = shorter[n]

Init == log = [n \in {} |-> n]

Write ==
    /\ Extends(log', log)
    /\ \A n \in DOMAIN log' :
          /\ n \in Nat \ {0}
          /\ 1..n \subseteq DOMAIN log'
          /\ log'[n] \in Entry

Spec == Init /\ [][Write]_log
=============================================================================
