------------------------------ MODULE Lifetimes ------------------------------
(***************************************************************************)
(* The vocabulary the models of Option, Result and Enum share.  The        *)
(* variables a program declares of one of these types are the Holders; the *)
(* objects stored in them are told apart by the value they were made from, *)
(* and an object whose value was moved out is a husk.  A union member in   *)
(* whose place no object lives is Vacant.                                  *)
(***************************************************************************)
CONSTANTS
    Holders,    \* variables of the modelled type
    Values,     \* values a program stores
    Vacant,     \* storage in which no object lives
    MovedFrom,  \* an object whose value was moved out
    Nothing     \* what a call answers when there is no value

(* What may be found in storage that has an object in it. *)
Objects == Values \cup {MovedFrom}

(* Values, husks, empty storage and an empty answer are told apart. *)
ASSUME LifetimeAssumption ==
    Nothing \notin Objects /\ Vacant \notin Objects /\ MovedFrom \notin Values
=============================================================================
