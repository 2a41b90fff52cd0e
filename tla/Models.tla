------------------------------- MODULE Models -------------------------------
(***************************************************************************)
(* What the components share: the identifiers of products and carts.       *)
(* Products are numbers whose order is the ascending order of their ids.   *)
(* A cart id is opaque; Carts holds every id the program may ever draw.    *)
(***************************************************************************)
EXTENDS Integers, FiniteSets

CONSTANTS Products, Carts

ASSUME ProductsAreOrdered == Products \subseteq Nat
ASSUME CatalogueIsFinite  == IsFiniteSet(Products)
=============================================================================
