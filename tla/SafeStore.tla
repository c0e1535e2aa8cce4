------------------------------ MODULE SafeStore ------------------------------
(***************************************************************************)
(* What cons space promises to those who use it, whatever its mechanism:   *)
(* an object keeps its parts for as long as it is there, and the place of  *)
(* an object is used again only when nobody can reach the object.          *)
(***************************************************************************)
CONSTANTS
  Cell,       \* places for objects
  Permanent   \* objects that are there from the start and for ever

VARIABLES
  objects,    \* the places in use
  parts,      \* the objects each object refers to
  roots       \* the objects the client itself has a reference to

vars == <<objects, parts, roots>>

TypeOK ==
  /\ objects \subseteq Cell
  /\ parts \in [Cell -> SUBSET Cell]
  /\ roots \subseteq Cell

(* c cannot be reached: some set of objects has all the roots, and all the
   parts of its members, and not c.                                        *)
Garbage(c) ==
  \E S \in SUBSET objects : /\ roots \subseteq S
                            /\ \A d \in S : parts[d] \cap objects \subseteq S
                            /\ c \notin S

Init == objects = {} /\ parts = [c \in Cell |-> {}] /\ roots = {}

(* A new object from existing ones; the client gets a reference to it and
   may give up references in the bargain.                                  *)
Build(c, ps) ==
  /\ c \notin objects /\ c \notin Permanent
  /\ ps \subseteq objects \cup Permanent
  /\ objects' = objects \cup {c}
  /\ parts' = [parts EXCEPT ![c] = ps]
  /\ c \in roots' /\ roots' \subseteq roots \cup {c}

(* The client takes another reference to something it can reach. *)
Retain(c) ==
  /\ c \in objects /\ ~Garbage(c)
  /\ roots' = roots \cup {c}
  /\ UNCHANGED <<objects, parts>>

Forget(c) ==
  /\ roots' = roots \ {c}
  /\ UNCHANGED <<objects, parts>>

Recycle(c) ==
  /\ c \in objects /\ Garbage(c)
  /\ objects' = objects \ {c}
  /\ parts' = [parts EXCEPT ![c] = {}]
  /\ UNCHANGED roots

Next ==
  \E c \in Cell : \/ \E ps \in SUBSET Cell : Build(c, ps)
                  \/ Retain(c) \/ Forget(c) \/ Recycle(c)

Spec == Init /\ [][Next]_vars
=============================================================================
