-------------------------------- MODULE Ids ---------------------------------
(***************************************************************************)
(* The identities the master hands out.  An id belongs to one TCP control  *)
(* connection: both registries count up from 1 (`next_id`), a client that  *)
(* reconnects gets a new id, and 0 is never an id.                         *)
(***************************************************************************)
EXTENDS Integers, FiniteSets

CONSTANTS
    Producers,   \* ids of producer connections; the matcher sorts them
    Consumers    \* ids of consumer connections; nothing orders them

ASSUME IdAssumption ==
    /\ Producers \subseteq Nat \ {0} /\ IsFiniteSet(Producers)
    /\ IsFiniteSet(Consumers) /\ 0 \notin Consumers

None == 0   \* no id: `None`, and the 0 of `unwrap_or(0)`
=============================================================================
