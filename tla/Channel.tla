------------------------------ MODULE Channel -------------------------------
(***************************************************************************)
(* Channel of src/channel.rs: the targets a client is made with, and the   *)
(* one a call is sent to.  Connections belong to hyper.                    *)
(***************************************************************************)
EXTENDS Naturals, Sequences

CONSTANTS
  Parsed,        \* targets that Uri::try_from accepts
  HasScheme,     \* those of them with a scheme
  HasAuthority,  \* those of them with an authority
  Paths,         \* methods that are the path of a URI
  UsizeLimit     \* number of values of a usize

ASSUME ChannelAssumption ==
  /\ HasScheme \subseteq Parsed
  /\ HasAuthority \subseteq Parsed
  /\ UsizeLimit \in Nat \ {0}

\* Slip: both parts have to be missing for a target to be refused.
UsableEither(target) == target \in HasScheme \/ target \in HasAuthority

Usable(target) ==
  /\ target \in Parsed
  /\ target \in HasAuthority
  /\ target \in HasScheme

\* Channel::new succeeds.
ValidTargets(targets) ==
  /\ \A i \in 1 .. Len(targets) : Usable(targets[i])
  /\ targets # <<>>

\* Slip: the random number is not used.
ChosenFirst(uris, random) == 1

\* The index, from 1, of the target of a call.
Chosen(uris, random) == (random % Len(uris)) + 1

\* call does not panic at one of its expects.
HasParts(uri) == uri \in HasScheme /\ uri \in HasAuthority
=============================================================================
